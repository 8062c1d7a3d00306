------------------------------ MODULE SqsProofs ------------------------------
(***************************************************************************)
(* What SqsQueue promises for every set of ids, consumers, settings and    *)
(* bounds, and what is left of it, and added to it, when a Lambda event    *)
(* source mapping (EsmSqs) is one of the consumers.  The first part: the   *)
(* types, and that a visibility timeout is exclusive.                      *)
(***************************************************************************)
EXTENDS EsmSqs, FiniteSetTheorems, TLAPS

LEMMA ObjectInObjects ==
  ASSUME TypeOK, NEW q \in Names
  PROVE  Object(q) \in Objects
<1>1. made[q] \in 1..Incarnations[q] BY DEF TypeOK
<1>2. <<q, made[q]>> \in {<<q, k>> : k \in 1..Incarnations[q]} BY <1>1
<1> QED BY <1>2 DEF Objects, Object

LEMMA ObjectNames ==
  ASSUME NEW o \in Objects
  PROVE  o[1] \in Names
BY DEF Objects

LEMMA FirstSubset ==
  ASSUME NEW S, NEW n
  PROVE  First(S, n) \subseteq S
BY DEF First

(* A message that is appended.                                              *)
LEMMA NewMessageType ==
  ASSUME TypeOK, NEW o \in Objects, NEW i \in Ids, NEW g \in Groups \cup {NoGroup},
         NEW k \in Keys \cup {NoKey}, NEW d \in Nat
  PROVE  NewMessage(o, i, g, k, d) \in Message
BY DEF TypeOK, NewMessage, Message

LEMMA AppendType ==
  ASSUME TypeOK, NEW o \in Objects, NEW i \in Ids, NEW g \in Groups \cup {NoGroup},
         NEW k \in Keys \cup {NoKey}, NEW d \in Nat, Append(o, i, g, k, d)
  PROVE  /\ msgs' \in [Objects -> SUBSET Message]
         /\ tail' \in [Objects -> Nat]
         /\ fate' \in [Ids -> Fates]
         /\ since' \in [Objects -> [Keys -> Nat]]
<1>1. NewMessage(o, i, g, k, d) \in Message BY NewMessageType
<1>2. msgs' \in [Objects -> SUBSET Message] BY <1>1 DEF TypeOK, Append
<1>3. tail' \in [Objects -> Nat] BY DEF TypeOK, Append
<1>4. fate' \in [Ids -> Fates] BY DEF TypeOK, Append, Fates
<1>5. since' \in [Objects -> [Keys -> Nat]] BY DEF TypeOK, Append
<1> QED BY <1>2, <1>3, <1>4, <1>5

LEMMA MovedType ==
  ASSUME TypeOK, NEW m \in Message
  PROVE  Moved(m) \in Message
<1>1. tail[Object("dlq")] \in Nat BY ObjectInObjects DEF TypeOK, Names
<1>2. tail[Object("dlq")] + m.pos \in Nat BY <1>1 DEF Message
<1>3. (IF IsFifo THEN 0 ELSE m.age) \in Nat BY DEF Message
<1> QED BY <1>2, <1>3 DEF Moved, Message

LEMMA SweepType ==
  ASSUME TypeOK, NEW o \in Objects, ExpireAndSweep(o)
  PROVE  /\ msgs' \in [Objects -> SUBSET Message]
         /\ tail' \in [Objects -> Nat]
         /\ fate' \in [Ids -> Fates]
<1>1. \A m \in Dead(o) : Moved(m) \in Message
  <2>1. Dead(o) \subseteq Message BY DEF TypeOK, Dead, Retained
  <2> QED BY <2>1, MovedType
<1>2. msgs' \in [Objects -> SUBSET Message]
  <2>1. Retained(o) \ Dead(o) \subseteq Message BY DEF TypeOK, Retained
  <2>2. {Moved(m) : m \in Dead(o)} \subseteq Message BY <1>1
  <2> QED BY <2>1, <2>2 DEF TypeOK, ExpireAndSweep
<1>3. tail' \in [Objects -> Nat]
  <2>1. tail[o] \in Nat /\ tail[Object("dlq")] + tail[o] \in Nat
    BY ObjectInObjects DEF TypeOK, Names
  <2> QED BY <2>1 DEF TypeOK, ExpireAndSweep
<1>4. fate' \in [Ids -> Fates] BY DEF TypeOK, ExpireAndSweep, Mark, Fates
<1> QED BY <1>2, <1>3, <1>4

(* Every variable keeps its type.                                           *)
LEMMA TypeInit == Init => TypeOK
<1> USE ConstantsAssumption
<1> SUFFICES ASSUME Init PROVE TypeOK OBVIOUS
<1>1. attr \in [Objects -> Setting] BY ObjectNames DEF Init
<1>2. msgs \in [Objects -> SUBSET Message] BY DEF Init
<1>3. fate \in [Ids -> Fates] BY DEF Init, Fates
<1>4. \A q \in Names : made[q] \in 1..Incarnations[q] BY DEF Init
<1> QED BY <1>1, <1>2, <1>3, <1>4 DEF Init, TypeOK

LEMMA ReceiveType ==
  ASSUME TypeOK, NEW c \in Consumers, NEW q \in Names, NEW n \in BatchSizes,
         NEW v \in VisTimeouts, NEW w \in Nat, ReceiveMessage(c, q, n, v, w)
  PROVE  TypeOK'
<1>1. Object(q) \in Objects BY ObjectInObjects
<1>2. [pc |-> "collect", obj |-> Object(q), max |-> n, vis |-> v, wait |-> w] \in Call
  BY <1>1 DEF Call
<1>3. call' \in [Consumers -> Call \cup {IdleCall}] BY <1>2 DEF ReceiveMessage, TypeOK
<1> QED BY <1>1, <1>3, SweepType DEF ReceiveMessage, TypeOK

LEMMA TypeStep == TypeOK /\ [Next]_vars => TypeOK'
<1> USE ConstantsAssumption
<1> SUFFICES ASSUME TypeOK, [Next]_vars PROVE TypeOK' OBVIOUS
<1>1. ASSUME NEW q \in Names, NEW i \in Ids, NEW d \in Delays \cup {attr[Object(q)].delay},
             SendStandard(q, i, d)
      PROVE  TypeOK'
  <2>1. Object(q) \in Objects BY ObjectInObjects
  <2>2. d \in Nat BY <2>1 DEF TypeOK, Setting
  <2> QED BY <1>1, <2>1, <2>2, AppendType DEF SendStandard, TypeOK
<1>2. ASSUME NEW q \in Names, NEW i \in Ids, NEW g \in Groups, NEW k \in Keys,
             SendFifo(q, i, g, k) \/ DirectAppend(q, i, g, k)
      PROVE  TypeOK'
  <2>1. Object(q) \in Objects BY ObjectInObjects
  <2>2. attr[Object(q)].delay \in Nat BY <2>1 DEF TypeOK, Setting
  <2>3. Append(Object(q), i, g, k, attr[Object(q)].delay) BY <1>2 DEF SendFifo, DirectAppend
  <2>4. dedup' \in [Objects -> [Keys -> Nat]]
    <3>1. dedup \in [Objects -> [Keys -> Nat]] BY DEF TypeOK
    <3>2. [dedup EXCEPT ![Object(q)][k] = DedupWindow] \in [Objects -> [Keys -> Nat]]
      BY <3>1
    <3> QED BY <1>2, <3>1, <3>2 DEF SendFifo, DirectAppend
  <2>5. UNCHANGED <<live, made, attr, call, lease>> BY <1>2 DEF SendFifo, DirectAppend
  <2> QED BY <2>1, <2>2, <2>3, <2>4, <2>5, AppendType DEF TypeOK
<1>3. ASSUME NEW c \in Consumers, NEW q \in Names, NEW n \in BatchSizes,
             NEW v \in VisTimeouts, NEW w \in WaitTimes[q], ReceiveMessage(c, q, n, v, w)
      PROVE  TypeOK'
  BY <1>3, ReceiveType
<1>4. ASSUME NEW c \in Consumers, Wake(c) PROVE TypeOK'
  <2>1. call[c] \in Call BY <1>4 DEF Wake, TypeOK, IdleCall
  <2>2. call' \in [Consumers -> Call \cup {IdleCall}] BY <1>4, <2>1 DEF Wake, TypeOK, Call
  <2>3. call[c].obj \in Objects BY <2>1 DEF Call
  <2> QED BY <1>4, <2>2, <2>3, SweepType DEF Wake, TypeOK
<1>5. ASSUME NEW c \in Consumers, Collect(c) PROVE TypeOK'
  <2>1. call[c] \in Call BY <1>5 DEF Collect, TypeOK, IdleCall
  <2>2. call[c].obj \in Objects /\ call[c].vis \in Nat BY <2>1 DEF Call
  <2>3. msgs' \in [Objects -> SUBSET Message]
    <3>1. \A m \in Message : Delivered(m, c, call[c].vis) \in Message
      <4> TAKE m \in Message
      <4>1. m.rcv + 1 \in Nat /\ call[c].vis \in Nat BY <2>2 DEF Message
      <4> QED BY <4>1 DEF Delivered, Message
    <3> DEFINE o   == call[c].obj
               got == First(Deliverable(o), call[c].max)
               new == {IF m \in got THEN Delivered(m, c, call[c].vis) ELSE m : m \in msgs[o]}
    <3>2. msgs[o] \subseteq Message BY <2>2 DEF TypeOK
    <3>3. new \in SUBSET Message BY <3>1, <3>2
    <3>4. msgs' = [msgs EXCEPT ![o] = new] BY <1>5 DEF Collect
    <3> HIDE DEF new
    <3> QED BY <3>3, <3>4 DEF TypeOK
  <2>4. lease' \in [Consumers -> [Ids -> Nat]] BY <1>5, <2>2 DEF Collect, TypeOK
  <2>5. [call[c] EXCEPT !.pc = "sleep"] \in Call BY <2>1 DEF Call
  <2>6. call' \in [Consumers -> Call \cup {IdleCall}] BY <1>5, <2>5 DEF Collect, TypeOK
  <2> QED BY <1>5, <2>3, <2>4, <2>6 DEF Collect, TypeOK
<1>6. ASSUME NEW c \in Consumers, NEW q \in Names, NEW D \in SUBSET Ids, DeleteMessages(c, q, D)
      PROVE  TypeOK'
  <2>1. msgs' \in [Objects -> SUBSET Message] BY <1>6, ObjectInObjects DEF DeleteMessages, TypeOK
  <2>2. fate' \in [Ids -> Fates] BY <1>6 DEF DeleteMessages, TypeOK, Mark, Fates
  <2>3. lease' \in [Consumers -> [Ids -> Nat]] BY <1>6 DEF DeleteMessages, TypeOK
  <2> QED BY <1>6, <2>1, <2>2, <2>3 DEF DeleteMessages, TypeOK
<1>7. ASSUME NEW c \in Consumers, NEW q \in Names, NEW D \in SUBSET Ids,
             NEW v \in VisTimeouts, ChangeVisibility(c, q, D, v)
      PROVE  TypeOK'
  <2>1. \A m \in Message : [m EXCEPT !.hidden = v] \in Message BY DEF Message
  <2>2. msgs' \in [Objects -> SUBSET Message]
    BY <1>7, <2>1, ObjectInObjects DEF ChangeVisibility, TypeOK
  <2>3. lease' \in [Consumers -> [Ids -> Nat]] BY <1>7 DEF ChangeVisibility, TypeOK
  <2> QED BY <1>7, <2>2, <2>3 DEF ChangeVisibility, TypeOK
<1>8. ASSUME NEW q \in Names, GetQueueAttributes(q) PROVE TypeOK'
  <2>1. msgs' \in [Objects -> SUBSET Message]
    BY <1>8, ObjectInObjects DEF GetQueueAttributes, TypeOK, Retained
  <2>2. fate' \in [Ids -> Fates] BY <1>8 DEF GetQueueAttributes, TypeOK, Mark, Fates
  <2> QED BY <1>8, <2>1, <2>2 DEF GetQueueAttributes, TypeOK
<1>9. ASSUME NEW q \in Names, PurgeQueue(q) PROVE TypeOK'
  <2>1. msgs' \in [Objects -> SUBSET Message] BY <1>9, ObjectInObjects DEF PurgeQueue, TypeOK
  <2>2. fate' \in [Ids -> Fates] BY <1>9 DEF PurgeQueue, TypeOK, Mark, Fates
  <2> QED BY <1>9, <2>1, <2>2 DEF PurgeQueue, TypeOK
<1>10. ASSUME NEW q \in Names, DeleteQueue(q) PROVE TypeOK'
  BY <1>10 DEF DeleteQueue, TypeOK
<1>11. ASSUME NEW q \in Names, NEW a \in Attributes[q], SetQueueAttributes(q, a) PROVE TypeOK'
  <2>1. a \in Setting OBVIOUS
  <2>2. Object(q) \in Objects /\ Object(q)[1] = q BY ObjectInObjects DEF Object
  <2>3. attr' \in [Objects -> Setting] /\ \A o \in Objects : attr'[o] \in Attributes[o[1]]
    BY <1>11, <2>1, <2>2 DEF SetQueueAttributes, TypeOK
  <2> QED BY <1>11, <2>3 DEF SetQueueAttributes, TypeOK
<1>12. ASSUME NEW q \in Names, NEW a \in Attributes[q], CreateQueue(q, a) PROVE TypeOK'
  <2>1. a \in Setting OBVIOUS
  <2>2. attr' \in [Objects -> Setting] /\ \A o \in Objects : attr'[o] \in Attributes[o[1]]
    <3>1. attr' = [attr EXCEPT ![<<q, made[q] + 1>>] = a] BY <1>12 DEF CreateQueue
    <3>2. <<q, made[q] + 1>>[1] = q OBVIOUS
    <3> QED BY <2>1, <3>1, <3>2 DEF TypeOK
  <2>3. made' \in [Names -> Nat] /\ \A x \in Names : made'[x] \in 1..Incarnations[x]
    BY <1>12 DEF CreateQueue, TypeOK
  <2> QED BY <1>12, <2>2, <2>3 DEF CreateQueue, TypeOK
<1>13. ASSUME Tick PROVE TypeOK'
  <2>1. \A n \in Nat : Minus1(n) \in Nat BY DEF Minus1
  <2>2. \A n, x \in Nat : Plus1(n, x) \in Nat BY DEF Plus1
  <2>3. \A m \in Message :
          [m EXCEPT !.hidden = Minus1(@), !.age = Plus1(@, MaxAge)] \in Message
    BY <2>1, <2>2 DEF Message
  <2>4. msgs' \in [Objects -> SUBSET Message]
    <3>1. \A o \in Objects :
            {[m EXCEPT !.hidden = Minus1(@), !.age = Plus1(@, MaxAge)] : m \in msgs[o]}
            \in SUBSET Message
      <4> TAKE o \in Objects
      <4>1. msgs[o] \subseteq Message BY DEF TypeOK
      <4> QED BY <2>3, <4>1
    <3> QED BY <1>13, <3>1 DEF Tick
  <2>5. dedup' \in [Objects -> [Keys -> Nat]]
    <3>1. \A o \in Objects : [k \in Keys |-> Minus1(dedup[o][k])] \in [Keys -> Nat]
      BY <2>1 DEF TypeOK
    <3> QED BY <1>13, <3>1 DEF Tick
  <2>6. \A x \in Call \cup {IdleCall} : [x EXCEPT !.wait = Minus1(@)] \in Call \cup {IdleCall}
    <3>1. \A x \in Call : [x EXCEPT !.wait = Minus1(@)] \in Call BY <2>1 DEF Call
    <3>2. [IdleCall EXCEPT !.wait = Minus1(@)] = IdleCall BY DEF IdleCall, Minus1
    <3> QED BY <3>1, <3>2
  <2>7. call' \in [Consumers -> Call \cup {IdleCall}] BY <1>13, <2>6 DEF Tick, TypeOK
  <2>8. lease' \in [Consumers -> [Ids -> Nat]]
    <3>1. \A c \in Consumers : [i \in Ids |-> Minus1(lease[c][i])] \in [Ids -> Nat]
      BY <2>1 DEF TypeOK
    <3> QED BY <1>13, <3>1 DEF Tick
  <2>9. since' \in [Objects -> [Keys -> Nat]]
    <3>1. \A o \in Objects : [k \in Keys |-> Plus1(since[o][k], DedupWindow)] \in [Keys -> Nat]
      <4>1. DedupWindow \in Nat OBVIOUS
      <4>2. since \in [Objects -> [Keys -> Nat]] BY DEF TypeOK
      <4>3. \A o \in Objects, k \in Keys : since[o][k] \in Nat BY <4>2
      <4> QED BY <2>2, <4>1, <4>3
    <3> QED BY <1>13, <3>1 DEF Tick
  <2> QED BY <1>13, <2>4, <2>5, <2>7, <2>8, <2>9 DEF Tick, TypeOK
<1>14. CASE UNCHANGED vars BY <1>14 DEF vars, TypeOK
<1> QED
  BY <1>1, <1>2, <1>3, <1>4, <1>5, <1>6, <1>7, <1>8, <1>9, <1>10, <1>11, <1>12, <1>13, <1>14
  DEF Next, Send, Receive, Settle, Administer

THEOREM TypeCorrect == Spec => []TypeOK
BY TypeInit, TypeStep, PTL DEF Spec

-----------------------------------------------------------------------------
(* Visibility timeouts are exclusive.  LeaseExclusive is not inductive: a   *)
(* receive must know that a visible message is promised to nobody           *)
(* (LeaseHeld), which a second copy of it would break (UniqueCopy); a send  *)
(* must know that its new id is nowhere (Queued, UnsentFree).               *)

Queued == \A o \in Objects : \A m \in msgs[o] : fate[m.id] = "queued"

UniqueCopy ==
  \A o, p \in Objects : \A m \in msgs[o], x \in msgs[p] : m.id = x.id => o = p /\ m = x

LeaseHeld ==
  \A o \in Objects : \A m \in msgs[o] : \A c \in Consumers :
    lease[c][m.id] > 0 => m.handle = c /\ m.hidden >= lease[c][m.id]

UnsentFree == \A c \in Consumers, i \in Ids : fate[i] = "unsent" => lease[c][i] = 0

IInv == TypeOK /\ Queued /\ UniqueCopy /\ LeaseHeld /\ UnsentFree /\ LeaseExclusive

LEMMA MessageIds ==
  ASSUME TypeOK, NEW o \in Objects, NEW m \in msgs[o]
  PROVE  m \in Message /\ m.id \in Ids
BY DEF TypeOK, Message

(* Sending: the new message has an id no copy and no lease mentions.        *)
LEMMA AppendInv ==
  ASSUME IInv, NEW o \in Objects, NEW i \in Ids, NEW g, NEW k, NEW d,
         Append(o, i, g, k, d), UNCHANGED lease
  PROVE  Queued' /\ UniqueCopy' /\ LeaseHeld' /\ UnsentFree' /\ LeaseExclusive'
<1> DEFINE new == NewMessage(o, i, g, k, d)
<1>1. new.id = i BY DEF NewMessage
<1>2. \A p \in Objects : \A m \in msgs'[p] : m \in msgs[p] \/ (p = o /\ m = new)
  BY DEF Append, IInv, TypeOK
<1>3. \A p \in Objects : \A m \in msgs[p] : m.id \in Ids /\ m.id # i
  BY MessageIds DEF IInv, Queued, Append
<1>4. fate' = [fate EXCEPT ![i] = "queued"] /\ fate[i] = "unsent" BY DEF Append
<1> HIDE DEF new
<1>5. Queued'
  <2> SUFFICES ASSUME NEW p \in Objects, NEW m \in msgs'[p] PROVE fate'[m.id] = "queued"
    BY DEF Queued
  <2>1. CASE m \in msgs[p] BY <2>1, <1>3, <1>4 DEF IInv, Queued, TypeOK
  <2>2. CASE m = new BY <2>2, <1>1, <1>4 DEF IInv, TypeOK
  <2> QED BY <2>1, <2>2, <1>2
<1>6. UniqueCopy' BY <1>1, <1>2, <1>3 DEF IInv, UniqueCopy
<1>7. LeaseHeld'
  <2>1. \A c \in Consumers : ~ (lease[c][i] > 0) BY <1>4 DEF IInv, UnsentFree
  <2> QED BY <2>1, <1>1, <1>2 DEF IInv, LeaseHeld
<1>8. UnsentFree' BY <1>4 DEF IInv, UnsentFree, TypeOK
<1>9. LeaseExclusive' BY DEF IInv, LeaseExclusive
<1> QED BY <1>5, <1>6, <1>7, <1>8, <1>9

(* Marking ids that are in no list any more keeps the others queued.        *)
LEMMA MarkInv ==
  ASSUME IInv, NEW gone, NEW f, f # "unsent", fate' = Mark(gone, f),
         \A c \in Consumers, i \in Ids : lease[c][i] = 0 => lease'[c][i] = 0
  PROVE  UnsentFree'
BY DEF IInv, UnsentFree, Mark, TypeOK

(* Removing messages, by whatever path, from one list.                      *)
LEMMA RemoveInv ==
  ASSUME IInv, NEW o \in Objects, NEW rest, rest \subseteq msgs[o],
         NEW f, f # "unsent", msgs' = [msgs EXCEPT ![o] = rest],
         fate' = Mark(IdsOf(msgs[o] \ rest), f), UNCHANGED lease
  PROVE  Queued' /\ UniqueCopy' /\ LeaseHeld' /\ UnsentFree' /\ LeaseExclusive'
<1>1. \A p \in Objects : msgs'[p] \subseteq msgs[p] BY DEF IInv, TypeOK
<1>2. \A p \in Objects : \A m \in msgs'[p] : m.id \notin IdsOf(msgs[o] \ rest)
  BY <1>1 DEF IInv, TypeOK, UniqueCopy, IdsOf
<1>3. Queued' BY <1>1, <1>2, MessageIds DEF IInv, Queued, Mark
<1>4. UniqueCopy' BY <1>1 DEF IInv, UniqueCopy
<1>5. LeaseHeld' BY <1>1 DEF IInv, LeaseHeld
<1>6. UnsentFree' BY MarkInv
<1>7. LeaseExclusive' BY DEF IInv, LeaseExclusive
<1> QED BY <1>3, <1>4, <1>5, <1>6, <1>7

LEMMA MovedFields ==
  ASSUME NEW m \in Message
  PROVE  Moved(m).id = m.id
BY DEF Moved, Message

(* The dead-letter queue has no redrive policy of its own: a receive pass    *)
(* over it moves nothing.                                                   *)
LEMMA NothingDeadInDlq ==
  ASSUME TypeOK, NEW o \in Objects, o[1] = "dlq"
  PROVE  Dead(o) = {}
<1>1. attr[o] \in Attributes["dlq"]
  <2>1. attr[o] \in Attributes[o[1]] BY DEF TypeOK
  <2> QED BY <2>1
<1>2. attr[o].maxrc = 0 BY <1>1, DlqAssumption
<1>3. ~ (attr[o].maxrc > 0) BY <1>2, SMT
<1> QED BY <1>3, Zenon DEF Dead

(* The first half of a receive pass.  What is moved was visible, hence      *)
(* promised to nobody; it leaves the source, so it stays the only copy.     *)
LEMMA SweepInv ==
  ASSUME IInv, NEW o \in Objects, ExpireAndSweep(o), UNCHANGED lease
  PROVE  Queued' /\ UniqueCopy' /\ LeaseHeld' /\ UnsentFree' /\ LeaseExclusive'
<1> DEFINE dead == Dead(o)
           dlq  == Object("dlq")
           rest == Retained(o) \ dead
<1>1. dlq \in Objects /\ dlq[1] = "dlq" BY ObjectInObjects DEF IInv, Names, Object
<1>2. o = dlq => dead = {}
  BY <1>1, NothingDeadInDlq DEF IInv
<1>3. dead \subseteq Retained(o) /\ Retained(o) \subseteq msgs[o] BY DEF Dead, Retained
<1>4. \A m \in dead : m \in Message /\ m.hidden = 0 /\ Moved(m).id = m.id
  BY <1>3, MessageIds, MovedFields DEF Dead, Visible, IInv
<1>5. \A m \in dead, c \in Consumers : ~ (lease[c][m.id] > 0)
  BY <1>3, <1>4, MessageIds DEF IInv, LeaseHeld, TypeOK
<1>6. msgs' = [msgs EXCEPT ![o] = rest, ![dlq] = @ \cup {Moved(m) : m \in dead}]
  BY DEF ExpireAndSweep
<1>7. fate' = Mark(IdsOf(Expired(o)), "expired") BY DEF ExpireAndSweep
<1> HIDE DEF dead, dlq
<1>8. \A p \in Objects : \A n \in msgs'[p] :
        \/ n \in msgs[p] /\ (p = o => n \in rest)
        \/ p = dlq /\ o # dlq /\ \E m \in dead : n = Moved(m)
  <2> HIDE DEF rest
  <2>1. msgs \in [Objects -> SUBSET Message] BY DEF IInv, TypeOK
  <2>2. CASE o = dlq
    <3>1. {Moved(m) : m \in dead} = {} BY <1>2, <2>2
    <3>2. msgs' = [msgs EXCEPT ![o] = rest, ![o] = @ \cup {}] BY <1>6, <2>2, <3>1
    <3>3. \A p \in Objects : msgs'[p] = IF p = o THEN rest ELSE msgs[p] BY <2>1, <3>2
    <3> QED BY <3>3, <1>3 DEF rest
  <2>3. CASE o # dlq
    <3>1. msgs'[o] = rest BY <1>6, <2>1, <2>3
    <3>2. msgs'[dlq] = msgs[dlq] \cup {Moved(m) : m \in dead} BY <1>1, <1>6, <2>1, <2>3
    <3>3. \A p \in Objects \ {o, dlq} : msgs'[p] = msgs[p] BY <1>6, <2>1
    <3> QED BY <2>3, <3>1, <3>2, <3>3, <1>3 DEF rest
  <2> QED BY <2>2, <2>3
<1>9. Queued'
  <2> SUFFICES ASSUME NEW p \in Objects, NEW n \in msgs'[p] PROVE fate'[n.id] = "queued"
    BY DEF Queued
  <2>1. \E x \in Objects : \E m \in msgs[x] :
          n.id = m.id /\ (x = o => m \in Retained(o))
    BY <1>3, <1>4, <1>8
  <2>2. PICK x \in Objects : \E m \in msgs[x] :
          n.id = m.id /\ (x = o => m \in Retained(o))
    BY <2>1
  <2>3. PICK m \in msgs[x] : n.id = m.id /\ (x = o => m \in Retained(o)) BY <2>2
  <2>4. m.id \notin IdsOf(Expired(o))
    BY <2>3 DEF IdsOf, Expired, IInv, UniqueCopy
  <2>5. m.id \in Ids BY MessageIds DEF IInv
  <2> QED BY <2>3, <2>4, <2>5, <1>7 DEF Mark, IInv, Queued
<1>10. UniqueCopy'
  <2> SUFFICES ASSUME NEW p \in Objects, NEW r \in Objects, NEW n \in msgs'[p],
                      NEW x \in msgs'[r], n.id = x.id
               PROVE  p = r /\ n = x
    BY DEF UniqueCopy
  <2>1. CASE n \in msgs[p] /\ x \in msgs[r] BY <2>1 DEF IInv, UniqueCopy
  <2>2. ASSUME NEW y \in Objects, NEW z \in msgs'[y], NEW m \in dead,
               z \in msgs[y], y = o => z \in rest
        PROVE  z.id # m.id
    BY <2>2, <1>3 DEF IInv, UniqueCopy
  <2>3. CASE n \notin msgs[p] /\ x \notin msgs[r]
    BY <2>3, <1>3, <1>4, <1>8 DEF IInv, UniqueCopy
  <2> QED BY <2>1, <2>2, <2>3, <1>4, <1>8
<1>11. LeaseHeld'
  <2> SUFFICES ASSUME NEW p \in Objects, NEW n \in msgs'[p], NEW c \in Consumers,
                      lease[c][n.id] > 0
               PROVE  n.handle = c /\ n.hidden >= lease[c][n.id]
    BY DEF LeaseHeld
  <2>1. n \in msgs[p] BY <1>4, <1>5, <1>8
  <2> QED BY <2>1 DEF IInv, LeaseHeld
<1>12. UnsentFree' BY <1>7, MarkInv
<1>13. LeaseExclusive' BY DEF IInv, LeaseExclusive
<1> QED BY <1>9, <1>10, <1>11, <1>12, <1>13

(* The second half: what is delivered was promised to nobody.               *)
LEMMA CollectInv ==
  ASSUME IInv, NEW c \in Consumers, Collect(c)
  PROVE  Queued' /\ UniqueCopy' /\ LeaseHeld' /\ UnsentFree' /\ LeaseExclusive'
<1> DEFINE o   == call[c].obj
           v   == call[c].vis
           got == First(Deliverable(o), call[c].max)
           new(m) == IF m \in got THEN Delivered(m, c, v) ELSE m
<1>1. o \in Objects /\ v \in Nat
  <2>1. call[c] \in Call BY DEF IInv, Collect, TypeOK, IdleCall
  <2> QED BY <2>1, ConstantsAssumption DEF Call
<1>2. \A m \in got : m \in msgs[o] /\ m.hidden = 0
  BY FirstSubset DEF Deliverable, Visible
<1>3. \A m \in Message : /\ Delivered(m, c, v).id = m.id
                         /\ Delivered(m, c, v).handle = c
                         /\ Delivered(m, c, v).hidden = v
  BY DEF Delivered, Message
<1>4. msgs' = [msgs EXCEPT ![o] = {new(m) : m \in @}] BY DEF Collect
<1>5. lease' = [lease EXCEPT ![c] = [i \in Ids |-> IF i \in IdsOf(got) THEN v ELSE @[i]]]
      /\ fate' = fate
  BY DEF Collect
<1> HIDE DEF o, v, got
<1>6. \A p \in Objects : \A n \in msgs'[p] :
        \/ n \in msgs[p] /\ (p = o => n \notin got)
        \/ p = o /\ \E m \in got : n = Delivered(m, c, v)
  BY <1>1, <1>2, <1>4 DEF IInv, TypeOK
<1>7. \A m \in got, d \in Consumers : m.id \in Ids /\ lease[d][m.id] = 0
  BY <1>1, <1>2, MessageIds DEF IInv, LeaseHeld, TypeOK
<1>8. \A p \in Objects : \A n \in msgs'[p] : \E m \in msgs[p] : n.id = m.id
  BY <1>1, <1>2, <1>3, <1>6, MessageIds DEF IInv
<1>9. Queued' BY <1>5, <1>8 DEF IInv, Queued
<1>10. UniqueCopy'
  BY <1>1, <1>2, <1>3, <1>6, MessageIds DEF IInv, UniqueCopy
<1>11. \A d \in Consumers, i \in Ids :
         lease'[d][i] = IF d = c /\ i \in IdsOf(got) THEN v ELSE lease[d][i]
  BY <1>5 DEF IInv, TypeOK
<1>12. LeaseHeld'
  <2> SUFFICES ASSUME NEW p \in Objects, NEW n \in msgs'[p], NEW d \in Consumers,
                      lease'[d][n.id] > 0
               PROVE  n.handle = d /\ n.hidden >= lease'[d][n.id]
    BY DEF LeaseHeld
  <2>1. CASE n \in msgs[p] /\ (p = o => n \notin got)
    <3>1. n.id \in Ids /\ n.id \notin IdsOf(got)
      BY <2>1, <1>1, <1>2, MessageIds DEF IInv, UniqueCopy, IdsOf
    <3> QED BY <2>1, <3>1, <1>11 DEF IInv, LeaseHeld
  <2>2. ASSUME NEW m \in got, p = o, n = Delivered(m, c, v)
        PROVE  n.handle = d /\ n.hidden >= lease'[d][n.id]
    <3>1. n.id = m.id /\ n.handle = c /\ n.hidden = v
      BY <2>2, <1>1, <1>2, <1>3, MessageIds DEF IInv
    <3>2. d = c BY <3>1, <1>7, <1>11
    <3>3. lease'[d][n.id] = v BY <3>1, <3>2, <1>7, <1>11 DEF IdsOf
    <3> QED BY <3>1, <3>2, <3>3, <1>1
  <2> QED BY <2>1, <2>2, <1>6
<1>13. \A m \in got : fate[m.id] # "unsent" BY <1>1, <1>2 DEF IInv, Queued
<1>14. UnsentFree' BY <1>5, <1>11, <1>13 DEF IInv, UnsentFree, IdsOf
<1>15. LeaseExclusive'
  <2>1. \A d \in Consumers, i \in IdsOf(got) : lease[d][i] = 0 BY <1>7 DEF IdsOf
  <2> QED BY <2>1, <1>11 DEF IInv, LeaseExclusive
<1> QED BY <1>9, <1>10, <1>12, <1>14, <1>15

(* A delete takes the promises of the messages it removes with it.          *)
LEMMA DeleteInv ==
  ASSUME IInv, NEW c \in Consumers, NEW q \in Names, NEW D \in SUBSET Ids,
         DeleteMessages(c, q, D)
  PROVE  Queued' /\ UniqueCopy' /\ LeaseHeld' /\ UnsentFree' /\ LeaseExclusive'
<1>1. Object(q) \in Objects BY ObjectInObjects DEF IInv
<1>2. \A p \in Objects : \A m \in msgs'[p] : m \in msgs[p] /\ (p = Object(q) => m.id \notin D)
  BY <1>1 DEF IInv, TypeOK, DeleteMessages
<1>3. \A i \in D : \E x \in msgs[Object(q)] : x.id = i
  BY DEF DeleteMessages, IdsOf, Held
<1>4. \A p \in Objects : \A m \in msgs'[p] : m.id \notin D
  BY <1>1, <1>2, <1>3 DEF IInv, UniqueCopy
<1>5. \A d \in Consumers, i \in Ids :
        lease'[d][i] = IF d = c /\ i \in D THEN 0 ELSE lease[d][i]
  BY DEF IInv, TypeOK, DeleteMessages
<1>6. fate' = Mark(D, "deleted") BY DEF DeleteMessages
<1>7. Queued' BY <1>2, <1>4, <1>6, MessageIds DEF IInv, Queued, Mark
<1>8. UniqueCopy' BY <1>2 DEF IInv, UniqueCopy
<1>9. LeaseHeld' BY <1>2, <1>5, MessageIds DEF IInv, LeaseHeld
<1>10. UnsentFree' BY <1>5, <1>6, MarkInv
<1>11. LeaseExclusive' BY <1>5 DEF IInv, LeaseExclusive
<1> QED BY <1>7, <1>8, <1>9, <1>10, <1>11

(* An extension is made with the current handle, hence by the only consumer *)
(* that may hold a promise; the message is hidden for as long as promised.  *)
LEMMA ChangeVisibilityInv ==
  ASSUME IInv, NEW c \in Consumers, NEW q \in Names, NEW D \in SUBSET Ids,
         NEW v \in VisTimeouts, ChangeVisibility(c, q, D, v)
  PROVE  Queued' /\ UniqueCopy' /\ LeaseHeld' /\ UnsentFree' /\ LeaseExclusive'
<1> DEFINE o == Object(q)
           new(m) == IF m.id \in D THEN [m EXCEPT !.hidden = v] ELSE m
<1>1. o \in Objects /\ v \in Nat BY ObjectInObjects, ConstantsAssumption DEF IInv
<1>2. msgs' = [msgs EXCEPT ![o] = {new(m) : m \in @}] BY DEF ChangeVisibility
<1>3. \A i \in D : \E x \in msgs[o] : x.id = i /\ x.handle = c
  BY DEF ChangeVisibility, IdsOf, Held
<1> HIDE DEF o
<1>4. \A m \in Message : new(m).id = m.id /\ new(m).handle = m.handle
                         /\ new(m).hidden = IF m.id \in D THEN v ELSE m.hidden
  BY DEF Message
<1> HIDE DEF new
<1>5. \A p \in Objects : \A n \in msgs'[p] :
        IF p = o THEN \E m \in msgs[p] : n = new(m) ELSE n \in msgs[p]
  BY <1>1, <1>2 DEF IInv, TypeOK
<1>6. \A d \in Consumers, i \in Ids :
        lease'[d][i] = IF d = c /\ i \in D THEN v ELSE lease[d][i]
  BY DEF IInv, TypeOK, ChangeVisibility
<1>7. \A m \in msgs[o] : m.id \in D => m.handle = c
  BY <1>1, <1>3 DEF IInv, UniqueCopy
<1>8. \A d \in Consumers, i \in D : lease[d][i] > 0 => d = c
  BY <1>1, <1>3 DEF IInv, LeaseHeld
<1>9. fate' = fate BY DEF ChangeVisibility
<1>10. Queued' BY <1>1, <1>4, <1>5, <1>9, MessageIds DEF IInv, Queued
<1>11. UniqueCopy' BY <1>1, <1>4, <1>5, MessageIds DEF IInv, UniqueCopy
<1>12. LeaseHeld'
  <2> SUFFICES ASSUME NEW p \in Objects, NEW n \in msgs'[p], NEW d \in Consumers,
                      lease'[d][n.id] > 0
               PROVE  n.handle = d /\ n.hidden >= lease'[d][n.id]
    BY DEF LeaseHeld
  <2>1. CASE p # o
    <3>1. n \in msgs[p] /\ n.id \in Ids /\ n.id \notin D
      BY <2>1, <1>1, <1>3, <1>5, MessageIds DEF IInv, UniqueCopy
    <3> QED BY <3>1, <1>6 DEF IInv, LeaseHeld
  <2>2. ASSUME NEW m \in msgs[o], p = o, n = new(m)
        PROVE  n.handle = d /\ n.hidden >= lease'[d][n.id]
    <3>1. m \in Message /\ m.id \in Ids /\ n.id = m.id /\ n.handle = m.handle
          /\ n.hidden = IF m.id \in D THEN v ELSE m.hidden
      BY <2>2, <1>1, <1>4, MessageIds DEF IInv
    <3>2. CASE m.id \in D
      <4>1. d = c BY <3>1, <3>2, <1>6, <1>8
      <4> QED BY <3>1, <3>2, <4>1, <1>1, <1>6, <1>7
    <3>3. CASE m.id \notin D BY <3>1, <3>3, <1>1, <1>6 DEF IInv, LeaseHeld
    <3> QED BY <3>2, <3>3
  <2> QED BY <2>1, <2>2, <1>5
<1>13. \A i \in D : fate[i] # "unsent" BY <1>1, <1>3 DEF IInv, Queued
<1>14. UnsentFree' BY <1>6, <1>9, <1>13 DEF IInv, UnsentFree
<1>15. LeaseExclusive' BY <1>6, <1>8 DEF IInv, LeaseExclusive
<1> QED BY <1>10, <1>11, <1>12, <1>14, <1>15

(* The clock: promises run out no later than the visibility timeouts.       *)
LEMMA TickInv ==
  ASSUME IInv, Tick
  PROVE  Queued' /\ UniqueCopy' /\ LeaseHeld' /\ UnsentFree' /\ LeaseExclusive'
<1> DEFINE new(m) == [m EXCEPT !.hidden = Minus1(@), !.age = Plus1(@, MaxAge)]
<1>1. msgs' = [o \in Objects |-> {new(m) : m \in msgs[o]}] BY DEF Tick
<1>2. \A m \in Message : new(m).id = m.id /\ new(m).handle = m.handle
                         /\ new(m).hidden = Minus1(m.hidden)
  BY DEF Message
<1> HIDE DEF new
<1>3. \A o \in Objects : \A n \in msgs'[o] : \E m \in msgs[o] : n = new(m) BY <1>1
<1>4. \A c \in Consumers, i \in Ids : lease'[c][i] = Minus1(lease[c][i]) BY DEF Tick
<1>5. fate' = fate BY DEF Tick
<1>6. \A m, n \in Nat : m >= n => Minus1(m) >= Minus1(n) BY DEF Minus1
<1>7. \A n \in Nat : Minus1(n) > 0 => n > 0 BY DEF Minus1
<1>8. Queued' BY <1>2, <1>3, <1>5, MessageIds DEF IInv, Queued
<1>9. UniqueCopy' BY <1>2, <1>3, MessageIds DEF IInv, UniqueCopy
<1>10. LeaseHeld'
  <2> SUFFICES ASSUME NEW o \in Objects, NEW m \in msgs[o], NEW c \in Consumers,
                      lease'[c][new(m).id] > 0
               PROVE  new(m).handle = c /\ new(m).hidden >= lease'[c][new(m).id]
    BY <1>3 DEF LeaseHeld
  <2>1. m \in Message /\ m.id \in Ids BY MessageIds DEF IInv
  <2>2. m.hidden \in Nat /\ lease[c][m.id] \in Nat BY <2>1 DEF IInv, TypeOK, Message
  <2>3. lease[c][m.id] > 0 BY <2>1, <2>2, <1>2, <1>4, <1>7
  <2>4. m.handle = c /\ m.hidden >= lease[c][m.id] BY <2>3 DEF IInv, LeaseHeld
  <2> QED BY <2>1, <2>2, <2>4, <1>2, <1>4, <1>6
<1>11. UnsentFree' BY <1>4, <1>5 DEF IInv, UnsentFree, Minus1
<1>12. LeaseExclusive' BY <1>4, <1>7 DEF IInv, LeaseExclusive, TypeOK
<1> QED BY <1>8, <1>9, <1>10, <1>11, <1>12

LEMMA Initial == Init => IInv
BY TypeInit DEF Init, IInv, Queued, UniqueCopy, LeaseHeld, UnsentFree, LeaseExclusive

LEMMA Preserved == IInv /\ TypeOK' /\ [Next]_vars => IInv'
<1> SUFFICES ASSUME IInv, TypeOK', [Next]_vars
             PROVE  Queued' /\ UniqueCopy' /\ LeaseHeld' /\ UnsentFree' /\ LeaseExclusive'
  BY DEF IInv
<1>1. ASSUME NEW q \in Names, NEW i \in Ids, NEW d, SendStandard(q, i, d)
      PROVE  Queued' /\ UniqueCopy' /\ LeaseHeld' /\ UnsentFree' /\ LeaseExclusive'
  BY <1>1, ObjectInObjects, AppendInv DEF SendStandard, IInv
<1>2. ASSUME NEW q \in Names, NEW i \in Ids, NEW g \in Groups, NEW k \in Keys,
             SendFifo(q, i, g, k) \/ DirectAppend(q, i, g, k)
      PROVE  Queued' /\ UniqueCopy' /\ LeaseHeld' /\ UnsentFree' /\ LeaseExclusive'
  BY <1>2, ObjectInObjects, AppendInv DEF SendFifo, DirectAppend, IInv
<1>3. ASSUME NEW c \in Consumers, NEW q \in Names, NEW n \in BatchSizes,
             NEW v \in VisTimeouts, NEW w \in WaitTimes[q], ReceiveMessage(c, q, n, v, w)
      PROVE  Queued' /\ UniqueCopy' /\ LeaseHeld' /\ UnsentFree' /\ LeaseExclusive'
  BY <1>3, ObjectInObjects, SweepInv DEF ReceiveMessage, IInv
<1>4. ASSUME NEW c \in Consumers, Wake(c)
      PROVE  Queued' /\ UniqueCopy' /\ LeaseHeld' /\ UnsentFree' /\ LeaseExclusive'
  <2>1. call[c].obj \in Objects BY <1>4 DEF Wake, IInv, TypeOK, Call, IdleCall
  <2> QED BY <1>4, <2>1, SweepInv DEF Wake
<1>5. ASSUME NEW q \in Names, GetQueueAttributes(q)
      PROVE  Queued' /\ UniqueCopy' /\ LeaseHeld' /\ UnsentFree' /\ LeaseExclusive'
  <2>1. Object(q) \in Objects /\ Retained(Object(q)) \subseteq msgs[Object(q)]
    BY ObjectInObjects DEF Retained, IInv
  <2> QED BY <1>5, <2>1, RemoveInv DEF GetQueueAttributes, Expired
<1>6. ASSUME NEW q \in Names, PurgeQueue(q)
      PROVE  Queued' /\ UniqueCopy' /\ LeaseHeld' /\ UnsentFree' /\ LeaseExclusive'
  <2>1. Object(q) \in Objects BY ObjectInObjects DEF IInv
  <2>2. msgs[Object(q)] \ {} = msgs[Object(q)] OBVIOUS
  <2> QED BY <1>6, <2>1, <2>2, RemoveInv DEF PurgeQueue
<1>7. ASSUME UNCHANGED <<msgs, fate, lease>>
      PROVE  Queued' /\ UniqueCopy' /\ LeaseHeld' /\ UnsentFree' /\ LeaseExclusive'
  BY <1>7 DEF IInv, Queued, UniqueCopy, LeaseHeld, UnsentFree, LeaseExclusive
<1>8. ASSUME NEW q \in Names, NEW a \in Attributes[q],
             DeleteQueue(q) \/ SetQueueAttributes(q, a) \/ CreateQueue(q, a)
      PROVE  UNCHANGED <<msgs, fate, lease>>
  BY <1>8 DEF DeleteQueue, SetQueueAttributes, CreateQueue
<1>9. ASSUME NEW q \in Names, DeleteQueue(q) PROVE UNCHANGED <<msgs, fate, lease>>
  BY <1>9 DEF DeleteQueue
<1>10. CASE UNCHANGED vars BY <1>7, <1>10 DEF vars
<1> QED
  BY <1>1, <1>2, <1>3, <1>4, <1>5, <1>6, <1>7, <1>8, <1>9, <1>10,
     CollectInv, DeleteInv, ChangeVisibilityInv, TickInv
  DEF Next, Send, Receive, Settle, Administer

(* The inductive invariant.                                                 *)
THEOREM InductiveInvariant == Spec => []IInv
<1>1. IInv => TypeOK BY DEF IInv
<1> QED BY <1>1, Initial, TypeStep, Preserved, PTL DEF Spec

(* While a consumer's visibility timeout runs, nobody else is given the     *)
(* message, for any number of consumers, messages, queue lifetimes and any  *)
(* settings.                                                                *)
THEOREM Exclusive == Spec => []LeaseExclusive
BY InductiveInvariant, PTL DEF IInv

-----------------------------------------------------------------------------
(* The second part: no message is lost or copied, the deduplication window  *)
(* is kept, and the queue pair implements Mailbox.                          *)

(* The converse of Queued: a queued id is in some list.                     *)
Listed == \A i \in Ids : fate[i] = "queued" => \E o \in Objects : \E m \in msgs[o] : m.id = i

(* What is queued after a step was just appended, or has kept a copy.       *)
LEMMA KeptListed ==
  ASSUME Listed,
         \A i \in Ids : fate'[i] = "queued" =>
           \/ \E o \in Objects : \E m \in msgs'[o] : m.id = i
           \/ /\ fate[i] = "queued"
              /\ \A o \in Objects : \A m \in msgs[o] : m.id = i =>
                   \E p \in Objects : \E n \in msgs'[p] : n.id = i
  PROVE  Listed'
BY DEF Listed

LEMMA AppendListed ==
  ASSUME TypeOK, Listed, NEW o \in Objects, NEW i \in Ids, NEW g, NEW k, NEW d,
         Append(o, i, g, k, d)
  PROVE  Listed'
<1>1. NewMessage(o, i, g, k, d).id = i BY DEF NewMessage
<1>2. NewMessage(o, i, g, k, d) \in msgs'[o] BY DEF Append, TypeOK
<1>3. \A p \in Objects : msgs[p] \subseteq msgs'[p] BY DEF Append, TypeOK
<1>4. \A j \in Ids : fate'[j] = "queued" => j = i \/ fate[j] = "queued" BY DEF Append, TypeOK
<1> QED BY <1>1, <1>2, <1>3, <1>4, KeptListed

(* What leaves one list without going to another is marked.                 *)
LEMMA RemoveListed ==
  ASSUME TypeOK, Listed, NEW o \in Objects, NEW rest, NEW f, f # "queued",
         msgs' = [msgs EXCEPT ![o] = rest],
         fate' = Mark(IdsOf(msgs[o] \ rest), f)
  PROVE  Listed'
<1>1. \A p \in Objects : msgs'[p] = IF p = o THEN rest ELSE msgs[p] BY DEF TypeOK
<1>2. \A i \in Ids : fate'[i] = "queued" => fate[i] = "queued" /\ i \notin IdsOf(msgs[o] \ rest)
  BY DEF Mark
<1>3. \A i \in Ids : fate'[i] = "queued" => \A m \in msgs[o] : m.id = i => m \in rest
  BY <1>2 DEF IdsOf
<1> QED BY <1>1, <1>2, <1>3, KeptListed

(* A step that changes messages in place.                                   *)
LEMMA SameIdsListed ==
  ASSUME Listed, UNCHANGED fate,
         \A o \in Objects : \A m \in msgs[o] : \E n \in msgs'[o] : n.id = m.id
  PROVE  Listed'
BY KeptListed

(* What a sweep does to the lists and to the fates.                         *)
LEMMA SweepLists ==
  ASSUME IInv, NEW o \in Objects, ExpireAndSweep(o)
  PROVE  /\ Object("dlq") \in Objects /\ Object("dlq")[1] = "dlq"
         /\ o = Object("dlq") => Dead(o) = {}
         /\ \A p \in Objects :
              msgs'[p] = (IF p = o THEN Retained(o) \ Dead(o) ELSE msgs[p])
                         \cup (IF p = Object("dlq") THEN {Moved(m) : m \in Dead(o)} ELSE {})
<1>1. Object("dlq") \in Objects /\ Object("dlq")[1] = "dlq"
  BY ObjectInObjects DEF IInv, Names, Object
<1>2. o = Object("dlq") => Dead(o) = {} BY <1>1, NothingDeadInDlq DEF IInv
<1> DEFINE d     == Object("dlq")
           moved == {Moved(m) : m \in Dead(o)}
           rest  == Retained(o) \ Dead(o)
<1>3. msgs' = [msgs EXCEPT ![o] = rest, ![d] = @ \cup moved] BY DEF ExpireAndSweep
<1>4. o = d => moved = {} BY <1>2
<1>5. msgs \in [Objects -> SUBSET Message] BY DEF IInv, TypeOK
<1>6. d \in Objects BY <1>1
<1> HIDE DEF d, moved, rest
<1>7. CASE o = d
  <2>1. msgs' = [msgs EXCEPT ![o] = rest, ![o] = @ \cup {}] BY <1>3, <1>4, <1>7
  <2>2. \A p \in Objects : msgs'[p] = IF p = o THEN rest ELSE msgs[p] BY <2>1, <1>5
  <2> QED BY <2>2, <1>1, <1>2, <1>4, <1>7 DEF d, moved, rest
<1>8. CASE o # d
  <2>1. msgs'[o] = rest BY <1>3, <1>5, <1>8
  <2>2. msgs'[d] = msgs[d] \cup moved BY <1>3, <1>5, <1>6, <1>8
  <2>3. \A p \in Objects \ {o, d} : msgs'[p] = msgs[p] BY <1>3, <1>5
  <2> QED BY <2>1, <2>2, <2>3, <1>1, <1>2, <1>8 DEF d, moved, rest
<1> QED BY <1>7, <1>8

LEMMA SweepListed ==
  ASSUME IInv, Listed, NEW o \in Objects, ExpireAndSweep(o)
  PROVE  Listed'
<1>1. \A i \in Ids : fate'[i] = "queued" => fate[i] = "queued" /\ i \notin IdsOf(Expired(o))
  BY DEF ExpireAndSweep, Mark
<1>2. \A m \in msgs[o] : m.id \in IdsOf(Expired(o)) \/ m \in Retained(o)
  BY DEF IdsOf, Expired
<1>3. \A m \in Dead(o) : Moved(m).id = m.id
  BY MovedFields, MessageIds DEF IInv, Dead, Retained
<1>4. \A p \in Objects : \A m \in msgs[p] :
        \/ m.id \in IdsOf(Expired(o))
        \/ \E x \in Objects : \E n \in msgs'[x] : n.id = m.id
  <2> TAKE p \in Objects
  <2> TAKE m \in msgs[p]
  <2>1. CASE p # o BY <2>1, SweepLists
  <2>2. CASE p = o /\ m \in Dead(o) BY <2>2, <1>3, SweepLists
  <2>3. CASE p = o /\ m \notin Dead(o) BY <2>3, <1>2, SweepLists
  <2> QED BY <2>1, <2>2, <2>3
<1> QED BY <1>1, <1>4, KeptListed

LEMMA CollectListed ==
  ASSUME IInv, Listed, NEW c \in Consumers, Collect(c)
  PROVE  Listed'
<1> DEFINE o == call[c].obj
           v == call[c].vis
           got == First(Deliverable(o), call[c].max)
           new(m) == IF m \in got THEN Delivered(m, c, v) ELSE m
<1>1. call[c] \in Call BY DEF IInv, Collect, TypeOK, IdleCall
<1>2. o \in Objects BY <1>1 DEF Call
<1>3. msgs' = [msgs EXCEPT ![o] = {new(m) : m \in @}] BY DEF Collect
<1>4. \A m \in Message : new(m).id = m.id BY DEF Delivered, Message
<1> HIDE DEF o, new
<1>5. \A p \in Objects : \A m \in msgs[p] : \E n \in msgs'[p] : n.id = m.id
  BY <1>2, <1>3, <1>4, MessageIds DEF IInv, TypeOK
<1> QED BY <1>5, SameIdsListed DEF Collect

LEMMA ChangeVisibilityListed ==
  ASSUME IInv, Listed, NEW c \in Consumers, NEW q \in Names, NEW D \in SUBSET Ids,
         NEW v \in VisTimeouts, ChangeVisibility(c, q, D, v)
  PROVE  Listed'
<1> DEFINE o == Object(q)
           new(m) == IF m.id \in D THEN [m EXCEPT !.hidden = v] ELSE m
<1>1. msgs' = [msgs EXCEPT ![o] = {new(m) : m \in @}] BY DEF ChangeVisibility
<1>2. \A m \in Message : new(m).id = m.id BY DEF Message
<1> HIDE DEF o, new
<1>3. \A p \in Objects : \A m \in msgs[p] : \E n \in msgs'[p] : n.id = m.id
  BY <1>1, <1>2, MessageIds DEF IInv, TypeOK
<1> QED BY <1>3, SameIdsListed DEF ChangeVisibility

LEMMA TickListed ==
  ASSUME IInv, Listed, Tick
  PROVE  Listed'
<1> DEFINE new(m) == [m EXCEPT !.hidden = Minus1(@), !.age = Plus1(@, MaxAge)]
<1>1. msgs' = [o \in Objects |-> {new(m) : m \in msgs[o]}] BY DEF Tick
<1>2. \A m \in Message : new(m).id = m.id BY DEF Message
<1> HIDE DEF new
<1>3. \A p \in Objects : \A m \in msgs[p] : \E n \in msgs'[p] : n.id = m.id
  BY <1>1, <1>2, MessageIds DEF IInv
<1> QED BY <1>3, SameIdsListed DEF Tick

LEMMA DeleteListed ==
  ASSUME IInv, Listed, NEW c \in Consumers, NEW q \in Names, NEW D \in SUBSET Ids,
         DeleteMessages(c, q, D)
  PROVE  Listed'
<1> DEFINE o == Object(q)
           rest == {m \in msgs[o] : m.id \notin D}
<1>1. o \in Objects BY ObjectInObjects DEF IInv
<1>2. D = IdsOf(msgs[o] \ rest) BY DEF DeleteMessages, IdsOf, Held
<1>3. fate' = Mark(IdsOf(msgs[o] \ rest), "deleted") BY <1>2 DEF DeleteMessages
<1>4. msgs' = [msgs EXCEPT ![o] = rest] BY DEF DeleteMessages
<1> QED BY <1>1, <1>3, <1>4, RemoveListed DEF IInv

(* Every queued id is in a list in every reachable state.                   *)
THEOREM NoneLost == Spec => []Listed
<1>1. Init => Listed BY DEF Init, Listed
<1>2. Listed /\ IInv /\ [Next]_vars => Listed'
  <2> SUFFICES ASSUME Listed, IInv, [Next]_vars PROVE Listed' OBVIOUS
  <2> USE DEF IInv
  <2>1. ASSUME NEW q \in Names, NEW i \in Ids, NEW d, SendStandard(q, i, d) PROVE Listed'
    BY <2>1, ObjectInObjects, AppendListed DEF SendStandard
  <2>2. ASSUME NEW q \in Names, NEW i \in Ids, NEW g \in Groups, NEW k \in Keys,
               SendFifo(q, i, g, k) \/ DirectAppend(q, i, g, k)
        PROVE  Listed'
    BY <2>2, ObjectInObjects, AppendListed DEF SendFifo, DirectAppend
  <2>3. ASSUME NEW c \in Consumers, NEW q \in Names, NEW n, NEW v, NEW w,
               ReceiveMessage(c, q, n, v, w)
        PROVE  Listed'
    BY <2>3, ObjectInObjects, SweepListed DEF ReceiveMessage
  <2>4. ASSUME NEW c \in Consumers, Wake(c) PROVE Listed'
    <3>1. call[c].obj \in Objects BY <2>4 DEF Wake, TypeOK, Call, IdleCall
    <3> QED BY <2>4, <3>1, SweepListed DEF Wake
  <2>5. ASSUME NEW q \in Names, GetQueueAttributes(q) PROVE Listed'
    BY <2>5, ObjectInObjects, RemoveListed DEF GetQueueAttributes, Expired
  <2>6. ASSUME NEW q \in Names, PurgeQueue(q) PROVE Listed'
    <3>1. msgs[Object(q)] \ {} = msgs[Object(q)] OBVIOUS
    <3> QED BY <2>6, <3>1, ObjectInObjects, RemoveListed DEF PurgeQueue
  <2>7. ASSUME UNCHANGED <<msgs, fate>> PROVE Listed' BY <2>7 DEF Listed
  <2>8. ASSUME NEW q \in Names, NEW a \in Attributes[q],
               SetQueueAttributes(q, a) \/ CreateQueue(q, a)
        PROVE  Listed'
    BY <2>7, <2>8 DEF SetQueueAttributes, CreateQueue
  <2>9. ASSUME NEW q \in Names, DeleteQueue(q) PROVE Listed' BY <2>7, <2>9 DEF DeleteQueue
  <2>10. CASE UNCHANGED vars BY <2>7, <2>10 DEF vars
  <2> QED
    BY <2>1, <2>2, <2>3, <2>4, <2>5, <2>6, <2>8, <2>9, <2>10,
       CollectListed, DeleteListed, ChangeVisibilityListed, TickListed
    DEF Next, Send, Receive, Settle, Administer
<1> QED BY <1>1, <1>2, InductiveInvariant, PTL DEF Spec

(* No step loses or copies a message: as long as it is not deleted, expired *)
(* or purged there is one copy of it, in one list.                          *)
THEOREM Conserved == Spec => []Conservation
<1>1. IInv /\ Listed => Conservation
  <2> SUFFICES ASSUME IInv, Listed, NEW i \in Ids
               PROVE  /\ Cardinality(Copies(i)) = IF fate[i] = "queued" THEN 1 ELSE 0
                      /\ \A o \in Copies(i) : Cardinality({m \in msgs[o] : m.id = i}) = 1
    BY DEF Conservation
  <2>1. ASSUME NEW o \in Copies(i)
        PROVE  /\ Copies(i) = {o} /\ fate[i] = "queued"
               /\ Cardinality({m \in msgs[o] : m.id = i}) = 1
    <3>1. o \in Objects /\ \E m \in msgs[o] : m.id = i BY DEF Copies, IdsOf
    <3>2. PICK m \in msgs[o] : m.id = i BY <3>1
    <3>3. Copies(i) = {o} BY <3>1, <3>2 DEF Copies, IdsOf, IInv, UniqueCopy
    <3>4. {x \in msgs[o] : x.id = i} = {m} BY <3>1, <3>2 DEF IInv, UniqueCopy
    <3> QED BY <3>1, <3>2, <3>3, <3>4, FS_Singleton DEF IInv, Queued
  <2>2. Copies(i) = {} => fate[i] # "queued" BY DEF Copies, IdsOf, Listed
  <2> QED BY <2>1, <2>2, FS_Singleton, FS_EmptySet
<1> QED BY <1>1, InductiveInvariant, NoneLost, PTL

-----------------------------------------------------------------------------
(* The deduplication window.  An entry may leave the cache only when the    *)
(* window has passed since the append: what is left of the entry and the    *)
(* time since make up at least a window.  Appends of other services bypass  *)
(* the cache; where there are none, no key is appended twice in a window.   *)

WindowCovered ==
  \A o \in Objects, k \in Keys : dedup[o][k] + since[o][k] >= DedupWindow

(* No queue takes a second message of a key within the window, whatever    *)
(* became of the first one (#1326), as long as nobody bypasses the cache.   *)
THEOREM WindowKept == ASSUME ~ DirectAppends PROVE Spec => DedupWindowKept
<1> USE ConstantsAssumption
<1>1. Init => WindowCovered
  BY DEF Init, WindowCovered
<1>2. IInv /\ WindowCovered /\ [Next]_vars => WindowCovered'
  <2> SUFFICES ASSUME IInv, WindowCovered, [Next]_vars PROVE WindowCovered' OBVIOUS
  <2>1. ASSUME UNCHANGED <<dedup, since>> PROVE WindowCovered' BY <2>1 DEF WindowCovered
  <2>2. ASSUME NEW q \in Names, NEW i \in Ids, NEW d, SendStandard(q, i, d) PROVE WindowCovered'
    BY <2>1, <2>2 DEF SendStandard, Append
  <2>3. ASSUME NEW q \in Names, NEW i \in Ids, NEW g \in Groups, NEW k \in Keys,
               SendFifo(q, i, g, k)
        PROVE  WindowCovered'
    <3> DEFINE o == Object(q)
    <3>1. /\ dedup' = [dedup EXCEPT ![o][k] = DedupWindow]
          /\ since' = [since EXCEPT ![o][k] = 0]
      BY <2>3 DEF SendFifo, Append
    <3>2. /\ dedup \in [Objects -> [Keys -> Nat]] /\ since \in [Objects -> [Keys -> Nat]]
          /\ o \in Objects
      BY ObjectInObjects DEF IInv, TypeOK
    <3> HIDE DEF o
    <3>3. \A x \in Objects, y \in Keys :
            /\ dedup'[x][y] = IF x = o /\ y = k THEN DedupWindow ELSE dedup[x][y]
            /\ since'[x][y] = IF x = o /\ y = k THEN 0 ELSE since[x][y]
      BY <3>1, <3>2
    <3> QED BY <3>3 DEF WindowCovered
  <2>4. CASE Tick
    <3>1. \A n, s \in Nat : n + s >= DedupWindow
                            => Minus1(n) + Plus1(s, DedupWindow) >= DedupWindow
      BY DEF Minus1, Plus1
    <3>2. \A o \in Objects, k \in Keys : dedup[o][k] \in Nat /\ since[o][k] \in Nat
      <4>1. dedup \in [Objects -> [Keys -> Nat]] /\ since \in [Objects -> [Keys -> Nat]]
        BY DEF IInv, TypeOK
      <4> QED BY <4>1
    <3>3. \A o \in Objects, k \in Keys :
            dedup'[o][k] = Minus1(dedup[o][k]) /\ since'[o][k] = Plus1(since[o][k], DedupWindow)
      BY <2>4 DEF Tick
    <3> QED BY <3>1, <3>2, <3>3 DEF WindowCovered
  <2>5. ASSUME NEW c \in Consumers, Collect(c) \/ Wake(c) PROVE WindowCovered'
    BY <2>1, <2>5 DEF Collect, Wake
  <2>6. ASSUME NEW c \in Consumers, NEW q \in Names, NEW n, NEW v, NEW w,
               ReceiveMessage(c, q, n, v, w)
        PROVE  WindowCovered'
    BY <2>1, <2>6 DEF ReceiveMessage
  <2>7. ASSUME NEW c \in Consumers, NEW q \in Names, NEW D \in SUBSET Ids, NEW v \in VisTimeouts,
               ChangeVisibility(c, q, D, v)
        PROVE  WindowCovered'
    BY <2>1, <2>7 DEF ChangeVisibility
  <2>8. ASSUME NEW c \in Consumers, NEW q \in Names, NEW D \in SUBSET Ids, DeleteMessages(c, q, D)
        PROVE  WindowCovered'
    BY <2>1, <2>8 DEF DeleteMessages
  <2>9. ASSUME NEW q \in Names, GetQueueAttributes(q) \/ PurgeQueue(q) \/ DeleteQueue(q)
        PROVE  WindowCovered'
    BY <2>1, <2>9 DEF GetQueueAttributes, PurgeQueue, DeleteQueue
  <2>10. ASSUME NEW q \in Names, NEW a \in Attributes[q],
                SetQueueAttributes(q, a) \/ CreateQueue(q, a)
         PROVE  WindowCovered'
    BY <2>1, <2>10 DEF SetQueueAttributes, CreateQueue
  <2>11. CASE UNCHANGED vars BY <2>1, <2>11 DEF vars
  <2> QED
    BY <2>2, <2>3, <2>4, <2>5, <2>6, <2>7, <2>8, <2>9, <2>10, <2>11
    DEF Next, Send, Receive, Settle, Administer, DirectAppend
<1>3. IInv /\ IInv' /\ WindowCovered /\ [Next]_vars =>
        [\A o \in Objects : \A n \in msgs'[o] :
           fate[n.id] = "unsent" /\ n.key # NoKey => since[o][n.key] >= DedupWindow]_vars
  <2> SUFFICES ASSUME IInv, IInv', WindowCovered, [Next]_vars,
                      NEW o \in Objects, NEW n \in msgs'[o], fate[n.id] = "unsent", n.key # NoKey
               PROVE  since[o][n.key] >= DedupWindow
    OBVIOUS
  <2>1. n.id \in Ids /\ fate'[n.id] = "queued"
    <3>1. n \in Message BY DEF IInv, TypeOK
    <3> QED BY <3>1 DEF Message, IInv, Queued
  <2>2. ASSUME NEW p \in Objects, NEW i \in Ids, NEW g, NEW k, NEW d, Append(p, i, g, k, d)
        PROVE  o = p /\ n.key = k
    <3>1. n.id = i BY <2>1, <2>2 DEF Append, IInv, TypeOK
    <3>2. NewMessage(p, i, g, k, d) \in msgs'[p] BY <2>2 DEF Append, IInv, TypeOK
    <3>3. NewMessage(p, i, g, k, d).id = i /\ NewMessage(p, i, g, k, d).key = k
      BY DEF NewMessage
    <3> QED BY <3>1, <3>2, <3>3 DEF IInv, UniqueCopy
  <2>3. ASSUME NEW q \in Names, NEW i \in Ids, NEW d, SendStandard(q, i, d) PROVE FALSE
    BY <2>2, <2>3, ObjectInObjects DEF SendStandard, IInv
  <2>4. ASSUME NEW q \in Names, NEW i \in Ids, NEW g \in Groups, NEW k \in Keys,
               SendFifo(q, i, g, k)
        PROVE  since[o][n.key] >= DedupWindow
    <3>1. o = Object(q) /\ n.key = k BY <2>2, <2>4, ObjectInObjects DEF SendFifo, IInv
    <3>2. dedup[o][k] = 0 BY <2>4, <3>1 DEF SendFifo
    <3>3. since[o][k] \in Nat
      <4>1. since \in [Objects -> [Keys -> Nat]] BY DEF IInv, TypeOK
      <4> QED BY <4>1
    <3> QED BY <3>1, <3>2, <3>3 DEF WindowCovered
  <2>5. ASSUME UNCHANGED fate \/ \E S : fate' = Mark(S, "expired") \/ fate' = Mark(S, "deleted")
                                                              \/ fate' = Mark(S, "purged")
        PROVE  FALSE
    BY <2>1, <2>5 DEF Mark
  <2>6. ASSUME NEW c \in Consumers, Collect(c) \/ Wake(c) PROVE FALSE
    BY <2>5, <2>6 DEF Collect, Wake, ExpireAndSweep
  <2>7. ASSUME NEW c \in Consumers, NEW q \in Names, NEW x, NEW v, NEW w,
               ReceiveMessage(c, q, x, v, w)
        PROVE  FALSE
    BY <2>5, <2>7 DEF ReceiveMessage, ExpireAndSweep
  <2>8. ASSUME NEW c \in Consumers, NEW q \in Names, NEW D \in SUBSET Ids, NEW v \in VisTimeouts,
               ChangeVisibility(c, q, D, v)
        PROVE  FALSE
    BY <2>5, <2>8 DEF ChangeVisibility
  <2>9. ASSUME NEW c \in Consumers, NEW q \in Names, NEW D \in SUBSET Ids, DeleteMessages(c, q, D)
        PROVE  FALSE
    BY <2>5, <2>9 DEF DeleteMessages
  <2>10. ASSUME NEW q \in Names, GetQueueAttributes(q) \/ PurgeQueue(q) \/ DeleteQueue(q)
         PROVE  FALSE
    BY <2>5, <2>10 DEF GetQueueAttributes, PurgeQueue, DeleteQueue
  <2>11. ASSUME NEW q \in Names, NEW a \in Attributes[q],
                SetQueueAttributes(q, a) \/ CreateQueue(q, a)
         PROVE  FALSE
    BY <2>5, <2>11 DEF SetQueueAttributes, CreateQueue
  <2>12. CASE Tick BY <2>5, <2>12 DEF Tick
  <2>13. CASE UNCHANGED vars BY <2>5, <2>13 DEF vars
  <2> QED
    BY <2>3, <2>4, <2>6, <2>7, <2>8, <2>9, <2>10, <2>11, <2>12, <2>13
    DEF Next, Send, Receive, Settle, Administer, DirectAppend
<1> QED
  BY <1>1, <1>2, <1>3, InductiveInvariant, PTL DEF Spec, DedupWindowKept

-----------------------------------------------------------------------------
(* The queue pair implements Mailbox.  View says what the abstract state is *)
(* for a message that has a copy, and for one that has none.                *)

View ==
  /\ \A o \in Objects : \A m \in msgs[o] :
       /\ Place[m.id] = o /\ Latest[m.id] = m.handle
       /\ m.id \in Promised <=> \E c \in Consumers : lease[c][m.id] > 0
  /\ \A i \in Ids : fate[i] # "queued" =>
       /\ Place[i] = IF fate[i] = "unsent" THEN <<"unsent", 0>> ELSE <<"gone", 0>>
       /\ Latest[i] = NoHandle /\ i \notin Promised
  /\ Promised \subseteq Ids

LEMMA ViewHolds == IInv /\ Listed => View
<1> SUFFICES ASSUME IInv, Listed PROVE View OBVIOUS
<1>1. ASSUME NEW o \in Objects, NEW m \in msgs[o]
      PROVE  /\ Place[m.id] = o /\ Latest[m.id] = m.handle
             /\ m.id \in Promised <=> \E c \in Consumers : lease[c][m.id] > 0
  <2>1. m.id \in Ids /\ fate[m.id] = "queued" BY MessageIds DEF IInv, Queued
  <2>2. Copies(m.id) = {o} BY DEF Copies, IdsOf, IInv, UniqueCopy
  <2>3. Place[m.id] = o BY <2>1, <2>2 DEF Place
  <2>4. (CHOOSE x \in msgs[o] : x.id = m.id) = m BY DEF IInv, UniqueCopy
  <2>5. Latest[m.id] = m.handle BY <2>1, <2>2, <2>3, <2>4 DEF Latest
  <2> QED BY <2>1, <2>2, <2>3, <2>5 DEF Promised
<1>2. ASSUME NEW i \in Ids, fate[i] # "queued"
      PROVE  /\ Place[i] = IF fate[i] = "unsent" THEN <<"unsent", 0>> ELSE <<"gone", 0>>
             /\ Latest[i] = NoHandle /\ i \notin Promised
  <2>1. Copies(i) = {} BY <1>2 DEF Copies, IdsOf, IInv, Queued
  <2> QED BY <1>2, <2>1 DEF Place, Latest, Promised
<1> QED BY <1>1, <1>2 DEF View, Promised

(* Two functions on Ids are equal when they agree on every id.              *)
LEMMA StateFunctions ==
  /\ Place = [i \in Ids |-> Place[i]] /\ Place' = [i \in Ids |-> Place'[i]]
  /\ Latest = [i \in Ids |-> Latest[i]] /\ Latest' = [i \in Ids |-> Latest'[i]]
BY DEF Place, Latest

LEMMA AppendRefines ==
  ASSUME IInv, Listed, View, IInv', View', NEW o \in Objects, NEW i \in Ids,
         NEW g, NEW k, NEW d, Append(o, i, g, k, d), UNCHANGED lease
  PROVE  Abstract!Accept(i, o)
<1> DEFINE new == NewMessage(o, i, g, k, d)
<1>1. new.id = i /\ new.handle = NoHandle BY DEF NewMessage
<1>2. new \in msgs'[o] /\ \A p \in Objects : msgs[p] \subseteq msgs'[p]
  BY DEF Append, IInv, TypeOK
<1>3. fate[i] = "unsent" /\ \A j \in Ids \ {i} : fate'[j] = fate[j] BY DEF Append, IInv, TypeOK
<1> HIDE DEF new
<1>4. Place[i] = <<"unsent", 0>> /\ Latest[i] = NoHandle /\ i \notin Promised BY <1>3 DEF View
<1>5. Place'[i] = o /\ Latest'[i] = NoHandle BY <1>1, <1>2 DEF View
<1>6. i \notin Promised' 
  <2>1. \A c \in Consumers : lease'[c][i] = 0 BY <1>3 DEF IInv, UnsentFree
  <2> QED BY <1>1, <1>2, <2>1 DEF View
<1>7. \A j \in Ids \ {i} :
        Place'[j] = Place[j] /\ Latest'[j] = Latest[j] /\ (j \in Promised' <=> j \in Promised)
  <2> TAKE j \in Ids \ {i}
  <2>1. CASE fate[j] = "queued"
    <3>1. PICK p \in Objects : \E m \in msgs[p] : m.id = j BY <2>1 DEF Listed
    <3>2. PICK m \in msgs[p] : m.id = j BY <3>1
    <3>3. m \in msgs'[p] BY <1>2
    <3> QED BY <3>2, <3>3 DEF View
  <2>2. CASE fate[j] # "queued" BY <2>2, <1>3 DEF View
  <2> QED BY <2>1, <2>2
<1>8. Promised' = Promised
  <2>1. Promised \subseteq Ids /\ Promised' \subseteq Ids BY DEF View
  <2>2. \A j \in Ids : j \in Promised' <=> j \in Promised BY <1>4, <1>6, <1>7
  <2> QED BY <2>1, <2>2
<1>9. Place' = [j \in Ids |-> IF j \in {i} THEN o ELSE Place[j]]
  BY <1>5, <1>7, StateFunctions
<1>10. Latest' = Latest BY <1>4, <1>5, <1>7, StateFunctions
<1> QED BY <1>4, <1>8, <1>9, <1>10 DEF Abstract!Accept, Abstract!Set

(* A message that keeps its place and its handle is seen where it was.      *)
LEMMA Stays ==
  ASSUME View, View', NEW p \in Objects, NEW m \in msgs[p], NEW n \in msgs'[p],
         n.id = m.id, n.handle = m.handle
  PROVE  Place'[m.id] = Place[m.id] /\ Latest'[m.id] = Latest[m.id]
BY DEF View

(* S leaves the list o: dead to the dead-letter queue d, the rest for good. *)
Swept(o, d, S, dead) ==
  /\ S \subseteq Ids /\ dead \subseteq S /\ d[1] = "dlq"
  /\ \A i \in S : \E m \in msgs[o] : m.id = i
  /\ \A i \in dead : /\ i \notin Promised
                    /\ \E n \in msgs'[d] : n.id = i /\ n.handle = NoHandle
  /\ \A i \in S \ dead : fate'[i] # "queued" /\ fate'[i] # "unsent"
  /\ \A i \in Ids \ S :
       /\ fate'[i] = fate[i]
       /\ \A p \in Objects : \A m \in msgs[p] : m.id = i => m \in msgs'[p]

LEMMA SweepStep ==
  ASSUME View, View', Listed, UNCHANGED lease,
         NEW o \in Objects, NEW d \in Objects, NEW S, NEW dead, Swept(o, d, S, dead)
  PROVE  Abstract!MailboxNext
<1> USE DEF Swept
<1>1. \A i \in S : Place[i] = o /\ (i \in Promised <=> \E c \in Consumers : lease[c][i] > 0)
  BY DEF View
<1>2. \A i \in dead : Place'[i] = d /\ Latest'[i] = NoHandle /\ i \notin Promised'
  <2> TAKE i \in dead
  <2>1. PICK n \in msgs'[d] : n.id = i /\ n.handle = NoHandle OBVIOUS
  <2>2. i \in Promised' <=> \E c \in Consumers : lease'[c][i] > 0 BY <2>1 DEF View
  <2> QED BY <2>1, <2>2, <1>1 DEF View
<1>3. \A i \in S \ dead : Place'[i] = <<"gone", 0>> /\ Latest'[i] = NoHandle /\ i \notin Promised'
  BY DEF View
<1>4. \A i \in Ids \ S :
        Place'[i] = Place[i] /\ Latest'[i] = Latest[i] /\ (i \in Promised' <=> i \in Promised)
  <2> TAKE i \in Ids \ S
  <2>1. CASE fate[i] = "queued"
    <3>1. PICK p \in Objects : \E m \in msgs[p] : m.id = i BY <2>1 DEF Listed
    <3>2. PICK m \in msgs[p] : m.id = i BY <3>1
    <3>3. m \in msgs'[p] BY <3>2
    <3> QED BY <3>2, <3>3 DEF View
  <2>2. CASE fate[i] # "queued" BY <2>2 DEF View
  <2> QED BY <2>1, <2>2
<1>5. Promised' = Promised \ S
  <2>1. Promised \subseteq Ids /\ Promised' \subseteq Ids BY DEF View
  <2>2. \A i \in Ids : i \in Promised' <=> i \in Promised /\ i \notin S BY <1>2, <1>3, <1>4
  <2> QED BY <2>1, <2>2
<1>6. Place' = [i \in Ids |-> IF i \in dead THEN d
                             ELSE IF i \in S THEN <<"gone", 0>> ELSE Place[i]]
  <2>1. \A i \in Ids : Place'[i] = IF i \in dead THEN d
                                   ELSE IF i \in S THEN <<"gone", 0>> ELSE Place[i]
    BY <1>2, <1>3, <1>4
  <2> QED BY <2>1, StateFunctions
<1>7. Latest' = [i \in Ids |-> IF i \in S THEN NoHandle ELSE Latest[i]]
  <2>1. \A i \in Ids : Latest'[i] = IF i \in S THEN NoHandle ELSE Latest[i] BY <1>2, <1>3, <1>4
  <2> QED BY <2>1, StateFunctions
<1>8. S \in SUBSET Abstract!In(o) BY <1>1 DEF Abstract!In
<1>9. Abstract!Sweep(d, S, dead) BY <1>5, <1>6, <1>7 DEF Abstract!Sweep, Abstract!Set
<1> QED BY <1>8, <1>9 DEF Abstract!MailboxNext

LEMMA SweepRefines ==
  ASSUME IInv, Listed, View, View', UNCHANGED lease, NEW o \in Objects, ExpireAndSweep(o)
  PROVE  Abstract!MailboxNext
<1> DEFINE d == Object("dlq")
           dead == IdsOf(Dead(o))
           S == IdsOf(Expired(o)) \cup dead
<1>1. d \in Objects /\ d[1] = "dlq" BY SweepLists
<1>2. Dead(o) \subseteq msgs[o] /\ Expired(o) \subseteq msgs[o] /\ Dead(o) \cap Expired(o) = {}
  BY DEF Dead, Retained, Expired
<1>3. \A m \in msgs[o] : m.id \in S => m \in Expired(o) \/ m \in Dead(o)
  BY <1>2 DEF IdsOf, IInv, UniqueCopy
<1>4. S \in SUBSET Ids /\ dead \in SUBSET S BY <1>2, MessageIds DEF IInv, IdsOf
<1>5. \A i \in S : \E m \in msgs[o] : m.id = i BY <1>2 DEF IdsOf
<1>6. ASSUME NEW i \in dead
      PROVE  i \notin Promised /\ \E n \in msgs'[d] : n.id = i /\ n.handle = NoHandle
  <2>1. PICK m \in Dead(o) : m.id = i BY DEF IdsOf
  <2>2. m \in msgs[o] /\ m \in Message /\ m.hidden = 0
    BY <2>1, <1>2, MessageIds DEF Dead, Visible, IInv
  <2>3. ASSUME NEW c \in Consumers PROVE ~ (lease[c][i] > 0)
    <3>1. lease[c][i] \in Nat BY <2>1, <2>2, MessageIds DEF IInv, TypeOK
    <3>2. lease[c][i] > 0 => m.hidden >= lease[c][i] BY <2>1, <2>2 DEF IInv, LeaseHeld
    <3> QED BY <2>2, <3>1, <3>2
  <2>4. Moved(m) \in msgs'[d] BY <1>1, <2>1, SweepLists
  <2>5. Moved(m).id = i /\ Moved(m).handle = NoHandle BY <2>1, <2>2 DEF Moved, Message
  <2> QED BY <2>1, <2>2, <2>3, <2>4, <2>5 DEF View
<1>7. \A i \in S \ dead : fate'[i] = "expired" BY <1>4 DEF ExpireAndSweep, Mark
<1>8. ASSUME NEW i \in Ids \ S
      PROVE  /\ fate'[i] = fate[i]
             /\ \A p \in Objects : \A m \in msgs[p] : m.id = i => m \in msgs'[p]
  <2>1. fate'[i] = fate[i] BY DEF ExpireAndSweep, Mark
  <2>2. ASSUME NEW p \in Objects, NEW m \in msgs[p], m.id = i PROVE m \in msgs'[p]
    <3>1. p = o => m \in Retained(o) \ Dead(o) BY <2>2 DEF IdsOf, Expired
    <3> QED BY <3>1, SweepLists
  <2> QED BY <2>1, <2>2
<1>9. Swept(o, d, S, dead)
  <2> HIDE DEF d, dead, S
  <2> QED BY <1>1, <1>4, <1>5, <1>6, <1>7, <1>8 DEF Swept
<1> QED BY <1>1, <1>9, SweepStep

(* Retention on the way of GetQueueAttributes, and PurgeQueue.              *)
LEMMA RemoveRefines ==
  ASSUME IInv, Listed, View, View', UNCHANGED lease, NEW o \in Objects,
         NEW rest \in SUBSET msgs[o], NEW f, f # "queued", f # "unsent",
         msgs' = [msgs EXCEPT ![o] = rest], fate' = Mark(IdsOf(msgs[o] \ rest), f)
  PROVE  Abstract!MailboxNext
<1> DEFINE S == IdsOf(msgs[o] \ rest)
<1>1. Object("dlq") \in Objects /\ Object("dlq")[1] = "dlq"
  BY ObjectInObjects DEF IInv, Names, Object
<1>2. S \in SUBSET Ids BY MessageIds DEF IInv, IdsOf
<1>3. \A i \in S : \E m \in msgs[o] : m.id = i BY DEF IdsOf
<1>4. \A i \in S : fate'[i] = f BY <1>2 DEF Mark
<1>5. ASSUME NEW i \in Ids \ S
      PROVE  /\ fate'[i] = fate[i]
             /\ \A p \in Objects : \A m \in msgs[p] : m.id = i => m \in msgs'[p]
  <2>1. fate'[i] = fate[i] BY DEF Mark
  <2>2. \A p \in Objects : msgs'[p] = IF p = o THEN rest ELSE msgs[p] BY DEF IInv, TypeOK
  <2> QED BY <2>1, <2>2 DEF IdsOf
<1>6. Swept(o, Object("dlq"), S, {})
  <2> HIDE DEF S
  <2> QED BY <1>1, <1>2, <1>3, <1>4, <1>5 DEF Swept
<1> QED BY <1>1, <1>6, SweepStep

(* An id without a copy is seen the same as long as its fate is the same.   *)
LEMMA GoneStays ==
  ASSUME View, View', NEW i \in Ids, fate[i] # "queued", fate'[i] = fate[i]
  PROVE  Place'[i] = Place[i] /\ Latest'[i] = Latest[i] /\ i \notin Promised /\ i \notin Promised'
BY DEF View

LEMMA CollectRefines ==
  ASSUME IInv, Listed, View, View', NEW c \in Consumers, Collect(c)
  PROVE  Abstract!MailboxNext
<1> DEFINE o == call[c].obj
           v == call[c].vis
           got == First(Deliverable(o), call[c].max)
           S == IdsOf(got)
           new(m) == IF m \in got THEN Delivered(m, c, v) ELSE m
<1>1. o \in Objects /\ v \in Nat
  <2>1. call[c] \in Call BY DEF IInv, Collect, TypeOK, IdleCall
  <2> QED BY <2>1, ConstantsAssumption DEF Call
<1>2. \A m \in got : m \in msgs[o] /\ m.hidden = 0 BY FirstSubset DEF Deliverable, Visible
<1>3. \A m \in Message : /\ new(m).id = m.id
                         /\ new(m).handle = IF m \in got THEN c ELSE m.handle
  BY DEF Delivered, Message
<1>4. msgs' = [msgs EXCEPT ![o] = {new(m) : m \in @}] /\ fate' = fate BY DEF Collect
<1>5. lease' = [lease EXCEPT ![c] = [i \in Ids |-> IF i \in S THEN v ELSE @[i]]]
  BY DEF Collect
<1>6. \A m \in msgs[o] : m.id \in S => m \in got BY <1>1, <1>2 DEF IdsOf, IInv, UniqueCopy
<1>7. S \subseteq Ids /\ \A i \in S : \E m \in got : m.id = i
  BY <1>1, <1>2, MessageIds DEF IInv, IdsOf
<1>8. \A m \in got : m.id \in S BY DEF IdsOf
<1> HIDE DEF o, v, got, S, new
<1>9. \A d \in Consumers, i \in Ids :
        lease'[d][i] = IF d = c /\ i \in S THEN v ELSE lease[d][i]
  BY <1>5 DEF IInv, TypeOK
<1>10. \A p \in Objects : \A m \in msgs[p] :
         IF p = o THEN new(m) \in msgs'[p] ELSE m \in msgs'[p]
  BY <1>1, <1>4 DEF IInv, TypeOK
<1>11. ASSUME NEW i \in S
       PROVE  /\ Place[i] = o /\ i \notin Promised
              /\ Place'[i] = o /\ Latest'[i] = c
              /\ i \in Promised' <=> v > 0
  <2>1. PICK m \in got : m.id = i BY <1>7
  <2>2. m \in msgs[o] /\ m \in Message /\ i \in Ids /\ m.hidden = 0
    BY <1>1, <1>2, <2>1, MessageIds DEF IInv
  <2>3. ASSUME NEW d \in Consumers PROVE lease[d][i] = 0
    <3>1. lease[d][i] \in Nat BY <2>2 DEF IInv, TypeOK
    <3>2. lease[d][i] > 0 => m.hidden >= lease[d][i] BY <1>1, <2>1, <2>2 DEF IInv, LeaseHeld
    <3> QED BY <2>2, <3>1, <3>2
  <2>4. new(m) \in msgs'[o] /\ new(m).id = i /\ new(m).handle = c
    BY <1>1, <1>3, <1>10, <2>1, <2>2
  <2>5. (\E d \in Consumers : lease'[d][i] > 0) <=> v > 0 BY <1>9, <2>2, <2>3
  <2> QED BY <1>1, <2>1, <2>2, <2>3, <2>4, <2>5 DEF View
<1>12. ASSUME NEW i \in Ids \ S
       PROVE  Place'[i] = Place[i] /\ Latest'[i] = Latest[i] /\ (i \in Promised' <=> i \in Promised)
  <2>1. CASE fate[i] = "queued"
    <3>1. PICK p \in Objects : \E m \in msgs[p] : m.id = i BY <2>1 DEF Listed
    <3>2. PICK m \in msgs[p] : m.id = i BY <3>1
    <3>3. m \in Message /\ m \notin got BY <1>8, <3>2, MessageIds DEF IInv
    <3>4. \E n \in msgs'[p] : n.id = i /\ n.handle = m.handle BY <1>3, <1>10, <3>2, <3>3
    <3>5. PICK n \in msgs'[p] : n.id = i /\ n.handle = m.handle BY <3>4
    <3>6. \A d \in Consumers : lease'[d][i] = lease[d][i] BY <1>9
    <3> QED BY <3>2, <3>5, <3>6 DEF View
  <2>2. CASE fate[i] # "queued" BY <1>4, <2>2, GoneStays
  <2> QED BY <2>1, <2>2
<1>13. Promised' = IF v > 0 THEN Promised \cup S ELSE Promised
  <2>1. Promised \subseteq Ids /\ Promised' \subseteq Ids BY DEF View
  <2>2. \A i \in Ids : i \in Promised' <=> i \in Promised \/ (v > 0 /\ i \in S)
    BY <1>11, <1>12
  <2> QED BY <2>1, <2>2, <1>7
<1>14. Place' = Place BY <1>11, <1>12, StateFunctions
<1>15. Latest' = [i \in Ids |-> IF i \in S THEN c ELSE Latest[i]]
  BY <1>11, <1>12, StateFunctions
<1>16. S \in SUBSET Abstract!In(o) BY <1>7, <1>11 DEF Abstract!In
<1>17. S \cap Promised = {} BY <1>11
<1>18. Abstract!Deliver(c, S)
  BY <1>13, <1>14, <1>15, <1>17 DEF Abstract!Deliver, Abstract!Set
<1> QED BY <1>1, <1>16, <1>18 DEF Abstract!MailboxNext

LEMMA DeleteRefines ==
  ASSUME IInv, Listed, View, View', NEW c \in Consumers, NEW q \in Names,
         NEW D \in SUBSET Ids, DeleteMessages(c, q, D)
  PROVE  Abstract!MailboxNext
<1> DEFINE o == Object(q)
<1>1. o \in Objects BY ObjectInObjects DEF IInv
<1>2. \A i \in D : \E m \in msgs[o] : m.id = i /\ m.handle = c
  BY DEF DeleteMessages, IdsOf, Held
<1>3. msgs' = [msgs EXCEPT ![o] = {m \in @ : m.id \notin D}] /\ fate' = Mark(D, "deleted")
  BY DEF DeleteMessages
<1>4. \A d \in Consumers, i \in Ids :
        lease'[d][i] = IF d = c /\ i \in D THEN 0 ELSE lease[d][i]
  BY DEF IInv, TypeOK, DeleteMessages
<1> HIDE DEF o
<1>5. \A i \in D : Place[i] = o /\ Latest[i] = c BY <1>1, <1>2 DEF View
<1>6. \A i \in D : fate'[i] = "deleted" BY <1>3 DEF Mark
<1>7. \A i \in D : Place'[i] = <<"gone", 0>> /\ Latest'[i] = NoHandle /\ i \notin Promised'
  BY <1>6 DEF View
<1>8. ASSUME NEW i \in Ids \ D
      PROVE  Place'[i] = Place[i] /\ Latest'[i] = Latest[i] /\ (i \in Promised' <=> i \in Promised)
  <2>1. CASE fate[i] = "queued"
    <3>1. PICK p \in Objects : \E m \in msgs[p] : m.id = i BY <2>1 DEF Listed
    <3>2. PICK m \in msgs[p] : m.id = i BY <3>1
    <3>3. m \in msgs'[p] BY <1>1, <1>3, <3>2 DEF IInv, TypeOK
    <3>4. \A d \in Consumers : lease'[d][i] = lease[d][i] BY <1>4
    <3> QED BY <3>2, <3>3, <3>4 DEF View
  <2>2. CASE fate[i] # "queued"
    <3>1. fate'[i] = fate[i] BY <1>3 DEF Mark
    <3> QED BY <2>2, <3>1, GoneStays
  <2> QED BY <2>1, <2>2
<1>9. Promised' = Promised \ D
  <2>1. Promised \subseteq Ids /\ Promised' \subseteq Ids BY DEF View
  <2>2. \A i \in Ids : i \in Promised' <=> i \in Promised /\ i \notin D BY <1>7, <1>8
  <2> QED BY <2>1, <2>2
<1>10. Place' = [i \in Ids |-> IF i \in D THEN <<"gone", 0>> ELSE Place[i]]
  BY <1>7, <1>8, StateFunctions
<1>11. Latest' = [i \in Ids |-> IF i \in D THEN NoHandle ELSE Latest[i]]
  BY <1>7, <1>8, StateFunctions
<1>12. D \in SUBSET Abstract!In(o) BY <1>5 DEF Abstract!In
<1>13. Abstract!Delete(c, D)
  BY <1>5, <1>9, <1>10, <1>11 DEF Abstract!Delete, Abstract!Set
<1> QED BY <1>1, <1>12, <1>13 DEF Abstract!MailboxNext

LEMMA ChangeVisibilityRefines ==
  ASSUME IInv, Listed, View, View', NEW c \in Consumers, NEW q \in Names,
         NEW D \in SUBSET Ids, NEW v \in VisTimeouts, ChangeVisibility(c, q, D, v)
  PROVE  Abstract!MailboxNext
<1> DEFINE o == Object(q)
           new(m) == IF m.id \in D THEN [m EXCEPT !.hidden = v] ELSE m
<1>1. o \in Objects /\ v \in Nat BY ObjectInObjects, ConstantsAssumption DEF IInv
<1>2. \A i \in D : \E m \in msgs[o] : m.id = i /\ m.handle = c
  BY DEF ChangeVisibility, IdsOf, Held
<1>3. msgs' = [msgs EXCEPT ![o] = {new(m) : m \in @}] /\ fate' = fate BY DEF ChangeVisibility
<1>4. \A m \in Message : new(m).id = m.id /\ new(m).handle = m.handle BY DEF Message
<1>5. \A d \in Consumers, i \in Ids :
        lease'[d][i] = IF d = c /\ i \in D THEN v ELSE lease[d][i]
  BY DEF IInv, TypeOK, ChangeVisibility
<1> HIDE DEF o, new
<1>6. \A p \in Objects : \A m \in msgs[p] : \E n \in msgs'[p] : n.id = m.id /\ n.handle = m.handle
  BY <1>1, <1>3, <1>4, MessageIds DEF IInv, TypeOK
<1>7. ASSUME NEW i \in Ids
      PROVE  Place'[i] = Place[i] /\ Latest'[i] = Latest[i]
             /\ (i \in Promised' <=> IF i \in D THEN v > 0 ELSE i \in Promised)
  <2>1. CASE fate[i] = "queued"
    <3>1. PICK p \in Objects : \E m \in msgs[p] : m.id = i BY <2>1 DEF Listed
    <3>2. PICK m \in msgs[p] : m.id = i BY <3>1
    <3>3. PICK n \in msgs'[p] : n.id = i /\ n.handle = m.handle BY <1>6, <3>2
    <3>4. ASSUME NEW d \in Consumers, i \in D, d # c PROVE ~ (lease[d][i] > 0)
      BY <1>1, <1>2, <3>4 DEF IInv, LeaseHeld
    <3>5. (\E d \in Consumers : lease'[d][i] > 0)
          <=> IF i \in D THEN v > 0 ELSE \E d \in Consumers : lease[d][i] > 0
      BY <1>5, <3>4
    <3> QED BY <3>2, <3>3, <3>5 DEF View
  <2>2. CASE fate[i] # "queued"
    <3>1. i \notin D BY <1>1, <1>2, <2>2 DEF IInv, Queued
    <3> QED BY <1>3, <2>2, <3>1, GoneStays
  <2> QED BY <2>1, <2>2
<1>8. Promised' = IF v > 0 THEN Promised \cup D ELSE Promised \ D
  <2>1. Promised \subseteq Ids /\ Promised' \subseteq Ids BY DEF View
  <2>2. \A i \in Ids : i \in Promised' <=> IF i \in D THEN v > 0 ELSE i \in Promised
    BY <1>7
  <2> QED BY <2>1, <2>2
<1>9. Place' = Place /\ Latest' = Latest BY <1>7, StateFunctions
<1>10. \A i \in D : Place[i] = o /\ Latest[i] = c BY <1>1, <1>2 DEF View
<1>11. D \in SUBSET Abstract!In(o) BY <1>10 DEF Abstract!In
<1>12. Abstract!Renew(c, D) BY <1>8, <1>9, <1>10 DEF Abstract!Renew
<1> QED BY <1>1, <1>11, <1>12 DEF Abstract!MailboxNext

LEMMA TickRefines ==
  ASSUME IInv, Listed, View, View', Tick
  PROVE  Abstract!MailboxNext
<1> DEFINE new(m) == [m EXCEPT !.hidden = Minus1(@), !.age = Plus1(@, MaxAge)]
<1>1. msgs' = [o \in Objects |-> {new(m) : m \in msgs[o]}] /\ fate' = fate BY DEF Tick
<1>2. \A m \in Message : new(m).id = m.id /\ new(m).handle = m.handle BY DEF Message
<1> HIDE DEF new
<1>3. \A p \in Objects : \A m \in msgs[p] : \E n \in msgs'[p] : n.id = m.id /\ n.handle = m.handle
  BY <1>1, <1>2, MessageIds DEF IInv
<1>4. \A c \in Consumers, i \in Ids : lease'[c][i] > 0 => lease[c][i] > 0
  <2>1. \A n \in Nat : Minus1(n) > 0 => n > 0 BY DEF Minus1
  <2>2. \A c \in Consumers, i \in Ids : lease[c][i] \in Nat BY DEF IInv, TypeOK
  <2>3. \A c \in Consumers, i \in Ids : lease'[c][i] = Minus1(lease[c][i]) BY DEF Tick
  <2> QED BY <2>1, <2>2, <2>3
<1>5. ASSUME NEW i \in Ids
      PROVE  Place'[i] = Place[i] /\ Latest'[i] = Latest[i] /\ (i \in Promised' => i \in Promised)
  <2>1. CASE fate[i] = "queued"
    <3>1. PICK p \in Objects : \E m \in msgs[p] : m.id = i BY <2>1 DEF Listed
    <3>2. PICK m \in msgs[p] : m.id = i BY <3>1
    <3>3. PICK n \in msgs'[p] : n.id = i /\ n.handle = m.handle BY <1>3, <3>2
    <3> QED BY <1>4, <3>2, <3>3 DEF View
  <2>2. CASE fate[i] # "queued" BY <1>1, <2>2, GoneStays
  <2> QED BY <2>1, <2>2
<1>6. Place' = Place /\ Latest' = Latest BY <1>5, StateFunctions
<1> DEFINE S == Promised \ Promised'
<1>7. Promised' = Promised \ S /\ S \in SUBSET Promised BY <1>5 DEF View
<1>8. Abstract!RunOut(S) BY <1>6, <1>7 DEF Abstract!RunOut
<1> HIDE DEF S
<1> QED BY <1>7, <1>8 DEF Abstract!MailboxNext

LEMMA StutterRefines ==
  ASSUME UNCHANGED <<msgs, fate, lease>>
  PROVE  UNCHANGED Abstract!mvars
<1>1. Place' = Place BY DEF Place, Copies
<1>2. Latest' = Latest BY <1>1 DEF Latest, Copies
<1>3. Promised' = Promised BY DEF Promised, Copies
<1> QED BY <1>1, <1>2, <1>3 DEF Abstract!mvars

LEMMA StepRefines ==
  ASSUME IInv, Listed, View, IInv', View', [Next]_vars
  PROVE  [Abstract!MailboxNext]_(Abstract!mvars)
<1> DEFINE Step == Abstract!MailboxNext \/ UNCHANGED Abstract!mvars
<1> SUFFICES Step OBVIOUS
<1>1. \A o \in Objects, i \in Ids : Abstract!Accept(i, o) => Step BY DEF Abstract!MailboxNext
<1>2. ASSUME NEW q \in Names, NEW i \in Ids, NEW d, SendStandard(q, i, d) PROVE Step
  BY <1>1, <1>2, ObjectInObjects, AppendRefines DEF SendStandard, IInv
<1>3. ASSUME NEW q \in Names, NEW i \in Ids, NEW g \in Groups, NEW k \in Keys,
             SendFifo(q, i, g, k) \/ DirectAppend(q, i, g, k)
      PROVE  Step
  BY <1>1, <1>3, ObjectInObjects, AppendRefines DEF SendFifo, DirectAppend, IInv
<1>4. ASSUME NEW c \in Consumers, NEW q \in Names, NEW n, NEW v, NEW w,
             ReceiveMessage(c, q, n, v, w)
      PROVE  Step
  BY <1>4, ObjectInObjects, SweepRefines DEF ReceiveMessage, IInv
<1>5. ASSUME NEW c \in Consumers, Wake(c) PROVE Step
  <2>1. call[c].obj \in Objects BY <1>5 DEF Wake, IInv, TypeOK, Call, IdleCall
  <2> QED BY <1>5, <2>1, SweepRefines DEF Wake
<1>6. ASSUME NEW q \in Names, GetQueueAttributes(q) PROVE Step
  <2>1. Object(q) \in Objects /\ Retained(Object(q)) \in SUBSET msgs[Object(q)]
    BY ObjectInObjects DEF IInv, Retained
  <2> QED BY <1>6, <2>1, RemoveRefines DEF GetQueueAttributes, Expired
<1>7. ASSUME NEW q \in Names, PurgeQueue(q) PROVE Step
  <2>1. Object(q) \in Objects /\ msgs[Object(q)] \ {} = msgs[Object(q)]
    BY ObjectInObjects DEF IInv
  <2> QED BY <1>7, <2>1, RemoveRefines DEF PurgeQueue
<1>8. ASSUME NEW q \in Names, NEW a \in Attributes[q],
             SetQueueAttributes(q, a) \/ CreateQueue(q, a)
      PROVE  Step
  BY <1>8, StutterRefines DEF SetQueueAttributes, CreateQueue
<1>9. ASSUME NEW q \in Names, DeleteQueue(q) PROVE Step
  BY <1>9, StutterRefines DEF DeleteQueue
<1>10. CASE UNCHANGED vars BY <1>10, StutterRefines DEF vars
<1>11. ASSUME NEW c \in Consumers, Collect(c) PROVE Step BY <1>11, CollectRefines
<1>12. ASSUME NEW c \in Consumers, NEW q \in Names, NEW D \in SUBSET Ids,
              DeleteMessages(c, q, D)
       PROVE  Step
  BY <1>12, DeleteRefines
<1>13. ASSUME NEW c \in Consumers, NEW q \in Names, NEW D \in SUBSET Ids,
              NEW v \in VisTimeouts, ChangeVisibility(c, q, D, v)
       PROVE  Step
  BY <1>13, ChangeVisibilityRefines
<1>14. CASE Tick BY <1>14, TickRefines
<1> HIDE DEF Step
<1> QED
  BY <1>2, <1>3, <1>4, <1>5, <1>6, <1>7, <1>8, <1>9, <1>10, <1>11, <1>12, <1>13, <1>14
  DEF Next, Send, Receive, Settle, Administer

(* Whatever the numbers of messages, consumers and queue lifetimes and the  *)
(* settings, the queue pair keeps the promises of a mailbox.                *)
THEOREM Implements == Spec => KeepsPromises
<1>1. Init => Abstract!MailboxInit
  <2> SUFFICES ASSUME Init PROVE Abstract!MailboxInit OBVIOUS
  <2>1. \A i \in Ids : Copies(i) = {} BY DEF Init, Copies, IdsOf
  <2> QED BY <2>1 DEF Init, Place, Latest, Promised, Abstract!MailboxInit
<1>2. IInv /\ Listed /\ View /\ IInv' /\ View' /\ [Next]_vars
        => [Abstract!MailboxNext]_(Abstract!mvars)
  BY StepRefines
<1> QED
  BY <1>1, <1>2, ViewHolds, InductiveInvariant, NoneLost, PTL
  DEF Spec, KeepsPromises, Abstract!MailboxSpec

-----------------------------------------------------------------------------
(* The third part: what deliveries promise.  One consumer at a time works   *)
(* on a FIFO group, a group is delivered in send order, and nothing stale   *)
(* is delivered.  Only Collect delivers: any other step leaves a message of *)
(* a list as it was to its receivers (Endures) or puts one there that       *)
(* nobody holds (Arrives).                                                  *)

(* The messages of a FIFO queue have a group.                               *)
Grouped == IsFifo => \A o \in Objects : \A m \in msgs[o] : m.group # NoGroup

(* Whoever holds a handle was counted as a receiver.                        *)
Receipted == \A o \in Objects : \A m \in msgs[o] : m.handle # NoHandle => m.rcv > 0

Endures(m, n) ==
  /\ n.id = m.id /\ n.group = m.group /\ n.rcv = m.rcv /\ n.handle = m.handle
  /\ n.hidden > 0 => m.hidden > 0 \/ m.handle # NoHandle

Arrives(o, n) ==
  /\ n.handle = NoHandle
  /\ IsFifo => n.group # NoGroup /\ n.hidden \in {0, attr[o].delay}
  /\ n.rcv = 0 \/ \E p \in Objects \ {o} : \E m \in msgs[p] : n.id = m.id

DeliversNothing ==
  /\ \A o \in Objects : \A n \in msgs'[o] :
       (\E m \in msgs[o] : Endures(m, n)) \/ Arrives(o, n)
  /\ \A c \in Consumers, i \in Ids :
       ~ ExtendExpired /\ lease'[c][i] > 0 => lease[c][i] > 0

-----------------------------------------------------------------------------
(* Every step but Collect delivers nothing.                                 *)

LEMMA EnduresItself ==
  ASSUME NEW m
  PROVE  Endures(m, m)
BY DEF Endures

LEMMA KeepsSome ==
  ASSUME \A o \in Objects : msgs'[o] \subseteq msgs[o],
         \A c \in Consumers, i \in Ids : lease'[c][i] > 0 => lease[c][i] > 0
  PROVE  DeliversNothing
BY EnduresItself DEF DeliversNothing

LEMMA AppendArrives ==
  ASSUME TypeOK, NEW o \in Objects, NEW i \in Ids, NEW g, NEW k, NEW d,
         Append(o, i, g, k, d), UNCHANGED lease, IsFifo => g # NoGroup /\ d = attr[o].delay
  PROVE  DeliversNothing
<1> DEFINE new == NewMessage(o, i, g, k, d)
<1>1. Arrives(o, new) BY DEF Arrives, NewMessage
<1>2. \A p \in Objects : \A n \in msgs'[p] : n \in msgs[p] \/ (p = o /\ n = new)
  BY DEF Append, TypeOK
<1> HIDE DEF new
<1>3. \A p \in Objects : \A n \in msgs'[p] : (\E m \in msgs[p] : Endures(m, n)) \/ Arrives(p, n)
  BY <1>1, <1>2, EnduresItself
<1> QED BY <1>3 DEF DeliversNothing

LEMMA SweepArrives ==
  ASSUME IInv, Grouped, NEW o \in Objects, ExpireAndSweep(o), UNCHANGED lease
  PROVE  DeliversNothing
<1> DEFINE d == Object("dlq")
<1>1. d \in Objects BY SweepLists
<1>2. Dead(o) \subseteq msgs[o] /\ Retained(o) \subseteq msgs[o] BY DEF Dead, Retained
<1>3. \A m \in Dead(o) : Arrives(d, Moved(m))
  <2> SUFFICES ASSUME NEW m \in Dead(o) PROVE Arrives(d, Moved(m)) OBVIOUS
  <2>1. m \in Message /\ m \in msgs[o] BY <1>2, MessageIds DEF IInv
  <2>2. /\ Moved(m).id = m.id /\ Moved(m).group = m.group
        /\ Moved(m).handle = NoHandle /\ Moved(m).hidden = 0
    BY <2>1 DEF Moved, Message
  <2>3. o # d BY SweepLists
  <2> QED BY <2>1, <2>2, <2>3 DEF Arrives, Grouped
<1>4. \A p \in Objects : \A n \in msgs'[p] :
        n \in msgs[p] \/ (p = d /\ \E m \in Dead(o) : n = Moved(m))
  BY <1>2, SweepLists
<1> HIDE DEF d
<1>5. \A p \in Objects : \A n \in msgs'[p] : (\E m \in msgs[p] : Endures(m, n)) \/ Arrives(p, n)
  BY <1>3, <1>4, EnduresItself
<1> QED BY <1>5 DEF DeliversNothing

LEMMA ChangeVisibilityStays ==
  ASSUME IInv, NEW c \in Consumers, NEW q \in Names, NEW D \in SUBSET Ids,
         NEW v \in VisTimeouts, ChangeVisibility(c, q, D, v)
  PROVE  DeliversNothing
<1> DEFINE o == Object(q)
           new(m) == IF m.id \in D THEN [m EXCEPT !.hidden = v] ELSE m
<1>1. o \in Objects BY ObjectInObjects DEF IInv
<1>2. msgs' = [msgs EXCEPT ![o] = {new(m) : m \in @}] BY DEF ChangeVisibility
<1>3. \A i \in D : \E x \in msgs[o] : x.id = i /\ x.handle = c
  BY DEF ChangeVisibility, IdsOf, Held
<1>4. \A m \in msgs[o] : m.id \in D => m.handle # NoHandle
  <2> SUFFICES ASSUME NEW m \in msgs[o], m.id \in D PROVE m.handle # NoHandle OBVIOUS
  <2>1. PICK x \in msgs[o] : x.id = m.id /\ x.handle = c BY <1>3
  <2>2. x = m BY <2>1, <1>1 DEF IInv, UniqueCopy
  <2> QED BY <2>1, <2>2, ConstantsAssumption
<1>5. \A m \in msgs[o] : Endures(m, new(m))
  <2> SUFFICES ASSUME NEW m \in msgs[o] PROVE Endures(m, new(m)) OBVIOUS
  <2>1. m \in Message BY <1>1, MessageIds DEF IInv
  <2> QED BY <2>1, <1>4 DEF Endures, Message
<1>6. \A d \in Consumers, i \in Ids : ~ ExtendExpired /\ lease'[d][i] > 0 => lease[d][i] > 0
  <2>1. \A d \in Consumers, i \in Ids :
          lease'[d][i] = IF d = c /\ i \in D THEN v ELSE lease[d][i]
    BY DEF IInv, TypeOK, ChangeVisibility
  <2>2. ~ ExtendExpired => \A i \in D : lease[c][i] > 0 BY DEF ChangeVisibility
  <2> QED BY <2>1, <2>2
<1> HIDE DEF o, new
<1>7. \A p \in Objects : \A n \in msgs'[p] :
        IF p = o THEN \E m \in msgs[p] : n = new(m) ELSE n \in msgs[p]
  BY <1>1, <1>2 DEF IInv, TypeOK
<1>8. \A p \in Objects : \A n \in msgs'[p] : \E m \in msgs[p] : Endures(m, n)
  BY <1>5, <1>7, EnduresItself
<1> QED BY <1>6, <1>8 DEF DeliversNothing

LEMMA TickStays ==
  ASSUME IInv, Tick
  PROVE  DeliversNothing
<1> DEFINE new(m) == [m EXCEPT !.hidden = Minus1(@), !.age = Plus1(@, MaxAge)]
<1>1. msgs' = [o \in Objects |-> {new(m) : m \in msgs[o]}] BY DEF Tick
<1>2. \A n \in Nat : Minus1(n) > 0 => n > 0 BY DEF Minus1
<1>3. \A m \in Message : Endures(m, new(m))
  <2> SUFFICES ASSUME NEW m \in Message PROVE Endures(m, new(m)) OBVIOUS
  <2>1. /\ new(m).id = m.id /\ new(m).group = m.group /\ new(m).rcv = m.rcv
        /\ new(m).handle = m.handle /\ new(m).hidden = Minus1(m.hidden)
        /\ m.hidden \in Nat
    BY DEF Message
  <2> QED BY <2>1, <1>2 DEF Endures
<1>4. \A c \in Consumers, i \in Ids : lease'[c][i] > 0 => lease[c][i] > 0
  BY <1>2 DEF Tick, IInv, TypeOK
<1> HIDE DEF new
<1>5. \A o \in Objects : \A n \in msgs'[o] : \E m \in msgs[o] : Endures(m, n)
  BY <1>1, <1>3, MessageIds DEF IInv
<1> QED BY <1>4, <1>5 DEF DeliversNothing

LEMMA OnlyCollectDelivers ==
  ASSUME IInv, Grouped, [Next]_vars, ~ \E c \in Consumers : Collect(c)
  PROVE  DeliversNothing
<1> USE DEF IInv
<1>1. ASSUME NEW q \in Names, NEW i \in Ids, NEW d, SendStandard(q, i, d) PROVE DeliversNothing
  BY <1>1, ObjectInObjects, AppendArrives DEF SendStandard
<1>2. ASSUME NEW q \in Names, NEW i \in Ids, NEW g \in Groups, NEW k \in Keys,
             SendFifo(q, i, g, k) \/ DirectAppend(q, i, g, k)
      PROVE  DeliversNothing
  <2>1. Object(q) \in Objects /\ g # NoGroup BY ObjectInObjects, ConstantsAssumption
  <2>2. Append(Object(q), i, g, k, attr[Object(q)].delay) /\ UNCHANGED lease
    BY <1>2 DEF SendFifo, DirectAppend
  <2> QED BY <2>1, <2>2, AppendArrives
<1>3. ASSUME NEW c \in Consumers, NEW q \in Names, NEW n, NEW v, NEW w,
             ReceiveMessage(c, q, n, v, w)
      PROVE  DeliversNothing
  BY <1>3, ObjectInObjects, SweepArrives DEF ReceiveMessage
<1>4. ASSUME NEW c \in Consumers, Wake(c) PROVE DeliversNothing
  <2>1. call[c].obj \in Objects BY <1>4 DEF Wake, TypeOK, Call, IdleCall
  <2> QED BY <1>4, <2>1, SweepArrives DEF Wake
<1>5. ASSUME NEW c \in Consumers, NEW q \in Names, NEW D \in SUBSET Ids, DeleteMessages(c, q, D)
      PROVE  DeliversNothing
  BY <1>5, ObjectInObjects, KeepsSome DEF DeleteMessages, TypeOK
<1>6. ASSUME NEW q \in Names, GetQueueAttributes(q) \/ PurgeQueue(q) \/ DeleteQueue(q)
      PROVE  DeliversNothing
  BY <1>6, ObjectInObjects, KeepsSome
  DEF GetQueueAttributes, PurgeQueue, DeleteQueue, Retained, TypeOK
<1>7. ASSUME NEW q \in Names, NEW a \in Attributes[q], SetQueueAttributes(q, a) \/ CreateQueue(q, a)
      PROVE  DeliversNothing
  BY <1>7, KeepsSome DEF SetQueueAttributes, CreateQueue
<1>8. CASE UNCHANGED vars BY <1>8, KeepsSome DEF vars
<1> QED
  BY <1>1, <1>2, <1>3, <1>4, <1>5, <1>6, <1>7, <1>8, ChangeVisibilityStays, TickStays
  DEF Next, Send, Receive, Settle, Administer

-----------------------------------------------------------------------------
(* What Collect delivers: the first of the visible messages whose group is  *)
(* not blocked, each with the fields of a delivery.                         *)

Got(c) == First(Deliverable(call[c].obj), call[c].max)

LEMMA CollectDelivers ==
  ASSUME IInv, NEW c \in Consumers, Collect(c)
  PROVE  /\ call[c].obj \in Objects
         /\ Got(c) \subseteq Deliverable(call[c].obj)
         /\ Deliverable(call[c].obj) \subseteq msgs[call[c].obj]
         /\ \A m \in Got(c) : \E n \in msgs'[call[c].obj] : n.id = m.id /\ n.rcv = m.rcv + 1
         /\ \A p \in Objects : \A n \in msgs'[p] :
              \/ n \in msgs[p] /\ (p = call[c].obj => n \notin Got(c))
              \/ /\ p = call[c].obj
                 /\ \E m \in Got(c) : /\ n.id = m.id /\ n.group = m.group
                                      /\ n.handle = c /\ n.rcv = m.rcv + 1
<1> DEFINE o == call[c].obj
           v == call[c].vis
           new(m) == IF m \in Got(c) THEN Delivered(m, c, v) ELSE m
<1>1. call[c] \in Call BY DEF IInv, Collect, TypeOK, IdleCall
<1>2. o \in Objects BY <1>1 DEF Call
<1>3. Got(c) \subseteq Deliverable(o) BY FirstSubset DEF Got
<1>4. Deliverable(o) \subseteq msgs[o] BY DEF Deliverable
<1>5. msgs' = [msgs EXCEPT ![o] = {new(m) : m \in @}] BY DEF Collect, Got
<1>6. \A m \in Message : LET n == Delivered(m, c, v) IN
        n.id = m.id /\ n.group = m.group /\ n.handle = c /\ n.rcv = m.rcv + 1
  BY DEF Delivered, Message
<1>7. msgs \in [Objects -> SUBSET Message] BY DEF IInv, TypeOK
<1> HIDE DEF o, v
<1>8. \A p \in Objects : msgs'[p] = IF p = o THEN {new(m) : m \in msgs[o]} ELSE msgs[p]
  BY <1>2, <1>5, <1>7
<1>9. \A m \in Got(c) : \E n \in msgs'[o] : n.id = m.id /\ n.rcv = m.rcv + 1
  BY <1>2, <1>3, <1>4, <1>6, <1>7, <1>8
<1>10. \A p \in Objects : \A n \in msgs'[p] :
         \/ n \in msgs[p] /\ (p = o => n \notin Got(c))
         \/ p = o /\ \E m \in Got(c) : /\ n.id = m.id /\ n.group = m.group
                                       /\ n.handle = c /\ n.rcv = m.rcv + 1
  <2> SUFFICES ASSUME NEW n \in msgs'[o], ~ (n \in msgs[o] /\ n \notin Got(c))
               PROVE  \E m \in Got(c) : /\ n.id = m.id /\ n.group = m.group
                                       /\ n.handle = c /\ n.rcv = m.rcv + 1
    BY <1>8
  <2>1. PICK m \in msgs[o] : n = new(m) BY <1>2, <1>8
  <2>2. m \in Got(c) /\ n = Delivered(m, c, v) BY <2>1
  <2>3. m \in Message BY <1>2, <1>7
  <2> QED BY <1>6, <2>2, <2>3
<1>11. o = call[c].obj BY DEF o
<1> QED BY <1>2, <1>3, <1>4, <1>9, <1>10, <1>11, Zenon

(* A receive past a message of the same group that is being worked on is    *)
(* what Blocked rules out.                                                  *)
LEMMA DeliverableAlone ==
  ASSUME TypeOK, Grouped, IsFifo, NEW o \in Objects,
         NEW m \in Deliverable(o), NEW x \in msgs[o], x.group = m.group
  PROVE  ~ InFlight(x)
<1>1. m.group \notin Blocked(o) BY DEF Deliverable
<1>2. InFlight(x) => x.group \in Blocked(o) BY DEF Blocked, Grouped
<1> QED BY <1>1, <1>2

LEMMA GroupedStep == IInv /\ Grouped /\ [Next]_vars => Grouped'
<1> SUFFICES ASSUME IInv, Grouped, [Next]_vars PROVE Grouped' OBVIOUS
<1>1. ASSUME NEW c \in Consumers, Collect(c) PROVE Grouped'
  <2>1. \A m \in Got(c) : m \in msgs[call[c].obj] BY <1>1, CollectDelivers
  <2>2. \A o \in Objects : \A n \in msgs'[o] : \E m \in msgs[o] : n.group = m.group
    BY <1>1, <2>1, CollectDelivers
  <2> QED BY <2>2 DEF Grouped
<1>2. CASE ~ \E c \in Consumers : Collect(c)
  BY <1>2, OnlyCollectDelivers DEF DeliversNothing, Endures, Arrives, Grouped
<1> QED BY <1>1, <1>2

LEMMA ReceiptedStep == IInv /\ Grouped /\ Receipted /\ [Next]_vars => Receipted'
<1> SUFFICES ASSUME IInv, Grouped, Receipted, [Next]_vars PROVE Receipted' OBVIOUS
<1>1. ASSUME NEW c \in Consumers, Collect(c) PROVE Receipted'
  <2>1. \A m \in Got(c) : m.rcv \in Nat
    <3>1. \A m \in Got(c) : m \in Message
      BY <1>1, CollectDelivers, MessageIds DEF IInv
    <3> QED BY <3>1 DEF Message
  <2>2. \A m \in Got(c) : m.rcv + 1 > 0 BY <2>1
  <2> QED BY <1>1, <2>2, CollectDelivers DEF Receipted
<1>2. CASE ~ \E c \in Consumers : Collect(c)
  BY <1>2, OnlyCollectDelivers DEF DeliversNothing, Endures, Arrives, Receipted
<1> QED BY <1>1, <1>2

(* On a FIFO queue every message has a group (only a FIFO queue's sends     *)
(* set one), and who was delivered a message has its receive count raised.  *)
THEOREM GroupsAndReceipts == Spec => [](Grouped /\ Receipted)
<1>1. Init => Grouped /\ Receipted BY DEF Init, Grouped, Receipted
<1> QED BY <1>1, GroupedStep, ReceiptedStep, InductiveInvariant, PTL DEF Spec

-----------------------------------------------------------------------------
(* Two consumers never work on messages of one group at the same time, as   *)
(* long as they do not extend a message after their own timeout ran out     *)
(* (the code takes such an extension, which hides a message of a group      *)
(* somebody else may have gone on with).  A lease is on a message in        *)
(* flight, so a receive finds its group blocked.                            *)
THEOREM OneConsumerPerGroup ==
  ASSUME IsFifo, ~ ExtendExpired
  PROVE  Spec => []GroupExclusive
<1>1. Init => GroupExclusive BY DEF Init, GroupExclusive
<1>2. IInv /\ IInv' /\ Grouped /\ Receipted /\ GroupExclusive /\ [Next]_vars => GroupExclusive'
  <2> SUFFICES ASSUME IInv, IInv', Grouped, Receipted, GroupExclusive, [Next]_vars,
                      NEW o \in Objects, NEW m \in msgs'[o], NEW x \in msgs'[o],
                      NEW c \in Consumers, NEW d \in Consumers,
                      m.group = x.group, lease'[c][m.id] > 0, lease'[d][x.id] > 0
               PROVE  c = d
    BY DEF GroupExclusive
  <2>1. m.id \in Ids /\ x.id \in Ids BY DEF IInv, TypeOK, Message
  <2>2. m.handle = c /\ x.handle = d BY DEF IInv, LeaseHeld
  <2>3. c # NoHandle /\ d # NoHandle BY ConstantsAssumption
  <2>4. CASE ~ \E e \in Consumers : Collect(e)
    <3>1. DeliversNothing BY <2>4, OnlyCollectDelivers
    <3>2. PICK y \in msgs[o] : Endures(y, m) BY <2>2, <2>3, <3>1 DEF DeliversNothing, Arrives
    <3>3. PICK z \in msgs[o] : Endures(z, x) BY <2>2, <2>3, <3>1 DEF DeliversNothing, Arrives
    <3>4. lease[c][y.id] > 0 /\ lease[d][z.id] > 0
      BY <2>1, <3>1, <3>2, <3>3 DEF DeliversNothing, Endures
    <3>5. y.group = z.group BY <3>2, <3>3 DEF Endures
    <3> QED BY <3>4, <3>5 DEF GroupExclusive
  <2>5. ASSUME NEW e \in Consumers, Collect(e) PROVE c = d
    <3>1. \A i \in Ids, b \in Consumers : lease'[b][i] > 0 => lease[b][i] > 0 \/ b = e
      BY <2>5 DEF Collect, IInv, TypeOK
    <3>2. ASSUME NEW y \in msgs'[o], NEW b \in Consumers, lease'[b][y.id] > 0, b # e
          PROVE  y \in msgs[o] /\ lease[b][y.id] > 0 /\ InFlight(y)
      <4>1. y.id \in Ids /\ y.handle = b BY <3>2 DEF IInv, TypeOK, Message, LeaseHeld
      <4>2. y \in msgs[o] BY <2>5, <3>2, <4>1, CollectDelivers
      <4>3. lease[b][y.id] > 0 BY <3>1, <3>2, <4>1
      <4>4. y.rcv > 0 BY <4>1, <4>2, ConstantsAssumption DEF Receipted
      <4>5. y.hidden > 0
        <5>1. y.hidden \in Nat /\ lease[b][y.id] \in Nat
          BY <4>1, <4>2, MessageIds DEF IInv, TypeOK, Message
        <5>2. y.hidden >= lease[b][y.id] BY <4>2, <4>3 DEF IInv, LeaseHeld
        <5> QED BY <4>3, <5>1, <5>2
      <4> QED BY <4>2, <4>3, <4>4, <4>5 DEF InFlight
    <3>3. ASSUME NEW y \in msgs'[o], NEW z \in msgs'[o], NEW b \in Consumers,
                 y.group = z.group, lease'[e][y.id] > 0, lease'[b][z.id] > 0, b # e
          PROVE  FALSE
      <4>1. z \in msgs[o] /\ lease[b][z.id] > 0 /\ InFlight(z) BY <3>2, <3>3
      <4>2. CASE y \in msgs[o] /\ lease[e][y.id] > 0
        BY <3>3, <4>1, <4>2 DEF GroupExclusive
      <4>3. ASSUME NEW w \in Got(e), o = call[e].obj, y.group = w.group PROVE FALSE
        <5>1. w \in Deliverable(o) /\ z.group = w.group BY <2>5, <3>3, <4>3, CollectDelivers
        <5>2. z \in msgs[o] /\ InFlight(z) BY <4>1
        <5> QED BY <5>1, <5>2, DeliverableAlone DEF IInv
      <4>4. y \in msgs[o] /\ (o = call[e].obj => y \notin Got(e)) => lease[e][y.id] > 0
        <5> SUFFICES ASSUME y \in msgs[o], o = call[e].obj => y \notin Got(e)
                     PROVE  lease[e][y.id] > 0
          OBVIOUS
        <5>1. y.id \in Ids BY MessageIds DEF IInv
        <5>2. y.id \notin IdsOf(Got(e))
          BY <2>5, CollectDelivers DEF IInv, UniqueCopy, IdsOf
        <5>3. lease' = [lease EXCEPT ![e] =
                         [i \in Ids |-> IF i \in IdsOf(Got(e)) THEN call[e].vis ELSE @[i]]]
          BY <2>5 DEF Collect, Got
        <5>4. lease'[e][y.id] = lease[e][y.id] BY <5>1, <5>2, <5>3 DEF IInv, TypeOK
        <5> QED BY <3>3, <5>4
      <4> QED BY <2>5, <4>2, <4>3, <4>4, CollectDelivers
    <3>4. CASE c = e BY <3>3, <3>4
    <3>5. CASE d = e BY <3>3, <3>5
    <3>6. CASE c # e /\ d # e
      <4>1. m \in msgs[o] /\ lease[c][m.id] > 0 BY <3>2, <3>6
      <4>2. x \in msgs[o] /\ lease[d][x.id] > 0 BY <3>2, <3>6
      <4> QED BY <4>1, <4>2 DEF GroupExclusive
    <3> QED BY <3>4, <3>5, <3>6
  <2> QED BY <2>4, <2>5
<1> QED BY <1>1, <1>2, InductiveInvariant, GroupsAndReceipts, PTL DEF Spec

-----------------------------------------------------------------------------
(* What GroupOrder and FreshDelivery say of a step concerns Collect alone.  *)

LEMMA ReceivedIsGot ==
  ASSUME IInv, Grouped, [Next]_vars, NEW o \in Objects, NEW m \in Received(o)
  PROVE  \E c \in Consumers : Collect(c) /\ o = call[c].obj /\ m \in Got(c)
<1>1. m \in msgs[o] BY DEF Received
<1>2. PICK n \in msgs'[o] : n.id = m.id /\ n.rcv > m.rcv BY DEF Received
<1>3. m.rcv \in Nat /\ ~ (m.rcv > m.rcv) /\ ~ (0 > m.rcv)
  <2>1. m \in Message BY <1>1, MessageIds DEF IInv
  <2> QED BY <2>1 DEF Message
<1>4. \A p \in Objects : \A x \in msgs[p] : x.id = m.id => p = o /\ x = m
  BY <1>1 DEF IInv, UniqueCopy
<1>5. CASE ~ \E c \in Consumers : Collect(c)
  <2>1. CASE \E x \in msgs[o] : Endures(x, n) BY <1>2, <1>3, <1>4, <2>1 DEF Endures
  <2>2. CASE Arrives(o, n) BY <1>2, <1>3, <1>4, <2>2 DEF Arrives
  <2> QED BY <1>5, <2>1, <2>2, OnlyCollectDelivers DEF DeliversNothing
<1>6. ASSUME NEW c \in Consumers, Collect(c)
      PROVE  o = call[c].obj /\ m \in Got(c)
  <2>1. n \notin msgs[o] BY <1>2, <1>3, <1>4
  <2>2. o = call[c].obj /\ \E x \in Got(c) : n.id = x.id BY <1>6, <2>1, CollectDelivers
  <2>3. PICK x \in Got(c) : n.id = x.id BY <2>2
  <2>4. x \in msgs[o] BY <1>6, <2>2, CollectDelivers
  <2> QED BY <1>2, <1>4, <2>2, <2>3, <2>4
<1> QED BY <1>5, <1>6

LEMMA GotIsReceived ==
  ASSUME IInv, NEW c \in Consumers, Collect(c), NEW m \in Got(c)
  PROVE  m \in Received(call[c].obj)
<1>1. m \in msgs[call[c].obj] BY CollectDelivers
<1>2. m.rcv + 1 > m.rcv
  <2>1. m \in Message BY <1>1, CollectDelivers, MessageIds DEF IInv
  <2> QED BY <2>1 DEF Message
<1> QED BY <1>1, <1>2, CollectDelivers DEF Received

(* Lists are finite, so the first n messages of one are what they should be.*)
QueuedIds == {i \in Ids : fate[i] = "queued"}
FinitelyQueued == IsFiniteSet(QueuedIds)

LEMMA FiniteStep == TypeOK /\ FinitelyQueued /\ [Next]_vars => FinitelyQueued'
<1> SUFFICES ASSUME TypeOK, IsFiniteSet(QueuedIds), [Next]_vars PROVE IsFiniteSet(QueuedIds')
  BY DEF FinitelyQueued
<1>1. ASSUME QueuedIds' \subseteq QueuedIds PROVE IsFiniteSet(QueuedIds') BY <1>1, FS_Subset
<1>2. ASSUME UNCHANGED fate \/ \E S : fate' = Mark(S, "expired") \/ fate' = Mark(S, "deleted")
                                                              \/ fate' = Mark(S, "purged")
      PROVE  IsFiniteSet(QueuedIds')
  BY <1>1, <1>2 DEF Mark, QueuedIds
<1>3. ASSUME NEW o, NEW i \in Ids, NEW g, NEW k, NEW d, Append(o, i, g, k, d)
      PROVE  IsFiniteSet(QueuedIds')
  <2>1. QueuedIds' \subseteq QueuedIds \cup {i} BY <1>3 DEF Append, TypeOK, QueuedIds
  <2>2. IsFiniteSet(QueuedIds \cup {i}) BY FS_AddElement
  <2> QED BY <2>1, <2>2, FS_Subset
<1>4. ASSUME NEW q \in Names, NEW i \in Ids, NEW d, SendStandard(q, i, d)
      PROVE  IsFiniteSet(QueuedIds')
  BY <1>3, <1>4 DEF SendStandard
<1>5. ASSUME NEW q \in Names, NEW i \in Ids, NEW g, NEW k,
             SendFifo(q, i, g, k) \/ DirectAppend(q, i, g, k)
      PROVE  IsFiniteSet(QueuedIds')
  BY <1>3, <1>5 DEF SendFifo, DirectAppend
<1>6. ASSUME NEW c \in Consumers, Collect(c) \/ Wake(c) PROVE IsFiniteSet(QueuedIds')
  BY <1>2, <1>6 DEF Collect, Wake, ExpireAndSweep
<1>7. ASSUME NEW c \in Consumers, NEW q \in Names, NEW n, NEW v, NEW w,
             ReceiveMessage(c, q, n, v, w)
      PROVE  IsFiniteSet(QueuedIds')
  BY <1>2, <1>7 DEF ReceiveMessage, ExpireAndSweep
<1>8. ASSUME NEW c \in Consumers, NEW q \in Names, NEW D \in SUBSET Ids, NEW v,
             DeleteMessages(c, q, D) \/ ChangeVisibility(c, q, D, v)
      PROVE  IsFiniteSet(QueuedIds')
  BY <1>2, <1>8 DEF DeleteMessages, ChangeVisibility
<1>9. ASSUME NEW c \in Consumers, NEW q \in Names, NEW D \in SUBSET Ids, DeleteMessages(c, q, D)
      PROVE  IsFiniteSet(QueuedIds')
  BY <1>2, <1>9 DEF DeleteMessages
<1>10. ASSUME NEW q \in Names, GetQueueAttributes(q) \/ PurgeQueue(q) \/ DeleteQueue(q)
       PROVE  IsFiniteSet(QueuedIds')
  BY <1>2, <1>10 DEF GetQueueAttributes, PurgeQueue, DeleteQueue
<1>11. ASSUME NEW q \in Names, NEW a, SetQueueAttributes(q, a) \/ CreateQueue(q, a)
       PROVE  IsFiniteSet(QueuedIds')
  BY <1>2, <1>11 DEF SetQueueAttributes, CreateQueue
<1>12. CASE Tick BY <1>2, <1>12 DEF Tick
<1>13. CASE UNCHANGED vars BY <1>2, <1>13 DEF vars
<1> QED
  BY <1>4, <1>5, <1>6, <1>7, <1>8, <1>9, <1>10, <1>11, <1>12, <1>13
  DEF Next, Send, Receive, Settle, Administer

LEMMA FiniteLists ==
  ASSUME IInv, IsFiniteSet(QueuedIds), NEW o \in Objects
  PROVE  IsFiniteSet(msgs[o])
<1> DEFINE f == [m \in msgs[o] |-> m.id]
<1>1. f \in [msgs[o] -> QueuedIds] BY MessageIds DEF IInv, Queued, QueuedIds
<1>2. \A m, x \in msgs[o] : f[m] = f[x] => m = x BY DEF IInv, UniqueCopy
<1>3. f \in Injection(msgs[o], QueuedIds) BY <1>1, <1>2 DEF Injection, IsInjective
<1> QED BY <1>3, FS_Injection

(* What comes before one of the first n comes with it.                      *)
LEMMA FirstIsPrefix ==
  ASSUME NEW S, IsFiniteSet(S), NEW n \in Nat, NEW m \in First(S, n), NEW x \in S,
         \A y \in S : y.pos \in Nat, x.pos < m.pos
  PROVE  x \in First(S, n)
<1> DEFINE before(y) == {z \in S : z.pos < y.pos}
<1>1. m \in S BY DEF First
<1>2. Cardinality(before(m)) < n BY DEF First
<1>3. before(x) \subseteq before(m) BY <1>1
<1>4. IsFiniteSet(before(m)) BY FS_Subset
<1>5. /\ Cardinality(before(x)) <= Cardinality(before(m))
      /\ Cardinality(before(x)) \in Nat /\ Cardinality(before(m)) \in Nat
  BY <1>3, <1>4, FS_Subset, FS_CardinalityType
<1>6. Cardinality(before(x)) < n BY <1>2, <1>5
<1> QED BY <1>6 DEF First

-----------------------------------------------------------------------------
(* A message is hidden because somebody received it, not because of a delay.*)
Undelayed == \A o \in Objects : \A m \in msgs[o] : m.hidden > 0 => m.rcv > 0

LEMMA UndelayedStep ==
  ASSUME IsFifo, \A q \in Names : \A a \in Attributes[q] : a.delay = 0
  PROVE  IInv /\ Grouped /\ Receipted /\ Undelayed /\ [Next]_vars => Undelayed'
<1> SUFFICES ASSUME IInv, Grouped, Receipted, Undelayed, [Next]_vars,
                    NEW o \in Objects, NEW n \in msgs'[o], n.hidden > 0
             PROVE  n.rcv > 0
  BY DEF Undelayed
<1>1. ASSUME NEW c \in Consumers, Collect(c) PROVE n.rcv > 0
  <2>1. CASE n \in msgs[o] BY <2>1 DEF Undelayed
  <2>2. ASSUME NEW m \in Got(c), o = call[c].obj, n.rcv = m.rcv + 1 PROVE n.rcv > 0
    <3>1. m \in Message BY <1>1, <2>2, CollectDelivers, MessageIds DEF IInv
    <3> QED BY <2>2, <3>1 DEF Message
  <2> QED BY <1>1, <2>1, <2>2, CollectDelivers
<1>2. CASE ~ \E c \in Consumers : Collect(c)
  <2>1. CASE \E m \in msgs[o] : Endures(m, n) BY <2>1 DEF Endures, Undelayed, Receipted
  <2>2. CASE Arrives(o, n)
    <3>1. attr[o].delay = 0 BY ObjectNames DEF IInv, TypeOK
    <3> QED BY <2>2, <3>1 DEF Arrives
  <2> QED BY <1>2, <2>1, <2>2, OnlyCollectDelivers DEF DeliversNothing
<1> QED BY <1>1, <1>2

(* A FIFO queue without delays delivers a group in send order: an earlier   *)
(* message of a deliverable group is visible, or it would block the group,  *)
(* and a receive takes the first of what it can.  (With a delay it is not   *)
(* so: a delayed message blocks nothing.)                                   *)
THEOREM InSendOrder ==
  ASSUME IsFifo, \A q \in Names : \A a \in Attributes[q] : a.delay = 0
  PROVE  Spec => GroupOrder
<1>1. Init => Undelayed /\ FinitelyQueued
  <2> SUFFICES ASSUME Init PROVE Undelayed /\ FinitelyQueued OBVIOUS
  <2>1. QueuedIds = {} BY DEF Init, QueuedIds
  <2> QED BY <2>1, FS_EmptySet DEF Init, Undelayed, FinitelyQueued
<1>2. IInv /\ Grouped /\ Undelayed /\ FinitelyQueued /\ [Next]_vars =>
        [\A o \in Objects : \A m \in Received(o), x \in msgs[o] :
           x.group = m.group /\ x.pos < m.pos => x \in Received(o)]_vars
  <2> SUFFICES ASSUME IInv, Grouped, Undelayed, IsFiniteSet(QueuedIds), [Next]_vars,
                      NEW o \in Objects, NEW m \in Received(o), NEW x \in msgs[o],
                      x.group = m.group, x.pos < m.pos
               PROVE  x \in Received(o)
    BY DEF FinitelyQueued
  <2>1. PICK c \in Consumers : Collect(c) /\ o = call[c].obj /\ m \in Got(c)
    BY ReceivedIsGot
  <2>2. m \in Deliverable(o) /\ Deliverable(o) \subseteq msgs[o] BY <2>1, CollectDelivers
  <2>3. x.hidden \in Nat /\ \A y \in Deliverable(o) : y.pos \in Nat
    <3>1. \A y \in msgs[o] : y \in Message BY MessageIds DEF IInv
    <3> QED BY <2>2, <3>1 DEF Message
  <2>4. Visible(x)
    <3>1. ~ InFlight(x) BY <2>2, DeliverableAlone DEF IInv
    <3> QED BY <2>3, <3>1 DEF InFlight, Visible, Undelayed
  <2>5. x \in Deliverable(o) BY <2>2, <2>4 DEF Deliverable
  <2>6. x \in Got(c)
    <3>1. IsFiniteSet(Deliverable(o)) BY <2>2, FiniteLists, FS_Subset
    <3>2. call[c].max \in Nat
      <4>1. call[c] \in Call BY <2>1 DEF IInv, Collect, TypeOK, IdleCall
      <4> QED BY <4>1, ConstantsAssumption DEF Call
    <3> QED BY <2>1, <2>3, <2>5, <3>1, <3>2, FirstIsPrefix DEF Got
  <2> QED BY <2>1, <2>6, GotIsReceived
<1>3. IInv /\ Grouped /\ Receipted /\ Undelayed /\ [Next]_vars => Undelayed' BY UndelayedStep
<1> QED
  BY <1>1, <1>2, <1>3, TypeCorrect, FiniteStep, GroupsAndReceipts, InductiveInvariant, PTL
  DEF Spec, GroupOrder

-----------------------------------------------------------------------------
(* Between the sweep of a receive pass and its collection the loop is busy. *)
PassSwept ==
  \A c \in Consumers : call[c].pc = "collect" =>
    /\ \A d \in Consumers : call[d].pc = "collect" => d = c
    /\ Expired(call[c].obj) = {} /\ Dead(call[c].obj) = {}

LEMMA SweepSweeps ==
  ASSUME IInv, LoopFree, NEW c \in Consumers, NEW r \in Call, r.pc = "collect",
         ExpireAndSweep(r.obj), call' = [call EXCEPT ![c] = r], UNCHANGED <<live, attr>>
  PROVE  PassSwept'
<1> DEFINE o == r.obj
<1>1. o \in Objects BY DEF Call
<1>2. \A d \in Consumers : call'[d].pc = "collect" => d = c
  BY DEF LoopFree, IInv, TypeOK
<1>3. call'[c] = r BY DEF IInv, TypeOK
<1>4. msgs'[o] = Retained(o) \ Dead(o)
  <2>1. CASE o = Object("dlq") BY <1>1, <2>1, SweepLists
  <2>2. CASE o # Object("dlq") BY <1>1, <2>2, SweepLists
  <2> QED BY <2>1, <2>2
<1>5. Retained(o)' = msgs'[o] BY <1>4 DEF Retained
<1>6. Dead(o)' = {} BY <1>4 DEF Dead, Retained, Exists
<1>7. Expired(o)' = {} BY <1>5 DEF Expired
<1> QED BY <1>2, <1>3, <1>6, <1>7 DEF PassSwept

LEMMA SweptStep ==
  ASSUME ~ ClockInHandler
  PROVE  IInv /\ PassSwept /\ [Next]_vars => PassSwept'
<1> SUFFICES ASSUME IInv, PassSwept, [Next]_vars PROVE PassSwept' OBVIOUS
<1>1. ASSUME \A c \in Consumers : call'[c].pc # "collect" PROVE PassSwept' BY <1>1 DEF PassSwept
<1>2. ASSUME LoopFree, UNCHANGED call PROVE PassSwept' BY <1>1, <1>2 DEF LoopFree
<1>3. ASSUME NEW q \in Names, NEW i \in Ids, NEW d, SendStandard(q, i, d) PROVE PassSwept'
  BY <1>2, <1>3 DEF SendStandard
<1>4. ASSUME NEW q \in Names, NEW i \in Ids, NEW g, NEW k,
             SendFifo(q, i, g, k) \/ DirectAppend(q, i, g, k)
      PROVE  PassSwept'
  BY <1>2, <1>4 DEF SendFifo, DirectAppend
<1>5. ASSUME NEW c \in Consumers, NEW q \in Names, NEW n \in BatchSizes, NEW v \in VisTimeouts,
             NEW w \in WaitTimes[q], ReceiveMessage(c, q, n, v, w)
      PROVE  PassSwept'
  <2> DEFINE r == [pc |-> "collect", obj |-> Object(q), max |-> n, vis |-> v, wait |-> w]
  <2>1. w \in Nat BY ConstantsAssumption
  <2>2. r \in Call /\ r.pc = "collect" /\ r.obj = Object(q)
    BY <2>1, ObjectInObjects DEF Call, IInv
  <2>3. /\ LoopFree /\ ExpireAndSweep(Object(q)) /\ call' = [call EXCEPT ![c] = r]
        /\ UNCHANGED <<live, attr>>
    BY <1>5 DEF ReceiveMessage
  <2> HIDE DEF r
  <2> QED BY <2>2, <2>3, SweepSweeps
<1>6. ASSUME NEW c \in Consumers, Wake(c) PROVE PassSwept'
  <2> DEFINE r == [call[c] EXCEPT !.pc = "collect"]
  <2>1. call[c] \in Call BY <1>6 DEF Wake, IInv, TypeOK, IdleCall
  <2>2. r \in Call /\ r.pc = "collect" /\ r.obj = call[c].obj BY <2>1 DEF Call
  <2>3. /\ LoopFree /\ ExpireAndSweep(call[c].obj) /\ call' = [call EXCEPT ![c] = r]
        /\ UNCHANGED <<live, attr>>
    BY <1>6 DEF Wake
  <2> HIDE DEF r
  <2> QED BY <2>2, <2>3, SweepSweeps
<1>7. ASSUME NEW c \in Consumers, Collect(c) PROVE PassSwept'
  <2>1. call[c].pc = "collect" /\ call[c] \in Call BY <1>7 DEF Collect, IInv, TypeOK, IdleCall
  <2>2. call'[c].pc # "collect"
    <3>1. call' = [call EXCEPT ![c] = IF Got(c) = {} /\ call[c].wait > 0
                                      THEN [call[c] EXCEPT !.pc = "sleep"] ELSE IdleCall]
      BY <1>7 DEF Collect, Got
    <3>2. [call[c] EXCEPT !.pc = "sleep"].pc = "sleep" BY <2>1 DEF Call
    <3> QED BY <3>1, <3>2 DEF IdleCall, IInv, TypeOK
  <2>3. \A d \in Consumers : d # c => call'[d] = call[d] BY <1>7 DEF Collect, IInv, TypeOK
  <2> QED BY <1>1, <2>1, <2>2, <2>3 DEF PassSwept
<1>8. ASSUME NEW c \in Consumers, NEW q \in Names, NEW D \in SUBSET Ids, NEW v \in VisTimeouts,
             ChangeVisibility(c, q, D, v)
      PROVE  PassSwept'
  BY <1>2, <1>8 DEF ChangeVisibility
<1>9. ASSUME NEW c \in Consumers, NEW q \in Names, NEW D \in SUBSET Ids, DeleteMessages(c, q, D)
      PROVE  PassSwept'
  BY <1>2, <1>9 DEF DeleteMessages
<1>10. ASSUME NEW q \in Names, GetQueueAttributes(q) \/ PurgeQueue(q) \/ DeleteQueue(q)
       PROVE  PassSwept'
  BY <1>2, <1>10 DEF GetQueueAttributes, PurgeQueue, DeleteQueue
<1>11. ASSUME NEW q \in Names, NEW a, SetQueueAttributes(q, a) \/ CreateQueue(q, a)
       PROVE  PassSwept'
  BY <1>2, <1>11 DEF SetQueueAttributes, CreateQueue
<1>12. CASE Tick
  <2>1. \A c \in Consumers : [call[c] EXCEPT !.wait = Minus1(@)].pc = call[c].pc
    BY DEF IInv, TypeOK, Call, IdleCall
  <2>2. LoopFree BY <1>12 DEF Tick
  <2> QED BY <1>1, <1>12, <2>1, <2>2 DEF Tick, LoopFree
<1>13. CASE UNCHANGED vars BY <1>13 DEF vars, PassSwept, Expired, Dead, Retained, Exists
<1> QED
  BY <1>3, <1>4, <1>5, <1>6, <1>7, <1>8, <1>9, <1>10, <1>11, <1>12, <1>13
  DEF Next, Send, Receive, Settle, Administer

(* Nothing expired, and nothing the sweep should have moved, is delivered,  *)
(* whichever settings and queues changed while the receive was asleep: each *)
(* pass sweeps again, and the loop is not given up before it collects.      *)
THEOREM Fresh == ASSUME ~ ClockInHandler PROVE Spec => FreshDelivery
<1>1. Init => PassSwept BY DEF Init, PassSwept, IdleCall
<1>2. IInv /\ Grouped /\ PassSwept /\ [Next]_vars =>
        [\A o \in Objects : \A m \in Received(o) :
           /\ m.age < attr[o].retention
           /\ attr[o].maxrc > 0 /\ Exists("dlq") => m.rcv < attr[o].maxrc]_vars
  <2> SUFFICES ASSUME IInv, Grouped, PassSwept, [Next]_vars,
                      NEW o \in Objects, NEW m \in Received(o)
               PROVE  /\ m.age < attr[o].retention
                      /\ attr[o].maxrc > 0 /\ Exists("dlq") => m.rcv < attr[o].maxrc
    OBVIOUS
  <2>1. PICK c \in Consumers : Collect(c) /\ o = call[c].obj /\ m \in Got(c)
    BY ReceivedIsGot
  <2>2. m \in msgs[o] /\ Visible(m) BY <2>1, CollectDelivers DEF Deliverable
  <2>3. Expired(o) = {} /\ Dead(o) = {} BY <2>1 DEF Collect, PassSwept
  <2>4. m \in Retained(o) BY <2>2, <2>3 DEF Expired
  <2>5. m.rcv \in Nat /\ attr[o].maxrc \in Nat
    <3>1. m \in Message /\ attr[o] \in Setting BY <2>2, MessageIds DEF IInv, TypeOK
    <3> QED BY <3>1 DEF Message, Setting
  <2>6. attr[o].maxrc > 0 /\ Exists("dlq") => ~ (m.rcv >= attr[o].maxrc)
    BY <2>2, <2>3, <2>4 DEF Dead
  <2> QED BY <2>4, <2>5, <2>6 DEF Retained
<1> QED
  BY <1>1, <1>2, SweptStep, GroupsAndReceipts, InductiveInvariant, PTL DEF Spec, FreshDelivery

-----------------------------------------------------------------------------
(* A queue with a mapping on it, for any number of batches, clients,        *)
(* messages and settings: the queue's promises survive the mapping, its limit*)
(* is kept, and it deletes only what was handled.                           *)

(* A step of the mapping that is one of the queue's, or the mapping's own.  *)
LEMMA ClientIsQueueStep == ClientStep => Next
BY EsmAssumption DEF ClientStep, Clients, Next, Administer, Names

-----------------------------------------------------------------------------
(* Removing the ids in gone from one list: what EsmDrop and EsmSucceed do.  *)
RemovesIds(b, o, gone) ==
  /\ msgs' = [msgs EXCEPT ![o] = {m \in @ : m.id \notin gone}]
  /\ fate' = Mark(gone, "deleted")
  /\ lease' = [lease EXCEPT ![b] = [i \in Ids |-> IF i \in gone THEN 0 ELSE @[i]]]
  /\ UNCHANGED <<live, made, attr, tail, dedup, call, since>>

LEMMA RemovesType ==
  ASSUME TypeOK, NEW b \in Slots, NEW o \in Objects, NEW gone, RemovesIds(b, o, gone)
  PROVE  TypeOK'
<1>0. b \in Consumers BY EsmAssumption
<1>1. msgs' \in [Objects -> SUBSET Message] BY DEF RemovesIds, TypeOK
<1>2. fate' \in [Ids -> Fates] BY DEF RemovesIds, TypeOK, Mark, Fates
<1>3. lease' \in [Consumers -> [Ids -> Nat]] BY <1>0 DEF RemovesIds, TypeOK
<1> QED BY <1>1, <1>2, <1>3 DEF RemovesIds, TypeOK

LEMMA RemovesInv ==
  ASSUME IInv, NEW b \in Slots, NEW o \in Objects, NEW gone, gone \subseteq IdsOf(msgs[o]),
         RemovesIds(b, o, gone)
  PROVE  IInv'
<1>0. b \in Consumers BY EsmAssumption
<1>1. \A p \in Objects : \A m \in msgs'[p] : m \in msgs[p] /\ (p = o => m.id \notin gone)
  BY DEF IInv, TypeOK, RemovesIds
<1>2. \A i \in gone : \E x \in msgs[o] : x.id = i
  BY DEF IdsOf
<1>3. \A p \in Objects : \A m \in msgs'[p] : m.id \notin gone
  BY <1>1, <1>2 DEF IInv, UniqueCopy
<1>4. \A d \in Consumers, i \in Ids :
        lease'[d][i] = IF d = b /\ i \in gone THEN 0 ELSE lease[d][i]
  BY <1>0 DEF IInv, TypeOK, RemovesIds
<1>5. fate' = Mark(gone, "deleted") BY DEF RemovesIds
<1>6. Queued' BY <1>1, <1>3, <1>5, MessageIds DEF IInv, Queued, Mark
<1>7. UniqueCopy' BY <1>1 DEF IInv, UniqueCopy
<1>8. LeaseHeld' BY <1>1, <1>4, MessageIds DEF IInv, LeaseHeld
<1>9. UnsentFree' BY <1>4, <1>5, MarkInv
<1>10. LeaseExclusive' BY <1>4 DEF IInv, LeaseExclusive
<1>11. TypeOK' BY RemovesType DEF IInv
<1> QED BY <1>6, <1>7, <1>8, <1>9, <1>10, <1>11 DEF IInv

(* Every mapping step, as the queue sees it.                                *)
QueueStep(b) ==
  \/ Next \/ UNCHANGED vars
  \/ \E n \in BatchSizes, v \in VisTimeouts : ReceiveMessage(b, "src", n, v, 0)
  \/ \E o \in Objects : \E gone \in SUBSET IdsOf(msgs[o]) : RemovesIds(b, o, gone)

LEMMA StepKinds ==
  ASSUME EsmTypeOK, NEW b \in Slots, EsmStep(b)
  PROVE  QueueStep(b)
<1>0. b \in Consumers /\ TypeOK /\ batch[b].obj \in Objects /\ batch[b].got \subseteq Message
  BY EsmAssumption DEF EsmTypeOK
<1>1. ASSUME NEW n \in BatchSizes, NEW v \in VisTimeouts, EsmPoll(b, n, v)
      PROVE  QueueStep(b)
  BY <1>1 DEF EsmPoll, QueueStep
<1>2. CASE EsmCollect(b)
  BY <1>0, <1>2 DEF EsmCollect, QueueStep, Next
<1>3. CASE EsmDrop(b)
  <2>1. Removed(b) \subseteq IdsOf(msgs[batch[b].obj])
    <3>1. \A m \in batch[b].got : m.pos <= m.pos BY <1>0 DEF Message
    <3> QED BY <3>1 DEF Removed
  <2>2. RemovesIds(b, batch[b].obj, Removed(b)) BY <1>3 DEF EsmDrop, RemovesIds
  <2> QED BY <1>0, <2>1, <2>2 DEF QueueStep
<1>4. CASE EsmDispatch(b) \/ EsmDispatchFails(b) \/ EsmFail(b)
  BY <1>4 DEF EsmDispatch, EsmDispatchFails, EsmFail, QueueStep
<1>5. ASSUME NEW failed \in SUBSET Matched(b), EsmSucceed(b, failed)
      PROVE  QueueStep(b)
  <2> DEFINE gone == IdsOf(Settled(b, failed))
             o    == Object("src")
  <2>1. o \in Objects BY <1>0, ObjectInObjects DEF Names
  <2>2. gone \subseteq IdsOf(msgs[o]) BY DEF Settled, IdsOf
  <2>3. CASE Exists("src")
    <3>1. RemovesIds(b, o, gone) BY <1>5, <2>3 DEF EsmSucceed, RemovesIds
    <3> QED BY <2>1, <2>2, <3>1 DEF QueueStep
  <2>4. CASE ~Exists("src")
    <3>1. gone = {} BY <2>4 DEF Settled, IdsOf
    <3>2. {m \in msgs[o] : m.id \notin {}} = msgs[o] OBVIOUS
    <3>3. msgs' = [msgs EXCEPT ![o] = {m \in @ : m.id \notin {}}]
      BY <1>0, <1>5, <2>1, <2>4, <3>2 DEF EsmSucceed, TypeOK
    <3>4. RemovesIds(b, o, {}) BY <1>5, <3>1, <3>3 DEF EsmSucceed, RemovesIds
    <3> QED BY <2>1, <3>4 DEF QueueStep
  <2> QED BY <2>3, <2>4
<1> QED BY <1>1, <1>2, <1>3, <1>4, <1>5 DEF EsmStep

-----------------------------------------------------------------------------
(* The types.                                                               *)

LEMMA QueueStepType ==
  ASSUME TypeOK, NEW b \in Slots, QueueStep(b)
  PROVE  TypeOK'
<1>0. b \in Consumers /\ "src" \in Names BY EsmAssumption DEF Names
<1>1. CASE Next \/ UNCHANGED vars BY <1>1, TypeStep
<1>2. ASSUME NEW n \in BatchSizes, NEW v \in VisTimeouts, ReceiveMessage(b, "src", n, v, 0)
      PROVE  TypeOK'
  BY <1>0, <1>2, ReceiveType
<1>3. ASSUME NEW o \in Objects, NEW gone, RemovesIds(b, o, gone) PROVE TypeOK'
  BY <1>3, RemovesType
<1> QED BY <1>1, <1>2, <1>3 DEF QueueStep

(* The states of a batch.                                                   *)
Batches == [pc : {"free", "receiving", "polled", "running"}, obj : Objects, got : SUBSET Message]

LEMMA NoBatchType == NoBatch \in Batches
<1>1. <<"src", 1>> \in {<<"src", k>> : k \in 1..Incarnations["src"]}
  BY ConstantsAssumption DEF Names
<1>2. <<"src", 1>> \in Objects BY <1>1 DEF Objects, Names
<1> QED BY <1>2 DEF NoBatch, Batches

LEMMA BatchType ==
  ASSUME EsmTypeOK, NEW b \in Slots, EsmStep(b)
  PROVE  batch' \in [Slots -> Batches]
<1>0. /\ TypeOK /\ batch \in [Slots -> Batches] /\ batch[b] \in Batches
      /\ Object("src") \in Objects
  BY ObjectInObjects DEF EsmTypeOK, Batches, Names
<1>1. ASSUME NEW n \in BatchSizes, NEW v \in VisTimeouts, EsmPoll(b, n, v)
      PROVE  batch' \in [Slots -> Batches]
  BY <1>0, <1>1 DEF EsmPoll, Batches
<1>2. CASE EsmCollect(b)
  <2> DEFINE got == First(Deliverable(batch[b].obj), call[b].max)
  <2>1. got \subseteq Message BY <1>0, FirstSubset DEF Deliverable, TypeOK, Batches
  <2>2. [batch[b] EXCEPT !.pc = "polled", !.got = got] \in Batches BY <1>0, <2>1 DEF Batches
  <2> HIDE DEF got
  <2>3. batch' = [batch EXCEPT ![b] =
                    IF got = {} THEN NoBatch ELSE [@ EXCEPT !.pc = "polled", !.got = got]]
    BY <1>2 DEF EsmCollect, got
  <2> QED BY <1>0, <2>2, <2>3, NoBatchType
<1>3. CASE EsmDispatch(b) BY <1>0, <1>3 DEF EsmDispatch, Batches
<1>4. CASE EsmDrop(b) \/ EsmDispatchFails(b) \/ EsmFail(b)
  BY <1>0, <1>4, NoBatchType DEF EsmDrop, EsmDispatchFails, EsmFail, Release
<1>5. ASSUME NEW failed, EsmSucceed(b, failed) PROVE batch' \in [Slots -> Batches]
  BY <1>0, <1>5, NoBatchType DEF EsmSucceed, Release
<1> QED BY <1>1, <1>2, <1>3, <1>4, <1>5 DEF EsmStep

LEMMA EsmTypeStep == EsmTypeOK /\ [EsmNext]_allVars => EsmTypeOK'
<1> USE EsmAssumption
<1> SUFFICES ASSUME EsmTypeOK, [EsmNext]_allVars PROVE EsmTypeOK' OBVIOUS
<1>0. \A n \in Nat : Minus1(n) \in Nat BY DEF Minus1
<1>1. CASE ClientStep
  <2>1. TypeOK' BY <1>1, ClientIsQueueStep, TypeStep DEF EsmTypeOK
  <2> QED BY <1>1, <2>1 DEF ClientStep, esmVars, EsmTypeOK
<1>2. ASSUME NEW b \in Slots, EsmStep(b) PROVE EsmTypeOK'
  <2>1. TypeOK' BY <1>2, StepKinds, QueueStepType DEF EsmTypeOK
  <2>2. batch' \in [Slots -> Batches] BY <1>2, BatchType
  <2>3. esm' = esm
    BY <1>2 DEF EsmStep, EsmPoll, EsmCollect, EsmDrop, EsmDispatch, EsmDispatchFails,
                EsmFail, EsmSucceed
  <2>4. inflight' \in Nat
    BY <1>0, <1>2 DEF EsmTypeOK, EsmStep, EsmPoll, EsmCollect, EsmDrop, EsmDispatch,
                      EsmDispatchFails, EsmFail, EsmSucceed, Release
  <2>5. backoff' \in Nat
    BY <1>2 DEF EsmTypeOK, EsmStep, EsmPoll, EsmCollect, EsmDrop, EsmDispatch,
                EsmDispatchFails, EsmFail, EsmSucceed
  <2>6. handled' \subseteq Ids
    BY <1>2 DEF EsmTypeOK, EsmStep, EsmPoll, EsmCollect, EsmDrop, EsmDispatch,
                EsmDispatchFails, EsmFail, EsmSucceed, Matched
  <2> QED BY <2>1, <2>2, <2>3, <2>4, <2>5, <2>6 DEF EsmTypeOK, Batches
<1>3. CASE EsmTick
  <2>1. TypeOK' BY <1>3, TypeStep DEF EsmTick, Next, EsmTypeOK
  <2> QED BY <1>0, <1>3, <2>1 DEF EsmTick, EsmTypeOK
<1>4. ASSUME UNCHANGED <<vars, batch, inflight, handled>>, backoff' \in {0, backoff},
             esm' \in {"Enabled", "Disabled", "Deleted"}
      PROVE  EsmTypeOK'
  <2>1. TypeOK' BY <1>4, TypeStep DEF EsmTypeOK
  <2> QED BY <1>4, <2>1 DEF EsmTypeOK
<1>5. ASSUME NEW s \in {"Enabled", "Disabled"}, UpdateEsm(s) PROVE EsmTypeOK'
  BY <1>4, <1>5 DEF UpdateEsm
<1>6. CASE DeleteEsm BY <1>4, <1>6 DEF DeleteEsm
<1>7. CASE UNCHANGED allVars BY <1>4, <1>7 DEF allVars, esmVars, EsmTypeOK
<1> QED BY <1>1, <1>2, <1>3, <1>5, <1>6, <1>7 DEF EsmNext

(* The mapping's bookkeeping and the messages its batches hold on to keep   *)
(* their types, and so does the queue under the mapping.                    *)
THEOREM EsmTypeCorrect == EsmSpec => []EsmTypeOK
<1>1. EsmInit => EsmTypeOK
  BY TypeInit, NoBatchType DEF EsmInit, EsmTypeOK, Batches
<1> QED BY <1>1, EsmTypeStep, PTL DEF EsmSpec

-----------------------------------------------------------------------------
(* Visibility timeouts are exclusive with a mapping among the consumers:    *)
(* the queue's invariant IInv survives what the mapping does to the list    *)
(* behind the queue's back.                                                 *)

LEMMA QueueStepInv ==
  ASSUME IInv, NEW b \in Slots, QueueStep(b)
  PROVE  IInv'
<1>0. b \in Consumers /\ "src" \in Names BY EsmAssumption DEF Names
<1>1. TypeOK' BY QueueStepType DEF IInv
<1>2. CASE Next \/ UNCHANGED vars BY <1>1, <1>2, Preserved
<1>3. ASSUME NEW n \in BatchSizes, NEW v \in VisTimeouts, ReceiveMessage(b, "src", n, v, 0)
      PROVE  IInv'
  <2>1. Object("src") \in Objects BY <1>0, ObjectInObjects DEF IInv
  <2> QED BY <1>1, <1>3, <2>1, SweepInv DEF ReceiveMessage, IInv
<1>4. ASSUME NEW o \in Objects, NEW gone \in SUBSET IdsOf(msgs[o]), RemovesIds(b, o, gone)
      PROVE  IInv'
  BY <1>4, RemovesInv
<1> QED BY <1>2, <1>3, <1>4 DEF QueueStep

LEMMA EsmIInvStep == IInv /\ EsmTypeOK /\ [EsmNext]_allVars => IInv'
<1> SUFFICES ASSUME IInv, EsmTypeOK, [EsmNext]_allVars PROVE IInv' OBVIOUS
<1>1. CASE \E b \in Slots : EsmStep(b) BY <1>1, StepKinds, QueueStepInv
<1>2. CASE ~ \E b \in Slots : EsmStep(b)
  <2>1. [Next]_vars
    BY <1>2, ClientIsQueueStep
    DEF EsmNext, EsmTick, UpdateEsm, DeleteEsm, allVars, Next
  <2>2. TypeOK' BY <2>1, TypeStep DEF IInv
  <2> QED BY <2>1, <2>2, Preserved
<1> QED BY <1>1, <1>2

(* A message a batch or a client is working on is given to nobody else      *)
(* while its visibility timeout runs.                                       *)
THEOREM EsmExclusive == EsmSpec => []LeaseExclusive
<1>1. EsmInit => IInv BY Initial DEF EsmInit
<1>2. IInv => LeaseExclusive BY DEF IInv
<1> QED BY <1>1, <1>2, EsmTypeCorrect, EsmIInvStep, PTL DEF EsmSpec

-----------------------------------------------------------------------------
(* The limit.  ConcurrencyBound is not inductive: the poller checks the     *)
(* counter and raises it two steps later.  The invariant adds that one      *)
(* batch at a time is between the two, and that there is room for it.       *)
Between == {b \in Slots : batch[b].pc \in {"receiving", "polled"}}

BoundInv ==
  /\ inflight = Cardinality(Running)
  /\ inflight <= Limit
  /\ \A b \in Between : inflight < Limit /\ \A c \in Between : b = c

(* A batch that ends, counted out if it was counted in.                     *)
LEMMA ReleaseBound ==
  ASSUME BoundInv, EsmTypeOK, NEW b \in Slots, NEW p, p.pc \notin {"receiving", "polled", "running"},
         batch' = [batch EXCEPT ![b] = p],
         \/ b \in Running /\ inflight' = Minus1(inflight)
         \/ b \notin Running /\ inflight' = inflight
  PROVE  BoundInv'
<1>1. \A c \in Slots : batch'[c] = IF c = b THEN p ELSE batch[c] BY DEF EsmTypeOK
<1>2. Running' = Running \ {b} BY <1>1 DEF Running
<1>3. Between' \subseteq Between BY <1>1 DEF Between
<1>4. Running \subseteq Slots /\ IsFiniteSet(Running)
  BY EsmAssumption, FS_Subset DEF Running
<1>5. inflight' = Cardinality(Running')
  <2>1. CASE b \in Running
    <3>1. Cardinality(Running \ {b}) = Cardinality(Running) - 1 BY <1>4, <2>1, FS_RemoveElement
    <3>2. inflight # 0 BY <1>4, <2>1, FS_EmptySet DEF BoundInv
    <3> QED BY <1>2, <2>1, <3>1, <3>2 DEF BoundInv, Minus1
  <2>2. CASE b \notin Running BY <1>2, <2>2 DEF BoundInv
  <2> QED BY <2>1, <2>2
<1>6. inflight' <= inflight /\ inflight' \in Nat BY DEF Minus1, EsmTypeOK
<1>7. Limit' = Limit /\ Limit \in Nat BY EsmAssumption DEF Limit
<1> QED BY <1>3, <1>5, <1>6, <1>7 DEF BoundInv, EsmTypeOK

LEMMA SameBound ==
  ASSUME BoundInv, batch' = batch, inflight' = inflight
  PROVE  BoundInv'
BY DEF BoundInv, Running, Between, Limit

LEMMA BoundStep ==
  ASSUME ~SpawnFails, BoundInv, EsmTypeOK, NEW b \in Slots, EsmStep(b)
  PROVE  BoundInv'
<1>0. Limit' = Limit /\ Limit \in Nat /\ inflight \in Nat
  BY EsmAssumption DEF Limit, EsmTypeOK
<1>1. ASSUME NEW n \in BatchSizes, NEW v \in VisTimeouts, EsmPoll(b, n, v) PROVE BoundInv'
  <2>1. \A c \in Slots : /\ c # b => batch'[c] = batch[c]
                         /\ batch'[b].pc = "receiving"
    BY <1>1 DEF EsmPoll, EsmTypeOK
  <2>2. Running' = Running BY <1>1, <2>1 DEF Running, EsmPoll
  <2>3. Between' \subseteq {b} BY <1>1, <2>1 DEF Between, EsmPoll, PollerIdle
  <2> QED BY <1>0, <1>1, <2>2, <2>3 DEF BoundInv, EsmPoll
<1>2. CASE EsmCollect(b)
  <2> DEFINE got == First(Deliverable(batch[b].obj), call[b].max)
  <2>1. CASE got = {}
    <3>1. batch' = [batch EXCEPT ![b] = NoBatch] /\ b \notin Running
      BY <1>2, <2>1 DEF EsmCollect, Running
    <3> QED BY <1>2, <3>1, ReleaseBound DEF EsmCollect, NoBatch
  <2>2. CASE got # {}
    <3>1. \A c \in Slots : /\ c # b => batch'[c] = batch[c]
                           /\ batch'[b].pc = "polled"
      BY <1>2, <2>2 DEF EsmCollect, EsmTypeOK
    <3>2. Running' = Running /\ Between' = Between
      BY <1>2, <3>1 DEF Running, Between, EsmCollect
    <3> QED BY <1>0, <1>2, <3>2 DEF BoundInv, EsmCollect
  <2> QED BY <2>1, <2>2
<1>3. CASE EsmDrop(b) BY <1>3, ReleaseBound DEF EsmDrop, NoBatch, Running
<1>4. CASE EsmDispatch(b)
  <2>1. \A c \in Slots : /\ c # b => batch'[c] = batch[c]
                         /\ batch'[b].pc = "running"
    BY <1>4 DEF EsmDispatch, EsmTypeOK
  <2>2. b \in Between /\ b \notin Running BY <1>4 DEF EsmDispatch, Between, Running
  <2>3. Running' = Running \cup {b} BY <1>4, <2>1 DEF Running
  <2>4. Between' = {} BY <2>1, <2>2 DEF BoundInv, Between
  <2>5. IsFiniteSet(Running) BY EsmAssumption, FS_Subset DEF Running
  <2>6. Cardinality(Running') = Cardinality(Running) + 1
    BY <2>2, <2>3, <2>5, FS_AddElement
  <2>7. inflight < Limit /\ inflight' = inflight + 1 BY <1>4, <2>2 DEF BoundInv, EsmDispatch
  <2> QED BY <1>0, <2>4, <2>6, <2>7 DEF BoundInv
<1>5. CASE EsmFail(b) BY <1>5, ReleaseBound DEF EsmFail, Release, NoBatch
<1>6. ASSUME NEW failed, EsmSucceed(b, failed) PROVE BoundInv'
  BY <1>6, ReleaseBound DEF EsmSucceed, Release, NoBatch
<1>7. ~ EsmDispatchFails(b) BY DEF EsmDispatchFails
<1> QED BY <1>1, <1>2, <1>3, <1>4, <1>5, <1>6, <1>7 DEF EsmStep

(* As long as threads start, the batches in flight never exceed the limit,  *)
(* and the counter is their number: whatever batches end in whatever order, *)
(* and whatever happens to the queue and the mapping meanwhile.             *)
THEOREM Bounded == ASSUME ~SpawnFails PROVE EsmSpec => []ConcurrencyBound
<1>1. EsmInit => BoundInv
  <2> SUFFICES ASSUME EsmInit PROVE BoundInv OBVIOUS
  <2>1. Running = {} /\ Between = {} BY DEF EsmInit, NoBatch, Running, Between
  <2>2. Limit \in Nat BY EsmAssumption DEF Limit
  <2> QED BY <2>1, <2>2, FS_EmptySet DEF EsmInit, BoundInv
<1>2. BoundInv /\ EsmTypeOK /\ [EsmNext]_allVars => BoundInv'
  <2> SUFFICES ASSUME BoundInv, EsmTypeOK, [EsmNext]_allVars PROVE BoundInv' OBVIOUS
  <2>1. CASE \E b \in Slots : EsmStep(b) BY <2>1, BoundStep
  <2>2. CASE ~ \E b \in Slots : EsmStep(b)
    <3>1. batch' = batch /\ inflight' = inflight
      BY <2>2 DEF EsmNext, ClientStep, EsmTick, UpdateEsm, DeleteEsm, allVars, esmVars
    <3> QED BY <3>1, SameBound
  <2> QED BY <2>1, <2>2
<1>3. BoundInv => ConcurrencyBound BY DEF BoundInv, ConcurrencyBound, Limit
<1> QED BY <1>1, <1>2, <1>3, EsmTypeCorrect, PTL DEF EsmSpec

-----------------------------------------------------------------------------
(* Of the steps that touch a batch, two delete; the others only expire.     *)
LEMMA DeletesHandled ==
  ASSUME EsmTypeOK, [EsmNext]_allVars, batch' # batch,
         NEW i \in Matching, fate[i] = "queued", fate'[i] = "deleted"
  PROVE  i \in handled'
<1>0. i \in Ids BY EsmAssumption
<1>1. PICK b \in Slots : EsmStep(b)
  BY DEF EsmNext, ClientStep, EsmTick, UpdateEsm, DeleteEsm, allVars, esmVars
<1>2. ASSUME NEW n \in BatchSizes, NEW v \in VisTimeouts, EsmPoll(b, n, v) PROVE FALSE
  BY <1>0, <1>2 DEF EsmPoll, ReceiveMessage, ExpireAndSweep, Mark
<1>3. CASE EsmCollect(b) BY <1>3 DEF EsmCollect, Collect
<1>4. CASE EsmDrop(b)
  <2>1. i \in Removed(b) BY <1>0, <1>4 DEF EsmDrop, Mark
  <2>2. i \in IdsOf(batch[b].got) BY <2>1 DEF Removed, IdsOf
  <2> QED BY <1>4, <2>2 DEF EsmDrop, Matched
<1>5. CASE EsmDispatch(b) \/ EsmDispatchFails(b) \/ EsmFail(b)
  BY <1>5 DEF EsmDispatch, EsmDispatchFails, EsmFail, vars
<1>6. ASSUME NEW failed, EsmSucceed(b, failed) PROVE i \in handled'
  <2>1. i \in IdsOf(Settled(b, failed)) BY <1>0, <1>6 DEF EsmSucceed, Mark
  <2>2. i \in IdsOf(batch[b].got) \ failed BY <2>1 DEF Settled, IdsOf
  <2> QED BY <1>6, <2>2 DEF EsmSucceed, Matched
<1> QED BY <1>1, <1>2, <1>3, <1>4, <1>5, <1>6 DEF EsmStep

(* A message that matches the filter is deleted by the mapping only after a *)
(* handler run reported it as processed, for every filter, batch size,      *)
(* number of batches at once and partial batch response.                    *)
THEOREM AtLeastOnce == EsmSpec => DeletedAreHandled
<1>1. EsmTypeOK /\ [EsmNext]_allVars =>
        [batch' # batch =>
          \A i \in Matching : fate[i] = "queued" /\ fate'[i] = "deleted" => i \in handled']_allVars
  BY DeletesHandled
<1> QED BY <1>1, EsmTypeCorrect, PTL DEF EsmSpec, DeletedAreHandled

-----------------------------------------------------------------------------
(* The order in which a mapping alone on a FIFO queue handles the messages  *)
(* of a group.  HandledInOrder follows from what the batch in flight holds: *)
(* with a message, everything before it in its group (HoldsPrefix).  A      *)
(* receive takes a prefix because what comes first is visible first         *)
(* (InLine), delays included; nothing moves to the dead-letter queue        *)
(* meanwhile because nobody receives meanwhile (Alone), also when a batch   *)
(* whose thread did not start is still counted.                             *)
Alone ==
  /\ \A b, c \in Slots : batch[b].pc # "free" /\ batch[c].pc # "free" => b = c
  /\ Running # {} => inflight > 0

Polling ==
  \A b \in Slots : batch[b].pc = "receiving" =>
    call[b].obj = batch[b].obj /\ batch[b].obj[1] = "src"

Unmade == \A o \in Objects : o[2] > made[o[1]] => msgs[o] = {}

InLine ==
  \A o \in Objects : o[1] = "src" =>
    /\ \A m \in msgs[o] : m.pos < tail[o] /\ (m.rcv = 0 => m.hidden <= attr[o].delay)
    /\ \A m, x \in msgs[o] : x.pos < m.pos =>
         /\ x.rcv = 0 /\ m.rcv = 0 => x.hidden <= m.hidden
         /\ x.group = m.group /\ m.rcv > 0 => x.rcv > 0

Holding == {b \in Slots : batch[b].pc \in {"polled", "running"}}

HoldsPrefix ==
  \A b \in Holding : \A o \in Objects : \A m \in msgs[o] :
    m.id \in IdsOf(batch[b].got) =>
      /\ o[1] = "src"
      /\ \A x \in msgs[o] :
           x.group = m.group /\ x.pos < m.pos => x.id \in IdsOf(batch[b].got)

GotSent == \A b \in Holding : \A i \in IdsOf(batch[b].got) : fate[i] # "unsent"

OrderInv == Alone /\ Polling /\ Unmade /\ InLine /\ HoldsPrefix /\ GotSent

Base == IInv /\ Grouped /\ FinitelyQueued /\ EsmTypeOK

-----------------------------------------------------------------------------
(* The steps there are when the batches are the only readers.               *)
Arrival ==
  /\ \E q \in Names, i \in Ids, g \in Groups, k \in Keys :
       Append(Object(q), i, g, k, attr[Object(q)].delay)
  /\ UNCHANGED <<made, attr, call, batch, inflight>>

(* Messages may go, and queue objects come; nothing else happens.           *)
QuietStep ==
  /\ \A o \in Objects : msgs'[o] \subseteq msgs[o]
  /\ \A o \in Objects : attr'[o] = attr[o] \/ msgs[o] = {}
  /\ \A q \in Names : made'[q] \in Nat /\ made'[q] >= made[q]
  /\ \A i \in Ids : fate[i] # "unsent" => fate'[i] # "unsent"
  /\ UNCHANGED <<tail, call, batch, inflight>>

LEMMA FifoSteps ==
  ASSUME IsFifo, Slots = Consumers, Unmade, EsmTypeOK, [EsmNext]_allVars
  PROVE  \/ \E b \in Slots : EsmStep(b)
         \/ Arrival
         \/ QuietStep
         \/ Tick /\ UNCHANGED <<batch, inflight>>
<1>0. TypeOK /\ Clients = {} BY DEF EsmTypeOK, Clients
<1>1. \A q \in Names : Object(q) \in Objects /\ made[q] \in Nat
  BY <1>0, ObjectInObjects DEF TypeOK
<1>2. ASSUME ClientStep PROVE Arrival \/ QuietStep
  <2>1. CASE Send
    BY <1>2, <2>1 DEF Send, SendStandard, SendFifo, DirectAppend, Arrival, ClientStep, esmVars
  <2>2. CASE PurgeQueue("src")
    <3>1. \A o \in Objects : msgs'[o] \subseteq msgs[o]
      BY <1>0, <2>2 DEF PurgeQueue, TypeOK
    <3> QED BY <1>1, <1>2, <2>2, <3>1 DEF PurgeQueue, QuietStep, ClientStep, esmVars, Mark
  <2>3. CASE DeleteQueue("src")
    BY <1>1, <1>2, <2>3 DEF DeleteQueue, QuietStep, ClientStep, esmVars
  <2>4. ASSUME NEW a \in Attributes["src"], CreateQueue("src", a) PROVE QuietStep
    <3> DEFINE new == <<"src", made["src"] + 1>>
    <3>1. \A o \in Objects : o # new => attr'[o] = attr[o]
      BY <1>0, <2>4 DEF CreateQueue, TypeOK
    <3>2. new \in Objects => msgs[new] = {}
      <4>1. made["src"] + 1 > made["src"] BY <1>1 DEF Names
      <4> QED BY <4>1 DEF Unmade
    <3>3. \A q \in Names : made'[q] \in Nat /\ made'[q] >= made[q]
      BY <1>0, <1>1, <2>4 DEF CreateQueue, TypeOK
    <3> QED BY <1>2, <2>4, <3>1, <3>2, <3>3 DEF CreateQueue, QuietStep, ClientStep, esmVars
  <2> QED BY <1>0, <1>2, <2>1, <2>2, <2>3, <2>4 DEF ClientStep
<1>3. ASSUME UNCHANGED <<vars, batch, inflight>> PROVE QuietStep
  BY <1>1, <1>3 DEF QuietStep, vars
<1>4. CASE EsmTick BY <1>4 DEF EsmTick
<1>5. ASSUME NEW s, UpdateEsm(s) PROVE QuietStep BY <1>3, <1>5 DEF UpdateEsm
<1>6. CASE DeleteEsm BY <1>3, <1>6 DEF DeleteEsm
<1>7. CASE UNCHANGED allVars BY <1>3, <1>7 DEF allVars, esmVars
<1> QED BY <1>2, <1>4, <1>5, <1>6, <1>7 DEF EsmNext

(* What a step of a slot does to the lists: it takes a pass over the source *)
(* queue, collects, removes, or leaves them alone.                          *)
SlotStep(b) ==
  \/ \E n, v : EsmPoll(b, n, v)
  \/ EsmCollect(b)
  \/ /\ \A o \in Objects : msgs'[o] \subseteq msgs[o]
     /\ UNCHANGED <<made, attr, tail, call>>
     /\ \A i \in Ids : fate[i] # "unsent" => fate'[i] # "unsent"
     /\ \/ EsmDispatch(b)
        \/ batch' = [batch EXCEPT ![b] = NoBatch] /\ batch[b].pc \in {"polled", "running"}

LEMMA SlotSteps ==
  ASSUME EsmTypeOK, NEW b \in Slots, EsmStep(b)
  PROVE  SlotStep(b)
<1>0. TypeOK BY DEF EsmTypeOK
<1>1. ASSUME NEW o \in Objects, NEW gone, RemovesIds(b, o, gone),
             batch' = [batch EXCEPT ![b] = NoBatch], batch[b].pc \in {"polled", "running"}
      PROVE  SlotStep(b)
  BY <1>0, <1>1 DEF RemovesIds, SlotStep, TypeOK, Mark
<1>2. CASE EsmDrop(b)
  <2>1. RemovesIds(b, batch[b].obj, Removed(b)) BY <1>2 DEF EsmDrop, RemovesIds
  <2> QED BY <1>1, <1>2, <2>1 DEF EsmDrop, EsmTypeOK
<1>3. CASE EsmDispatch(b) BY <1>3 DEF EsmDispatch, SlotStep, vars
<1>4. CASE EsmDispatchFails(b) \/ EsmFail(b)
  BY <1>4 DEF EsmDispatchFails, EsmFail, Release, Running, SlotStep, vars
<1>5. ASSUME NEW failed, EsmSucceed(b, failed) PROVE SlotStep(b)
  <2>1. \A o \in Objects : msgs'[o] \subseteq msgs[o]
    BY <1>0, <1>5 DEF EsmSucceed, TypeOK
  <2>2. fate' = Mark(IdsOf(Settled(b, failed)), "deleted") BY <1>5 DEF EsmSucceed
  <2> QED BY <1>5, <2>1, <2>2 DEF EsmSucceed, Release, Running, SlotStep, Mark
<1> QED BY <1>2, <1>3, <1>4, <1>5 DEF EsmStep, SlotStep

-----------------------------------------------------------------------------
(* What was said of the lists stays true of the messages that remain.       *)
SameSource ==
  \A o \in Objects : o[1] = "src" =>
    msgs'[o] \subseteq msgs[o] /\ tail'[o] = tail[o] /\ (attr'[o] = attr[o] \/ msgs[o] = {})

LEMMA InLineKept ==
  ASSUME InLine, SameSource
  PROVE  InLine'
<1> SUFFICES ASSUME NEW o \in Objects, o[1] = "src"
             PROVE  /\ \A m \in msgs'[o] : m.pos < tail'[o]
                         /\ (m.rcv = 0 => m.hidden <= attr'[o].delay)
                    /\ \A m, x \in msgs'[o] : x.pos < m.pos =>
                         /\ x.rcv = 0 /\ m.rcv = 0 => x.hidden <= m.hidden
                         /\ x.group = m.group /\ m.rcv > 0 => x.rcv > 0
  BY DEF InLine
<1>1. /\ msgs'[o] \subseteq msgs[o] /\ tail'[o] = tail[o]
      /\ attr'[o] = attr[o] \/ msgs[o] = {}
  BY DEF SameSource
<1>2. /\ \A m \in msgs[o] : m.pos < tail[o] /\ (m.rcv = 0 => m.hidden <= attr[o].delay)
      /\ \A m, x \in msgs[o] : x.pos < m.pos =>
           /\ x.rcv = 0 /\ m.rcv = 0 => x.hidden <= m.hidden
           /\ x.group = m.group /\ m.rcv > 0 => x.rcv > 0
  BY DEF InLine
<1> QED BY <1>1, <1>2

(* Each message that is there was there, at the same place in its group.    *)
SamePlaces ==
  /\ \A o \in Objects : \A n \in msgs'[o] :
       \E m \in msgs[o] : n.id = m.id /\ n.group = m.group /\ n.pos = m.pos
  /\ \A i \in Ids : fate[i] # "unsent" => fate'[i] # "unsent"

LEMMA HoldsKept ==
  ASSUME EsmTypeOK, HoldsPrefix, GotSent, SamePlaces, Holding' \subseteq Holding,
         \A b \in Holding' : batch'[b].got = batch[b].got
  PROVE  HoldsPrefix' /\ GotSent'
<1>1. ASSUME NEW b \in Holding', NEW o \in Objects, NEW n \in msgs'[o],
             n.id \in IdsOf(batch'[b].got)
      PROVE  /\ o[1] = "src"
             /\ \A y \in msgs'[o] :
                  y.group = n.group /\ y.pos < n.pos => y.id \in IdsOf(batch'[b].got)
  <2>1. b \in Holding /\ batch'[b].got = batch[b].got OBVIOUS
  <2>2. PICK m \in msgs[o] : n.id = m.id /\ n.group = m.group /\ n.pos = m.pos
    BY DEF SamePlaces
  <2>3. /\ o[1] = "src"
        /\ \A x \in msgs[o] :
             x.group = m.group /\ x.pos < m.pos => x.id \in IdsOf(batch[b].got)
    BY <1>1, <2>1, <2>2 DEF HoldsPrefix
  <2>4. ASSUME NEW y \in msgs'[o], y.group = n.group, y.pos < n.pos
        PROVE  y.id \in IdsOf(batch'[b].got)
    <3>1. PICK x \in msgs[o] : y.id = x.id /\ y.group = x.group /\ y.pos = x.pos
      BY DEF SamePlaces
    <3> QED BY <2>1, <2>2, <2>3, <2>4, <3>1
  <2> QED BY <2>3, <2>4
<1>2. ASSUME NEW b \in Holding', NEW i \in IdsOf(batch'[b].got) PROVE fate'[i] # "unsent"
  <2>1. b \in Holding /\ i \in IdsOf(batch[b].got) /\ b \in Slots BY DEF Holding
  <2>2. i \in Ids
    <3>1. batch[b].got \subseteq Message BY <2>1 DEF EsmTypeOK
    <3> QED BY <2>1, <3>1 DEF IdsOf, Message
  <2> QED BY <2>1, <2>2 DEF GotSent, SamePlaces
<1> QED BY <1>1, <1>2 DEF HoldsPrefix, GotSent

(* No slot begins anything.                                                 *)
LEMMA SlotsKept ==
  ASSUME Alone, Polling, UNCHANGED <<batch, inflight>>, \A b \in Slots : call'[b].obj = call[b].obj
  PROVE  Alone' /\ Polling' /\ Holding' = Holding
BY DEF Alone, Polling, Holding, Running

-----------------------------------------------------------------------------
LEMMA ArrivalOrder ==
  ASSUME Base, OrderInv, Arrival
  PROVE  OrderInv'
<1> USE DEF Base, IInv, OrderInv
<1>1. PICK q \in Names, i \in Ids, g \in Groups, k \in Keys :
              Append(Object(q), i, g, k, attr[Object(q)].delay)
  BY DEF Arrival
<1> DEFINE o   == Object(q)
           new == NewMessage(o, i, g, k, attr[o].delay)
<1>2. o \in Objects BY ObjectInObjects
<1>3. /\ new.id = i /\ new.pos = tail[o] /\ new.rcv = 0 /\ new.hidden = attr[o].delay
      /\ new.group = g
  BY DEF NewMessage
<1>4. /\ \A p \in Objects : msgs'[p] = IF p = o THEN msgs[o] \cup {new} ELSE msgs[p]
      /\ \A p \in Objects : tail'[p] = IF p = o THEN tail[o] + 1 ELSE tail[p]
      /\ \A j \in Ids : fate'[j] = IF j = i THEN "queued" ELSE fate[j]
      /\ fate[i] = "unsent"
  BY <1>1, <1>2 DEF Append, TypeOK
<1>5. UNCHANGED <<made, attr, call, batch, inflight>> BY DEF Arrival
<1>6. \A p \in Objects : \A m \in msgs[p] : m \in Message BY MessageIds
<1>7. \A p \in Objects : tail[p] \in Nat BY DEF TypeOK
<1>8. o[2] = made[q] /\ o[1] = q /\ made[q] \in Nat BY DEF Object, TypeOK
<1>9. attr[o].delay \in Nat
  <2>1. attr[o] \in Setting BY <1>2 DEF TypeOK
  <2> QED BY <2>1 DEF Setting
<1> HIDE DEF o, new
<1>10. Alone' /\ Polling' /\ Holding' = Holding BY <1>5, SlotsKept
<1>11. Unmade'
  <2>1. ~ (o[2] > made[o[1]]) BY <1>8
  <2> QED BY <1>4, <1>5, <2>1 DEF Unmade
<1>12. InLine'
  <2> SUFFICES ASSUME NEW p \in Objects, p[1] = "src"
               PROVE  /\ \A m \in msgs'[p] : m.pos < tail'[p]
                           /\ (m.rcv = 0 => m.hidden <= attr[p].delay)
                      /\ \A m, x \in msgs'[p] : x.pos < m.pos =>
                           /\ x.rcv = 0 /\ m.rcv = 0 => x.hidden <= m.hidden
                           /\ x.group = m.group /\ m.rcv > 0 => x.rcv > 0
    BY <1>5 DEF InLine
  <2>1. /\ \A m \in msgs[p] : m.pos < tail[p] /\ (m.rcv = 0 => m.hidden <= attr[p].delay)
        /\ \A m, x \in msgs[p] : x.pos < m.pos =>
             /\ x.rcv = 0 /\ m.rcv = 0 => x.hidden <= m.hidden
             /\ x.group = m.group /\ m.rcv > 0 => x.rcv > 0
    BY DEF InLine
  <2>2. CASE p # o BY <1>4, <2>1, <2>2
  <2>3. CASE p = o
    <3>1. \A m \in msgs'[p] : m \in msgs[p] \/ m = new BY <1>4, <2>3
    <3>2. \A m \in msgs[p] : m.pos \in Nat /\ m.hidden \in Nat BY <1>6 DEF Message
    <3>3. tail'[p] = tail[p] + 1 /\ tail[p] \in Nat BY <1>4, <1>7, <2>3
    <3>4. new.pos = tail[p] /\ new.rcv = 0 /\ new.hidden = attr[p].delay /\ attr[p].delay \in Nat
      BY <1>3, <1>9, <2>3
    <3>5. ASSUME NEW m \in msgs'[p]
          PROVE  m.pos < tail'[p] /\ (m.rcv = 0 => m.hidden <= attr[p].delay)
      BY <2>1, <3>1, <3>2, <3>3, <3>4
    <3>6. ASSUME NEW m \in msgs'[p], NEW x \in msgs'[p], x.pos < m.pos
          PROVE  /\ x.rcv = 0 /\ m.rcv = 0 => x.hidden <= m.hidden
                 /\ x.group = m.group /\ m.rcv > 0 => x.rcv > 0
      <4>1. x \in msgs[p]
        <5>1. x # new BY <2>1, <3>1, <3>2, <3>3, <3>4, <3>6
        <5> QED BY <3>1, <5>1
      <4>2. CASE m \in msgs[p] BY <2>1, <3>6, <4>1, <4>2
      <4>3. CASE m = new BY <2>1, <3>4, <4>1, <4>3
      <4> QED BY <3>1, <4>2, <4>3
    <3> QED BY <3>5, <3>6
  <2> QED BY <2>2, <2>3
<1>13. HoldsPrefix' /\ GotSent'
  <2>1. \A b \in Holding : i \notin IdsOf(batch[b].got) BY <1>4 DEF GotSent
  <2>2. ASSUME NEW b \in Holding, NEW p \in Objects, NEW m \in msgs'[p],
               m.id \in IdsOf(batch[b].got)
        PROVE  /\ p[1] = "src"
               /\ \A x \in msgs'[p] :
                    x.group = m.group /\ x.pos < m.pos => x.id \in IdsOf(batch[b].got)
    <3>1. m \in msgs[p] BY <1>3, <1>4, <2>1, <2>2
    <3>2. /\ p[1] = "src"
          /\ \A x \in msgs[p] :
               x.group = m.group /\ x.pos < m.pos => x.id \in IdsOf(batch[b].got)
      BY <2>2, <3>1 DEF HoldsPrefix
    <3>3. m.pos < tail[p] /\ m.pos \in Nat /\ tail[p] \in Nat
      BY <1>6, <1>7, <3>1, <3>2 DEF InLine, Message
    <3>4. ASSUME NEW x \in msgs'[p], x.pos < m.pos PROVE x \in msgs[p]
      BY <1>3, <1>4, <3>3, <3>4
    <3> QED BY <3>2, <3>4
  <2>3. ASSUME NEW b \in Holding, NEW j \in IdsOf(batch[b].got) PROVE fate'[j] # "unsent"
    <3>1. j \in Ids
      <4>1. batch[b].got \subseteq Message BY DEF Holding, EsmTypeOK
      <4> QED BY <4>1 DEF IdsOf, Message
    <3> QED BY <1>4, <3>1 DEF GotSent
  <2> QED BY <1>5, <1>10, <2>2, <2>3 DEF HoldsPrefix, GotSent
<1> QED BY <1>10, <1>11, <1>12, <1>13

LEMMA QuietOrder ==
  ASSUME Base, OrderInv, QuietStep
  PROVE  OrderInv'
<1> USE DEF OrderInv
<1>1. Alone' /\ Polling' /\ Holding' = Holding BY SlotsKept DEF QuietStep
<1>2. Unmade'
  <2>1. ASSUME NEW o \in Objects, o[2] > made'[o[1]] PROVE o[2] > made[o[1]]
    <3>1. o[1] \in Names /\ made'[o[1]] \in Nat /\ made'[o[1]] >= made[o[1]]
      BY ObjectNames DEF QuietStep
    <3>2. made[o[1]] \in Nat BY <3>1 DEF Base, IInv, TypeOK
    <3>3. o[2] \in Nat BY ConstantsAssumption DEF Objects
    <3> QED BY <2>1, <3>1, <3>2, <3>3
  <2> QED BY <2>1 DEF Unmade, QuietStep
<1>3. InLine' BY InLineKept DEF QuietStep, SameSource
<1>4. HoldsPrefix' /\ GotSent'
  <2>1. SamePlaces BY DEF QuietStep, SamePlaces
  <2> QED BY <1>1, <2>1, HoldsKept DEF QuietStep, Base
<1> QED BY <1>1, <1>2, <1>3, <1>4

LEMMA TickImage ==
  ASSUME TypeOK, Tick, NEW o \in Objects, NEW n \in msgs'[o]
  PROVE  \E m \in msgs[o] : /\ n.id = m.id /\ n.group = m.group /\ n.pos = m.pos /\ n.rcv = m.rcv
                            /\ n.hidden = Minus1(m.hidden) /\ m.hidden \in Nat
<1>1. PICK m \in msgs[o] : n = [m EXCEPT !.hidden = Minus1(@), !.age = Plus1(@, MaxAge)]
  BY DEF Tick
<1>2. m \in Message BY DEF TypeOK
<1> QED BY <1>1, <1>2 DEF Message

LEMMA TickOrder ==
  ASSUME Base, OrderInv, Tick, UNCHANGED <<batch, inflight>>
  PROVE  OrderInv'
<1> USE DEF Base, IInv, OrderInv
<1>0. UNCHANGED <<made, attr, tail, fate>> BY DEF Tick
<1>1. Alone' /\ Polling' /\ Holding' = Holding
  <2>1. \A b \in Slots : call'[b].obj = call[b].obj
    <3> SUFFICES ASSUME NEW b \in Slots PROVE call'[b].obj = call[b].obj OBVIOUS
    <3>1. b \in Consumers BY EsmAssumption
    <3>2. call'[b] = [call[b] EXCEPT !.wait = Minus1(@)] BY <3>1 DEF Tick
    <3>3. call[b] \in Call \cup {IdleCall} BY <3>1 DEF TypeOK
    <3> QED BY <3>2, <3>3 DEF Call, IdleCall
  <2> QED BY <2>1, SlotsKept
<1>2. Unmade' BY <1>0, TickImage DEF Unmade
<1>3. InLine'
  <2> SUFFICES ASSUME NEW o \in Objects, o[1] = "src"
               PROVE  /\ \A m \in msgs'[o] : m.pos < tail[o]
                           /\ (m.rcv = 0 => m.hidden <= attr[o].delay)
                      /\ \A m, x \in msgs'[o] : x.pos < m.pos =>
                           /\ x.rcv = 0 /\ m.rcv = 0 => x.hidden <= m.hidden
                           /\ x.group = m.group /\ m.rcv > 0 => x.rcv > 0
    BY <1>0 DEF InLine
  <2>1. /\ \A m \in msgs[o] : m.pos < tail[o] /\ (m.rcv = 0 => m.hidden <= attr[o].delay)
        /\ \A m, x \in msgs[o] : x.pos < m.pos =>
             /\ x.rcv = 0 /\ m.rcv = 0 => x.hidden <= m.hidden
             /\ x.group = m.group /\ m.rcv > 0 => x.rcv > 0
    BY DEF InLine
  <2>2. attr[o].delay \in Nat
    <3>1. attr[o] \in Setting BY DEF TypeOK
    <3> QED BY <3>1 DEF Setting
  <2>3. \A h, k \in Nat : h <= k => Minus1(h) <= Minus1(k) /\ Minus1(h) <= k BY DEF Minus1
  <2>4. ASSUME NEW n \in msgs'[o]
        PROVE  n.pos < tail[o] /\ (n.rcv = 0 => n.hidden <= attr[o].delay)
    BY <2>1, <2>2, <2>3, TickImage
  <2>5. ASSUME NEW n \in msgs'[o], NEW y \in msgs'[o], y.pos < n.pos
        PROVE  /\ y.rcv = 0 /\ n.rcv = 0 => y.hidden <= n.hidden
               /\ y.group = n.group /\ n.rcv > 0 => y.rcv > 0
    <3>1. PICK m \in msgs[o] : /\ n.group = m.group /\ n.pos = m.pos /\ n.rcv = m.rcv
                               /\ n.hidden = Minus1(m.hidden) /\ m.hidden \in Nat
      BY TickImage
    <3>2. PICK x \in msgs[o] : /\ y.group = x.group /\ y.pos = x.pos /\ y.rcv = x.rcv
                               /\ y.hidden = Minus1(x.hidden) /\ x.hidden \in Nat
      BY TickImage
    <3> QED BY <2>1, <2>3, <2>5, <3>1, <3>2
  <2> QED BY <2>4, <2>5
<1>4. HoldsPrefix' /\ GotSent'
  <2>1. SamePlaces BY <1>0, TickImage DEF SamePlaces
  <2> QED BY <1>1, <2>1, HoldsKept
<1> QED BY <1>1, <1>2, <1>3, <1>4

-----------------------------------------------------------------------------
(* The poller takes a pass over the queue only while no batch holds any     *)
(* message.                                                                 *)
LEMMA PollOrder ==
  ASSUME IsFifo, Base, OrderInv, NEW b \in Slots, NEW n, NEW v, EsmPoll(b, n, v)
  PROVE  OrderInv'
<1> USE DEF Base, OrderInv
<1> DEFINE o == Object("src")
<1>1. /\ o \in Objects /\ o[1] = "src" /\ ExpireAndSweep(o) /\ UNCHANGED <<made, attr>>
      /\ Object("dlq")[2] = made["dlq"] /\ made["dlq"] \in Nat
  BY ObjectInObjects DEF Names, EsmPoll, ReceiveMessage, IInv, TypeOK, Object
<1>2. \A c \in Slots : batch[c].pc = "free"
  <2>1. inflight = 0 BY DEF EsmPoll, Limit, EsmTypeOK
  <2>2. Running = {} BY <2>1 DEF Alone
  <2>3. \A c \in Slots : batch[c].pc \in {"free", "receiving", "polled", "running"}
    BY DEF EsmTypeOK
  <2> QED BY <2>2, <2>3 DEF Running, EsmPoll, PollerIdle
<1>3. /\ \A c \in Slots \ {b} : batch'[c].pc = "free"
      /\ batch'[b].pc = "receiving" /\ batch'[b].obj = o
  BY <1>2 DEF EsmPoll, EsmTypeOK
<1>4. Alone' /\ Holding' = {} BY <1>3 DEF Alone, Holding, Running
<1>5. Polling'
  <2>1. b \in Consumers BY EsmAssumption
  <2>2. call'[b].obj = o
    BY <2>1 DEF EsmPoll, ReceiveMessage, IInv, TypeOK
  <2> QED BY <1>1, <1>3, <2>2 DEF Polling
<1> HIDE DEF o
<1>6. /\ \A p \in Objects : p # Object("dlq") => msgs'[p] \subseteq msgs[p]
      /\ \A p \in Objects : p[1] = "src" => p # Object("dlq")
      /\ \A p \in Objects : p # Object("dlq") => tail'[p] = tail[p]
  <2>1. \A p \in Objects : p # Object("dlq") => msgs'[p] \subseteq msgs[p]
    BY <1>1, SweepLists DEF Retained
  <2>2. Object("dlq")[1] = "dlq" BY DEF Object
  <2>3. \A p \in Objects : p # Object("dlq") => tail'[p] = tail[p]
    BY <1>1 DEF ExpireAndSweep, IInv, TypeOK
  <2> QED BY <2>1, <2>2, <2>3
<1>7. Unmade'
  <2> SUFFICES ASSUME NEW p \in Objects, p[2] > made[p[1]] PROVE msgs'[p] = {}
    BY <1>1 DEF Unmade
  <2>1. p # Object("dlq")
    <3>1. Object("dlq")[1] = "dlq" BY DEF Object
    <3>2. ~ (made["dlq"] > made["dlq"]) BY <1>1
    <3> QED BY <1>1, <3>1, <3>2
  <2> QED BY <1>6, <2>1 DEF Unmade
<1>8. InLine' BY <1>1, <1>6, InLineKept DEF SameSource
<1>9. HoldsPrefix' /\ GotSent' BY <1>4 DEF HoldsPrefix, GotSent
<1> QED BY <1>4, <1>5, <1>7, <1>8, <1>9

-----------------------------------------------------------------------------
(* What Collect takes from a group is the beginning of it.                  *)
LEMMA CollectsPrefix ==
  ASSUME IsFifo, Base, InLine, NEW c \in Consumers, Collect(c), call[c].obj[1] = "src",
         NEW m \in Got(c), NEW x \in msgs[call[c].obj], x.group = m.group, x.pos < m.pos
  PROVE  x \in Got(c)
<1> USE DEF Base
<1> DEFINE o == call[c].obj
<1>1. o \in Objects /\ m \in Deliverable(o) /\ Deliverable(o) \subseteq msgs[o]
  BY CollectDelivers
<1>2. \A y \in msgs[o] : y \in Message BY <1>1, MessageIds DEF IInv
<1>3. \A y \in msgs[o] : y.pos \in Nat /\ y.hidden \in Nat /\ y.rcv \in Nat BY <1>2 DEF Message
<1>4. ~ InFlight(x) BY <1>1, DeliverableAlone DEF IInv
<1>5. Visible(x)
  <2>1. CASE x.rcv > 0 BY <1>3, <1>4, <2>1 DEF InFlight, Visible
  <2>2. CASE x.rcv = 0
    <3>1. m \in msgs[o] /\ ~ (m.rcv > 0) BY <1>1, <2>2 DEF InLine
    <3>2. m.rcv = 0 BY <1>3, <3>1
    <3>3. x.hidden <= m.hidden BY <1>1, <2>2, <3>1, <3>2 DEF InLine
    <3>4. m.hidden = 0 BY <1>1 DEF Deliverable, Visible
    <3> QED BY <1>3, <3>3, <3>4 DEF Visible
  <2> QED BY <1>3, <2>1, <2>2
<1>6. x \in Deliverable(o) BY <1>1, <1>5 DEF Deliverable
<1>7. IsFiniteSet(Deliverable(o)) BY <1>1, FiniteLists, FS_Subset DEF FinitelyQueued
<1>8. call[c].max \in Nat
  <2>1. call[c] \in Call BY DEF IInv, Collect, TypeOK, IdleCall
  <2> QED BY <2>1, ConstantsAssumption DEF Call
<1> HIDE DEF o
<1>9. \A y \in Deliverable(o) : y.pos \in Nat BY <1>1, <1>3
<1>10. m \in First(Deliverable(o), call[c].max) BY DEF Got, o
<1>11. x \in First(Deliverable(o), call[c].max)
  BY <1>6, <1>7, <1>8, <1>9, <1>10, FirstIsPrefix
<1> QED BY <1>11 DEF Got, o

(* The messages after a collection, field by field.                         *)
LEMMA CollectImage ==
  ASSUME IInv, NEW c \in Consumers, Collect(c), NEW o \in Objects, NEW n \in msgs'[o]
  PROVE  \E m \in msgs[o] :
           /\ n.id = m.id /\ n.group = m.group /\ n.pos = m.pos
           /\ \/ n = m /\ (o = call[c].obj => m \notin Got(c))
              \/ o = call[c].obj /\ m \in Got(c) /\ n.rcv = m.rcv + 1 /\ m.rcv \in Nat
<1>1. msgs' = [msgs EXCEPT ![call[c].obj] =
                 {IF m \in Got(c) THEN Delivered(m, c, call[c].vis) ELSE m : m \in @}]
  BY DEF Collect, Got
<1>2. CASE o # call[c].obj BY <1>1, <1>2 DEF IInv, TypeOK
<1>3. CASE o = call[c].obj
  <2>1. msgs'[o] = {IF m \in Got(c) THEN Delivered(m, c, call[c].vis) ELSE m : m \in msgs[o]}
    BY <1>1, <1>3 DEF IInv, TypeOK
  <2>2. PICK m \in msgs[o] : n = IF m \in Got(c) THEN Delivered(m, c, call[c].vis) ELSE m
    BY <2>1
  <2>3. m \in Message BY MessageIds DEF IInv
  <2>4. CASE m \in Got(c)
    <3>1. n = Delivered(m, c, call[c].vis) BY <2>2, <2>4
    <3>2. /\ n.id = m.id /\ n.group = m.group /\ n.pos = m.pos /\ n.rcv = m.rcv + 1
          /\ m.rcv \in Nat
      BY <2>3, <3>1 DEF Delivered, Message
    <3> QED BY <1>3, <2>4, <3>2
  <2>5. CASE m \notin Got(c) BY <2>2, <2>5
  <2> QED BY <2>4, <2>5
<1> QED BY <1>2, <1>3

LEMMA CollectOrder ==
  ASSUME IsFifo, Base, OrderInv, NEW b \in Slots, EsmCollect(b)
  PROVE  OrderInv'
<1> USE DEF Base, IInv, OrderInv
<1> DEFINE o   == call[b].obj
           got == First(Deliverable(batch[b].obj), call[b].max)
<1>1. /\ b \in Consumers /\ batch[b].pc = "receiving" /\ Collect(b)
      /\ batch[b].obj = o /\ o[1] = "src" /\ got = Got(b)
      /\ batch' = [batch EXCEPT ![b] =
           IF got = {} THEN NoBatch ELSE [@ EXCEPT !.pc = "polled", !.got = got]]
      /\ UNCHANGED <<made, attr, tail, fate, inflight>>
  BY EsmAssumption DEF EsmCollect, Collect, Polling, Got
<1>2. o \in Objects /\ \A m \in Got(b) : m \in msgs[o] BY <1>1, CollectDelivers
<1>3. \A c \in Slots : c # b => batch[c].pc = "free" /\ batch'[c] = batch[c]
  BY <1>1 DEF Alone, EsmTypeOK
<1>4. /\ got = {} => batch'[b].pc = "free"
      /\ got # {} => batch'[b].pc = "polled" /\ batch'[b].got = Got(b)
  BY <1>1 DEF EsmTypeOK, NoBatch
<1> HIDE DEF got, o
<1>5. Alone' /\ Polling' BY <1>3, <1>4 DEF Alone, Polling, Running
<1>6. Unmade' BY <1>1, CollectImage DEF Unmade
<1>7. \A p \in Objects : \A m \in msgs[p] : m.rcv \in Nat
  <2>1. \A p \in Objects : \A m \in msgs[p] : m \in Message BY MessageIds
  <2> QED BY <2>1 DEF Message
<1>8. ASSUME NEW p \in Objects, NEW n \in msgs'[p], NEW m \in msgs[p],
             n = m \/ n.rcv = m.rcv + 1
      PROVE  /\ n.rcv = 0 => n = m
             /\ m.rcv > 0 => n.rcv > 0
  BY <1>7, <1>8
<1>9. InLine'
  <2> SUFFICES ASSUME NEW p \in Objects, p[1] = "src"
               PROVE  /\ \A n \in msgs'[p] : n.pos < tail[p]
                           /\ (n.rcv = 0 => n.hidden <= attr[p].delay)
                      /\ \A n, y \in msgs'[p] : y.pos < n.pos =>
                           /\ y.rcv = 0 /\ n.rcv = 0 => y.hidden <= n.hidden
                           /\ y.group = n.group /\ n.rcv > 0 => y.rcv > 0
    BY <1>1 DEF InLine
  <2>1. /\ \A m \in msgs[p] : m.pos < tail[p] /\ (m.rcv = 0 => m.hidden <= attr[p].delay)
        /\ \A m, x \in msgs[p] : x.pos < m.pos =>
             /\ x.rcv = 0 /\ m.rcv = 0 => x.hidden <= m.hidden
             /\ x.group = m.group /\ m.rcv > 0 => x.rcv > 0
    BY DEF InLine
  <2>2. ASSUME NEW n \in msgs'[p]
        PROVE  n.pos < tail[p] /\ (n.rcv = 0 => n.hidden <= attr[p].delay)
    <3>1. PICK m \in msgs[p] : n.pos = m.pos /\ (n = m \/ n.rcv = m.rcv + 1)
      BY <1>1, CollectImage
    <3> QED BY <1>8, <2>1, <3>1
  <2>3. ASSUME NEW n \in msgs'[p], NEW y \in msgs'[p], y.pos < n.pos
        PROVE  /\ y.rcv = 0 /\ n.rcv = 0 => y.hidden <= n.hidden
               /\ y.group = n.group /\ n.rcv > 0 => y.rcv > 0
    <3>1. PICK m \in msgs[p] :
            /\ n.group = m.group /\ n.pos = m.pos
            /\ \/ n = m
               \/ p = o /\ m \in Got(b) /\ n.rcv = m.rcv + 1
      BY <1>1, CollectImage DEF o
    <3>2. PICK x \in msgs[p] :
            /\ y.group = x.group /\ y.pos = x.pos
            /\ \/ y = x /\ (p = o => x \notin Got(b))
               \/ y.rcv = x.rcv + 1
      BY <1>1, CollectImage DEF o
    <3>3. y.rcv = 0 /\ n.rcv = 0 => y.hidden <= n.hidden BY <1>8, <2>1, <2>3, <3>1, <3>2
    <3>4. ASSUME y.group = n.group, n.rcv > 0 PROVE y.rcv > 0
      <4>1. CASE n = m BY <1>8, <2>1, <2>3, <3>1, <3>2, <3>4, <4>1
      <4>2. CASE p = o /\ m \in Got(b)
        <5>1. x \in Got(b)
          BY <1>1, <2>3, <3>1, <3>2, <3>4, <4>2, CollectsPrefix DEF o
        <5>2. y.rcv = x.rcv + 1 BY <3>2, <4>2, <5>1
        <5> QED BY <1>7, <5>2
      <4> QED BY <3>1, <4>1, <4>2
    <3> QED BY <3>3, <3>4
  <2> QED BY <2>2, <2>3
<1>10. HoldsPrefix' /\ GotSent'
  <2>1. Holding' \subseteq {b} /\ (got = {} => Holding' = {}) BY <1>3, <1>4 DEF Holding
  <2>2. CASE got = {} BY <2>1, <2>2 DEF HoldsPrefix, GotSent
  <2>3. CASE got # {}
    <3>1. batch'[b].got = Got(b) BY <1>4, <2>3
    <3>2. ASSUME NEW p \in Objects, NEW n \in msgs'[p], n.id \in IdsOf(Got(b))
          PROVE  /\ p[1] = "src"
                 /\ \A y \in msgs'[p] : y.group = n.group /\ y.pos < n.pos => y.id \in IdsOf(Got(b))
      <4>1. PICK m \in msgs[p] : n.id = m.id /\ n.group = m.group /\ n.pos = m.pos
        BY <1>1, CollectImage
      <4>2. PICK g \in Got(b) : n.id = g.id BY <3>2 DEF IdsOf
      <4>3. p = o /\ m = g BY <1>2, <4>1, <4>2 DEF UniqueCopy
      <4>4. ASSUME NEW y \in msgs'[p], y.group = n.group, y.pos < n.pos
            PROVE  y.id \in IdsOf(Got(b))
        <5>1. PICK x \in msgs[p] : y.id = x.id /\ y.group = x.group /\ y.pos = x.pos
          BY <1>1, CollectImage
        <5>2. x \in Got(b) BY <1>1, <4>1, <4>2, <4>3, <4>4, <5>1, CollectsPrefix DEF o
        <5> QED BY <5>1, <5>2 DEF IdsOf
      <4> QED BY <1>1, <4>3, <4>4
    <3>3. ASSUME NEW i \in IdsOf(Got(b)) PROVE fate'[i] # "unsent"
      <4>1. PICK g \in Got(b) : i = g.id BY DEF IdsOf
      <4>2. fate[i] = "queued" BY <1>2, <4>1 DEF Queued
      <4> QED BY <1>1, <4>2
    <3> QED BY <2>1, <3>1, <3>2, <3>3 DEF HoldsPrefix, GotSent
  <2> QED BY <2>2, <2>3
<1> QED BY <1>5, <1>6, <1>9, <1>10

LEMMA SlotOrder ==
  ASSUME IsFifo, Base, OrderInv, NEW b \in Slots, EsmStep(b)
  PROVE  OrderInv'
<1> USE DEF Base, OrderInv
<1>1. CASE \E n, v : EsmPoll(b, n, v) BY <1>1, PollOrder
<1>2. CASE EsmCollect(b) BY <1>2, CollectOrder
<1>3. ASSUME \A o \in Objects : msgs'[o] \subseteq msgs[o],
             UNCHANGED <<made, attr, tail, call>>,
             \A i \in Ids : fate[i] # "unsent" => fate'[i] # "unsent",
             \/ EsmDispatch(b)
             \/ batch' = [batch EXCEPT ![b] = NoBatch] /\ batch[b].pc \in {"polled", "running"}
      PROVE  OrderInv'
  <2>1. Unmade' BY <1>3 DEF Unmade
  <2>2. InLine' BY <1>3, InLineKept DEF SameSource
  <2>3. SamePlaces BY <1>3 DEF SamePlaces
  <2>4. CASE EsmDispatch(b)
    <3>1. /\ batch[b].pc = "polled" /\ inflight' = inflight + 1 /\ inflight \in Nat
          /\ \A c \in Slots : c # b => batch'[c] = batch[c]
          /\ batch'[b].pc = "running" /\ batch'[b].got = batch[b].got
          /\ batch'[b].obj = batch[b].obj
      BY <2>4 DEF EsmDispatch, EsmTypeOK
    <3>2. Alone' BY <3>1 DEF Alone
    <3>3. Polling' BY <1>3, <3>1 DEF Polling
    <3>4. Holding' = Holding /\ \A c \in Holding : batch'[c].got = batch[c].got
      BY <3>1 DEF Holding
    <3> QED BY <2>1, <2>2, <2>3, <3>2, <3>3, <3>4, HoldsKept
  <2>5. CASE batch' = [batch EXCEPT ![b] = NoBatch] /\ batch[b].pc \in {"polled", "running"}
    <3>1. NoBatch.pc = "free" BY DEF NoBatch
    <3>2. \A c \in Slots : batch'[c] = IF c = b THEN NoBatch ELSE batch[c]
      BY <2>5 DEF EsmTypeOK
    <3>3. \A c \in Slots : batch'[c].pc = "free" BY <2>5, <3>1, <3>2 DEF Alone
    <3>4. Alone' /\ Polling' BY <3>3 DEF Alone, Polling, Running
    <3>5. HoldsPrefix' /\ GotSent' BY <3>3 DEF HoldsPrefix, GotSent, Holding
    <3> QED BY <2>1, <2>2, <3>4, <3>5
  <2> QED BY <1>3, <2>4, <2>5
<1> QED BY <1>1, <1>2, <1>3, SlotSteps DEF SlotStep

(* The queue's groups and the finitely many messages in it, under a mapping.*)
LEMMA EsmGroupedStep ==
  IInv /\ Grouped /\ FinitelyQueued /\ EsmTypeOK /\ [EsmNext]_allVars => Grouped' /\ FinitelyQueued'
<1> SUFFICES ASSUME IInv, Grouped, FinitelyQueued, EsmTypeOK, [EsmNext]_allVars
             PROVE  Grouped' /\ FinitelyQueued'
  OBVIOUS
<1>1. ASSUME [Next]_vars PROVE Grouped' /\ FinitelyQueued'
  BY <1>1, GroupedStep, FiniteStep DEF IInv
<1>2. CASE ~ \E b \in Slots : EsmStep(b)
  <2>1. [Next]_vars
    BY <1>2, ClientIsQueueStep DEF EsmNext, EsmTick, UpdateEsm, DeleteEsm, allVars, Next
  <2> QED BY <1>1, <2>1
<1>3. ASSUME NEW f, f # "queued", NEW ids, fate' = Mark(ids, f) PROVE FinitelyQueued'
  <2>1. QueuedIds' \subseteq QueuedIds BY <1>3 DEF Mark, QueuedIds
  <2> QED BY <2>1, FS_Subset DEF FinitelyQueued
<1>4. ASSUME NEW b \in Slots, NEW n, NEW v, ReceiveMessage(b, "src", n, v, 0)
      PROVE  Grouped' /\ FinitelyQueued'
  <2>1. Object("src") \in Objects BY ObjectInObjects DEF IInv, Names
  <2>2. DeliversNothing BY <1>4, <2>1, SweepArrives DEF ReceiveMessage
  <2>3. Grouped' BY <2>2 DEF DeliversNothing, Endures, Arrives, Grouped
  <2>4. FinitelyQueued' BY <1>3, <1>4 DEF ReceiveMessage, ExpireAndSweep
  <2> QED BY <2>3, <2>4
<1>5. ASSUME NEW b \in Slots, NEW o \in Objects, NEW gone, RemovesIds(b, o, gone)
      PROVE  Grouped' /\ FinitelyQueued'
  <2>1. \A p \in Objects : msgs'[p] \subseteq msgs[p] BY <1>5 DEF RemovesIds, IInv, TypeOK
  <2>2. Grouped' BY <2>1 DEF Grouped
  <2>3. FinitelyQueued' BY <1>3, <1>5 DEF RemovesIds
  <2> QED BY <2>2, <2>3
<1>6. ASSUME NEW b \in Slots, EsmStep(b) PROVE Grouped' /\ FinitelyQueued'
  BY <1>1, <1>4, <1>5, <1>6, StepKinds DEF QueueStep
<1> QED BY <1>2, <1>6

LEMMA OrderStep ==
  ASSUME IsFifo, Slots = Consumers
  PROVE  Base /\ OrderInv /\ [EsmNext]_allVars => OrderInv'
<1> SUFFICES ASSUME Base, OrderInv, [EsmNext]_allVars PROVE OrderInv' OBVIOUS
<1> QED BY FifoSteps, SlotOrder, ArrivalOrder, QuietOrder, TickOrder DEF Base, OrderInv

(* Only a batch that succeeds reports, and it reports all that passed.      *)
LEMMA HandlesInOrder ==
  ASSUME ~PartialFailures, Base, HoldsPrefix, [EsmNext]_allVars,
         NEW o \in Objects, NEW m \in msgs[o], NEW x \in msgs[o],
         m.id \in handled' \ handled, x.id \in Matching, x.group = m.group, x.pos < m.pos
  PROVE  x.id \in handled'
<1>0. PICK b \in Slots : \E failed : EsmSucceed(b, failed)
  BY DEF EsmNext, ClientStep, EsmTick, UpdateEsm, DeleteEsm, allVars, esmVars, EsmStep, EsmPoll,
         EsmCollect, EsmDrop, EsmDispatch, EsmDispatchFails, EsmFail
<1>1. PICK failed : EsmSucceed(b, failed) BY <1>0
<1>2. b \in Holding /\ failed = {} /\ handled' = handled \cup Matched(b)
  BY <1>1 DEF EsmSucceed, Running, Holding
<1>3. m.id \in IdsOf(batch[b].got) BY <1>2 DEF Matched
<1>4. x.id \in IdsOf(batch[b].got) BY <1>2, <1>3 DEF HoldsPrefix
<1> QED BY <1>2, <1>4 DEF Matched

(* A mapping that is the only reader of a FIFO queue handles the messages   *)
(* of a group in send order, whatever fails, expires, is delayed, purged,   *)
(* re-created or swept to the dead-letter queue meanwhile, and however      *)
(* short the visibility timeout is.  (No action of EsmSpec changes the      *)
(* settings of a queue that exists: a DelaySeconds lowered under delayed    *)
(* messages lets later ones overtake them.)                                 *)
THEOREM InGroupOrder ==
  ASSUME IsFifo, ~PartialFailures, Slots = Consumers
  PROVE  EsmSpec => HandledInOrder
<1>1. EsmInit => Base /\ OrderInv
  <2> SUFFICES ASSUME EsmInit PROVE Base /\ OrderInv OBVIOUS
  <2>1. QueuedIds = {} BY DEF EsmInit, Init, QueuedIds
  <2>2. IInv /\ Grouped /\ FinitelyQueued
    BY <2>1, Initial, FS_EmptySet DEF EsmInit, Init, Grouped, FinitelyQueued
  <2>3. EsmTypeOK BY TypeInit, NoBatchType DEF EsmInit, EsmTypeOK, Batches
  <2>4. Running = {} /\ Holding = {} BY DEF EsmInit, NoBatch, Running, Holding
  <2>5. Alone /\ Polling BY <2>4 DEF EsmInit, NoBatch, Alone, Polling
  <2>6. Unmade /\ InLine BY DEF EsmInit, Init, Unmade, InLine
  <2>7. HoldsPrefix /\ GotSent BY <2>4 DEF HoldsPrefix, GotSent
  <2> QED BY <2>2, <2>3, <2>5, <2>6, <2>7 DEF Base, OrderInv
<1>2. Base /\ OrderInv /\ [EsmNext]_allVars => Base' /\ OrderInv'
  <2> SUFFICES ASSUME Base, OrderInv, [EsmNext]_allVars PROVE Base' /\ OrderInv' OBVIOUS
  <2>1. Base' BY EsmIInvStep, EsmTypeStep, EsmGroupedStep DEF Base
  <2> QED BY <2>1, OrderStep
<1>3. Base /\ OrderInv /\ [EsmNext]_allVars =>
        [\A o \in Objects : \A m, x \in msgs[o] :
           /\ m.id \in handled' \ handled
           /\ x.id \in Matching /\ x.group = m.group /\ x.pos < m.pos
           => x.id \in handled']_allVars
  BY HandlesInOrder DEF OrderInv
<1> QED BY <1>1, <1>2, <1>3, PTL DEF EsmSpec, HandledInOrder

(* So does one that nobody touches.                                         *)
COROLLARY UndisturbedInOrder ==
  ASSUME IsFifo, ~PartialFailures, Slots = Consumers
  PROVE  UndisturbedSpec => HandledInOrder
<1>1. [UndisturbedNext]_allVars => [EsmNext]_allVars
  BY DEF UndisturbedNext, EsmNext, ClientStep
<1> QED BY <1>1, InGroupOrder, PTL DEF UndisturbedSpec, EsmSpec
=============================================================================
