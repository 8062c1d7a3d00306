------------------------------ MODULE Mailbox ------------------------------
(***************************************************************************)
(* What a queue with a dead-letter queue promises its clients, without its *)
(* lists, handles and clocks.  A message is in one queue at a time.  It    *)
(* may be promised to the consumer that received it last; as long as the   *)
(* promise runs nobody else receives it and it is not dead-lettered; it is *)
(* renewed for the consumer that received it last.  Promises run out,      *)
(* messages may be discarded (retention, purge); a dead-lettered one       *)
(* is nobody's until it is received.                                       *)
(***************************************************************************)
CONSTANTS Ids, Consumers, Queues, DeadLetterQueues,
          Nobody,       \* nobody received the message from where it is
          Unsent, Gone  \* where a message is before and after

VARIABLES
  place,     \* per message, the queue it is in, Unsent or Gone
  latest,    \* per message, the consumer that received it last
  promised   \* the messages whose promise to latest is running

mvars == <<place, latest, promised>>

In(q) == {i \in Ids : place[i] = q}
Set(f, S, x) == [i \in Ids |-> IF i \in S THEN x ELSE f[i]]

MailboxInit ==
  /\ place = [i \in Ids |-> Unsent]
  /\ latest = [i \in Ids |-> Nobody]
  /\ promised = {}

Accept(i, q) ==
  /\ place[i] = Unsent
  /\ place' = Set(place, {i}, q)
  /\ UNCHANGED <<latest, promised>>

(* A receive; the promise may be empty (VisibilityTimeout 0).               *)
Deliver(c, S) ==
  /\ S \cap promised = {}
  /\ latest' = Set(latest, S, c)
  /\ promised' \in {promised, promised \cup S}
  /\ UNCHANGED place

Delete(c, S) ==
  /\ \A i \in S : latest[i] = c
  /\ place' = Set(place, S, Gone)
  /\ latest' = Set(latest, S, Nobody)
  /\ promised' = promised \ S

(* The consumer renews or gives up what it was promised.                    *)
Renew(c, S) ==
  /\ \A i \in S : latest[i] = c
  /\ promised' \in {promised \ S, promised \cup S}
  /\ UNCHANGED <<place, latest>>

(* S is discarded, except for what goes to the dead-letter queue d.         *)
Sweep(d, S, dead) ==
  /\ dead \cap promised = {}
  /\ place' = Set(Set(place, S, Gone), dead, d)
  /\ latest' = Set(latest, S, Nobody)
  /\ promised' = promised \ S

RunOut(S) ==
  /\ promised' = promised \ S
  /\ UNCHANGED <<place, latest>>

MailboxNext ==
  \/ \E S \in SUBSET promised : RunOut(S)
  \/ \E q \in Queues, i \in Ids : Accept(i, q)
  \/ \E q \in Queues : \E S \in SUBSET In(q) :
       \/ \E c \in Consumers : Deliver(c, S) \/ Delete(c, S) \/ Renew(c, S)
       \/ \E d \in DeadLetterQueues, dead \in SUBSET S : Sweep(d, S, dead)

MailboxSpec == MailboxInit /\ [][MailboxNext]_mvars

=============================================================================
