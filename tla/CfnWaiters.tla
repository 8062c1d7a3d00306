----------------------------- MODULE CfnWaiters -----------------------------
(***************************************************************************)
(* The threads of CloudFormation that wait for an HTTP call: a             *)
(* WaitCondition for the signals on its handle (or, with a CreationPolicy, *)
(* on a slot of its own), a custom resource for the answer to its          *)
(* ResponseURL.  Signals, answers and resets come on the event loop; one   *)
(* lock guards the signals, another the answers.                           *)
(***************************************************************************)
EXTENDS Integers, FiniteSets

CONSTANTS
  CwConditions,  \* wait conditions; each waits once
  CwProviders,   \* custom resources; each is invoked once
  CwIds,         \* UniqueIds of signals
  CwCount,       \* Count of the wait conditions
  CwMaxResets    \* bound: state resets

ASSUME CwAssumption ==
  /\ CwCount \in Nat \ {0} /\ CwMaxResets \in Nat
  /\ IsFiniteSet(CwIds) /\ IsFiniteSet(CwConditions)

VARIABLES
  cwHandles,     \* _handles: token -> whether it is there, url, its signals
  cwWaiting,     \* _waiting: wait condition -> token, 0 for none
  cwThread,      \* wait condition -> its thread, token and generation
  cwGeneration,
  cwLooked,      \* a SignalResource call between its lookup and its delivery
  cwPending,     \* _pending: custom resource -> there, with a result or not
  cwProvider,    \* custom resource -> its thread, and whether its event is set
  cwSent         \* signals accepted, by token: {} again after a reset

cwVars == <<cwHandles, cwWaiting, cwThread, cwGeneration, cwLooked, cwPending, cwProvider, cwSent>>

(* Token 1 is a handle's, which several conditions may name; the others are *)
(* the slots of single conditions.                                          *)
CwTokens == 1..(Cardinality(CwConditions) + 1)
CwStatuses == {"SUCCESS", "FAILURE"}
CwNoHandle == [there |-> FALSE, url |-> FALSE, signals |-> [u \in CwIds |-> "none"]]
CwOf(h, status) == {u \in CwIds : h.signals[u] = status}

CwInit ==
  /\ cwHandles = [t \in CwTokens |-> CwNoHandle]
  /\ cwWaiting = [c \in CwConditions |-> 0]
  /\ cwThread = [c \in CwConditions |-> [pc |-> "idle", token |-> 0, generation |-> 0]]
  /\ cwGeneration = 0
  /\ cwLooked = 0
  /\ cwPending = [p \in CwProviders |-> "none"]
  /\ cwProvider = [p \in CwProviders |-> [pc |-> "idle", set |-> FALSE]]
  /\ cwSent = [t \in CwTokens |-> {}]

(* register_handle; the token is a new uuid.                                *)
CwRegisterHandle ==
  /\ cwHandles[1] = CwNoHandle /\ \A c \in CwConditions : cwThread[c].token # 1
  /\ cwHandles' = [cwHandles EXCEPT ![1].there = TRUE, ![1].url = TRUE]
  /\ UNCHANGED <<cwWaiting, cwThread, cwGeneration, cwLooked, cwPending, cwProvider, cwSent>>

(* wait_for on the handle, or on a slot registered for this wait.           *)
CwWait(c, t) ==
  /\ cwThread[c].pc = "idle"
  /\ IF t = 1 THEN cwHandles[1].there ELSE \A d \in CwConditions : cwThread[d].token # t
  /\ cwHandles' = [cwHandles EXCEPT ![t].there = TRUE]
  /\ cwThread' = [cwThread EXCEPT ![c] = [pc |-> "waiting", token |-> t, generation |-> cwGeneration]]
  /\ cwWaiting' = [cwWaiting EXCEPT ![c] = t]
  /\ UNCHANGED <<cwGeneration, cwLooked, cwPending, cwProvider, cwSent>>

CwAborted(c) == cwThread[c].generation # cwGeneration
CwSignals(c) == cwHandles[cwThread[c].token]
CwEnough(c) == Cardinality(CwOf(CwSignals(c), "SUCCESS")) >= CwCount

(* The thread leaves: its entry goes, and its slot unless it is a handle.   *)
CwLeave(c, how) ==
  LET t == cwThread[c].token IN
  /\ cwThread' = [cwThread EXCEPT ![c].pc = how]
  /\ cwWaiting' = [cwWaiting EXCEPT ![c] = IF @ = t THEN 0 ELSE @]
  /\ cwHandles' = [cwHandles EXCEPT ![t] = IF @.url THEN @ ELSE CwNoHandle]
  /\ UNCHANGED <<cwGeneration, cwLooked, cwPending, cwProvider, cwSent>>

(* Faulty: a reset only clears the stores.                                  *)
CwLookNoReset(c) ==
  /\ cwThread[c].pc = "waiting"
  /\ \/ CwOf(CwSignals(c), "FAILURE") # {} /\ CwLeave(c, "failed")
     \/ CwOf(CwSignals(c), "FAILURE") = {} /\ CwEnough(c) /\ CwLeave(c, "released")
(* Faulty: counts signals, whatever they say.                               *)
CwLookCountsAll(c) ==
  /\ cwThread[c].pc = "waiting"
  /\ \/ CwAborted(c) /\ CwLeave(c, "aborted")
     \/ ~CwAborted(c) /\ Cardinality({u \in CwIds : CwSignals(c).signals[u] # "none"}) >= CwCount
        /\ CwLeave(c, "released")
(* One turn of the loop, at the latest a second after the last: a reset, a  *)
(* failure, enough successes, or another turn.                              *)
CwLook(c) ==
  /\ cwThread[c].pc = "waiting"
  /\ \/ CwAborted(c) /\ CwLeave(c, "aborted")
     \/ ~CwAborted(c) /\ CwOf(CwSignals(c), "FAILURE") # {} /\ CwLeave(c, "failed")
     \/ ~CwAborted(c) /\ CwOf(CwSignals(c), "FAILURE") = {} /\ CwEnough(c) /\ CwLeave(c, "released")
CwTimesOut(c) ==
  /\ cwThread[c].pc = "waiting" /\ ~CwAborted(c) /\ ~CwEnough(c) /\ CwOf(CwSignals(c), "FAILURE") = {}
  /\ CwLeave(c, "timedOut")

(* deliver_signal: a UniqueId that is there already is ignored, whatever it *)
(* says now.                                                                *)
CwDeliver(t, u, status) ==
  IF cwHandles[t].there /\ cwHandles[t].signals[u] = "none"
  THEN /\ cwHandles' = [cwHandles EXCEPT ![t].signals[u] = status]
       /\ cwSent' = [cwSent EXCEPT ![t] = @ \cup {<<u, status>>}]
  ELSE UNCHANGED <<cwHandles, cwSent>>
CwPut(t, u, status) ==
  /\ cwHandles[t].url /\ CwDeliver(t, u, status)
  /\ UNCHANGED <<cwWaiting, cwThread, cwGeneration, cwLooked, cwPending, cwProvider>>

(* SignalResource: the lookup, and the delivery under the lock taken anew.  *)
CwSignalLook(c) ==
  /\ cwLooked = 0 /\ cwWaiting[c] # 0
  /\ cwLooked' = cwWaiting[c]
  /\ UNCHANGED <<cwHandles, cwWaiting, cwThread, cwGeneration, cwPending, cwProvider, cwSent>>
CwSignalDeliver(u, status) ==
  /\ cwLooked # 0 /\ CwDeliver(cwLooked, u, status)
  /\ cwLooked' = 0
  /\ UNCHANGED <<cwWaiting, cwThread, cwGeneration, cwPending, cwProvider>>

(* Faulty: leaves the handles in place.                                     *)
CwResetKeepsHandles ==
  /\ cwGeneration < CwMaxResets
  /\ cwGeneration' = cwGeneration + 1
  /\ cwWaiting' = [c \in CwConditions |-> 0]
  /\ cwPending' = [p \in CwProviders |-> "none"]
  /\ cwSent' = [t \in CwTokens |-> {}]
  /\ UNCHANGED <<cwHandles, cwThread, cwLooked, cwProvider>>
(* The state reset of both stores.  The event of a custom resource that     *)
(* waits is not set.                                                        *)
CwReset ==
  /\ cwGeneration < CwMaxResets
  /\ cwGeneration' = cwGeneration + 1
  /\ cwHandles' = [t \in CwTokens |-> CwNoHandle]
  /\ cwWaiting' = [c \in CwConditions |-> 0]
  /\ cwPending' = [p \in CwProviders |-> "none"]
  /\ cwSent' = [t \in CwTokens |-> {}]
  /\ UNCHANGED <<cwThread, cwLooked, cwProvider>>

-----------------------------------------------------------------------------
(* Custom resources.                                                        *)

CwInvoke(p) ==
  /\ cwProvider[p].pc = "idle"
  /\ cwProvider' = [cwProvider EXCEPT ![p].pc = "waiting"]
  /\ cwPending' = [cwPending EXCEPT ![p] = "there"]
  /\ UNCHANGED <<cwHandles, cwWaiting, cwThread, cwGeneration, cwLooked, cwSent>>
(* deliver_response: the result and the event, under the lock.              *)
CwAnswer(p) ==
  /\ cwPending[p] # "none"
  /\ cwPending' = [cwPending EXCEPT ![p] = "answered"]
  /\ cwProvider' = [cwProvider EXCEPT ![p].set = TRUE]
  /\ UNCHANGED <<cwHandles, cwWaiting, cwThread, cwGeneration, cwLooked, cwSent>>
(* The event is set, or the timeout passes; a step later the entry is       *)
(* popped, and an entry that a reset took counts as a timeout.              *)
CwProviderWakes(p) ==
  /\ cwProvider[p].pc = "waiting"
  /\ cwProvider' = [cwProvider EXCEPT ![p].pc = IF cwProvider[p].set THEN "woken" ELSE "expired"]
  /\ UNCHANGED <<cwHandles, cwWaiting, cwThread, cwGeneration, cwLooked, cwPending, cwSent>>
(* Faulty: leaves the entry.                                                *)
CwProviderEndsKeeping(p) ==
  /\ cwProvider[p].pc \in {"woken", "expired"}
  /\ cwProvider' = [cwProvider EXCEPT ![p].pc =
       IF @ = "woken" /\ cwPending[p] = "answered" THEN "done" ELSE "timedOut"]
  /\ UNCHANGED <<cwHandles, cwWaiting, cwThread, cwGeneration, cwLooked, cwPending, cwSent>>
CwProviderEnds(p) ==
  /\ cwProvider[p].pc \in {"woken", "expired"}
  /\ cwProvider' = [cwProvider EXCEPT ![p].pc =
       IF @ = "woken" /\ cwPending[p] = "answered" THEN "done" ELSE "timedOut"]
  /\ cwPending' = [cwPending EXCEPT ![p] = "none"]
  /\ UNCHANGED <<cwHandles, cwWaiting, cwThread, cwGeneration, cwLooked, cwSent>>

CwConditionNext ==
  \/ CwRegisterHandle \/ CwReset
  \/ \E c \in CwConditions : CwLook(c) \/ CwTimesOut(c) \/ CwSignalLook(c)
  \/ \E c \in CwConditions, t \in CwTokens : CwWait(c, t)
  \/ \E t \in CwTokens, u \in CwIds, status \in CwStatuses : CwPut(t, u, status)
  \/ \E u \in CwIds, status \in CwStatuses : CwSignalDeliver(u, status)
CwProviderNext ==
  \/ CwReset
  \/ \E p \in CwProviders : CwInvoke(p) \/ CwAnswer(p) \/ CwProviderWakes(p) \/ CwProviderEnds(p)
CwNext == CwConditionNext \/ CwProviderNext

(* The loop turns every second; no timeout is counted on.                   *)
CwFairness == \A c \in CwConditions : WF_cwVars(CwLook(c))
CwSpec == CwInit /\ [][CwNext]_cwVars /\ CwFairness

-----------------------------------------------------------------------------
(* The stores have their shape; the table of waits names exactly the        *)
(* threads that wait and that no reset aborted, and a slot is there for     *)
(* exactly one of them.                                                     *)
CwTypeOK ==
  /\ cwHandles \in [CwTokens -> [there : BOOLEAN, url : BOOLEAN, signals : [CwIds -> CwStatuses \cup {"none"}]]]
  /\ cwGeneration \in 0..CwMaxResets /\ cwLooked \in {0} \cup CwTokens
  /\ \A c \in CwConditions : cwWaiting[c] =
       IF cwThread[c].pc = "waiting" /\ ~CwAborted(c) THEN cwThread[c].token ELSE 0
  /\ \A t \in CwTokens \ {1} : cwHandles[t].there =>
       \E c \in CwConditions : cwWaiting[c] = t

(* A condition is released only by Count different UniqueIds that said      *)
(* SUCCESS when they first came, and no FAILURE, all sent since the last    *)
(* reset: repeated or contradicting signals do not count.                   *)
CwReleasedRightly == [][\A c \in CwConditions :
  cwThread[c].pc # "released" /\ cwThread'[c].pc = "released" =>
    /\ Cardinality({s \in cwSent[cwThread[c].token] : s[2] = "SUCCESS"}) >= CwCount
    /\ \A s \in cwSent[cwThread[c].token] : s[2] # "FAILURE"]_cwVars

(* A custom resource that ended left no entry: a late answer is refused.    *)
CwNoLateAnswer == \A p \in CwProviders :
  cwPending[p] # "none" => cwProvider[p].pc \in {"waiting", "woken", "expired"}

(* Signals that are enough release the waiting thread, and a reset aborts   *)
(* it, without its timeout: no wake-up is lost.                             *)
CwNoneLeftWaiting == \A c \in CwConditions :
  cwThread[c].pc = "waiting" /\ (CwAborted(c) \/ CwEnough(c)) ~> cwThread[c].pc # "waiting"
=============================================================================
