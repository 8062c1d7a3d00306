---------------------------- MODULE EnginesProofs ----------------------------
(***************************************************************************)
(* What the engines promise for any number of executions, tokens, queues   *)
(* and workers (StepFunctions), of wait conditions, handles, signals and   *)
(* custom resources (CfnWaiters), any templates and number of operations   *)
(* of a stack (CfnStack), any regions, versions and labels of a secret     *)
(* (SecretVersions).                                                       *)
(***************************************************************************)
EXTENDS MCEngines, CfnStackProofs

-----------------------------------------------------------------------------
(* CloudFormation waiters.                                                  *)

CwHandle == [there : BOOLEAN, url : BOOLEAN, signals : [CwIds -> CwStatuses \cup {"none"}]]
CwAtPc == {"idle", "waiting", "aborted", "failed", "released", "timedOut"}
CwThreads == [pc : CwAtPc, token : {0} \cup CwTokens, generation : Nat]

CwTypes ==
  /\ cwHandles \in [CwTokens -> CwHandle]
  /\ cwWaiting \in [CwConditions -> {0} \cup CwTokens]
  /\ cwThread \in [CwConditions -> CwThreads]
  /\ cwGeneration \in 0..CwMaxResets
  /\ cwLooked \in {0} \cup CwTokens
  /\ cwSent \in [CwTokens -> SUBSET (CwIds \X CwStatuses)]

(* A thread that waits has a token, and threads share no slot.              *)
CwOwners ==
  /\ \A c \in CwConditions :
       /\ (cwThread[c].pc = "idle") <=> (cwThread[c].token = 0)
       /\ cwThread[c].generation <= cwGeneration
       /\ cwWaiting[c] = IF cwThread[c].pc = "waiting" /\ ~CwAborted(c) THEN cwThread[c].token ELSE 0
       /\ cwThread[c].pc = "waiting" /\ ~CwAborted(c) => cwHandles[cwThread[c].token].there
  /\ \A c, d \in CwConditions : cwThread[c].token = cwThread[d].token /\ cwThread[c].token \notin {0, 1} => c = d

(* What a handle holds is what was sent to its token since the last reset.  *)
CwSaid(t) == {s \in CwIds \X CwStatuses : cwHandles[t].signals[s[1]] = s[2]}
CwStored == \A t \in CwTokens :
  /\ cwHandles[t].url => t = 1 /\ cwHandles[t].there
  /\ t = 1 /\ cwHandles[t].there => cwHandles[t].url
  /\ ~cwHandles[t].there => cwHandles[t] = CwNoHandle
  /\ ~cwHandles[t].there /\ (t = 1 \/ \A c \in CwConditions : cwThread[c].token # t) => cwSent[t] = {}
  /\ cwHandles[t].there => cwSent[t] = CwSaid(t)
  /\ t # 1 /\ cwHandles[t].there => \E c \in CwConditions : cwWaiting[c] = t

CwConditionsInv == CwTypes /\ CwOwners /\ CwStored

-----------------------------------------------------------------------------
LEMMA Tokens == 1 \in CwTokens /\ 0 \notin CwTokens /\ CwTokens \subseteq Nat
<1>1. Cardinality(CwConditions) \in Nat
  BY CwAssumption, FS_CardinalityType
<1> QED
  BY <1>1 DEF CwTokens

LEMMA NoHandle == CwNoHandle \in CwHandle /\ ~CwNoHandle.there /\ ~CwNoHandle.url
                  /\ \A u \in CwIds : CwNoHandle.signals[u] = "none"
BY DEF CwNoHandle, CwHandle

LEMMA CwInitInv == CwInit => CwConditionsInv
<1> SUFFICES ASSUME CwInit PROVE CwConditionsInv
  OBVIOUS
<1>1. CwTypes
  BY CwAssumption, NoHandle, Tokens DEF CwInit, CwTypes, CwThreads, CwAtPc
<1>2. CwOwners
  BY DEF CwInit, CwOwners
<1>3. CwStored
  BY NoHandle DEF CwInit, CwStored
<1> QED
  BY <1>1, <1>2, <1>3 DEF CwConditionsInv

LEMMA RegisterInv ==
  ASSUME CwConditionsInv, CwRegisterHandle PROVE CwConditionsInv'
<1> USE Tokens, NoHandle DEF CwConditionsInv
<1>1. CwTypes'
  BY DEF CwTypes, CwRegisterHandle, CwHandle
<1>2. CwOwners'
  BY DEF CwTypes, CwOwners, CwRegisterHandle, CwAborted, CwHandle
<1>3. CwSaid(1)' = {} /\ cwSent'[1] = {}
  BY DEF CwTypes, CwStored, CwRegisterHandle, CwSaid, CwStatuses, CwHandle
<1>4. \A t \in CwTokens \ {1} : cwHandles'[t] = cwHandles[t] /\ CwSaid(t)' = CwSaid(t)
  BY DEF CwTypes, CwRegisterHandle, CwSaid
<1>5. cwHandles'[1].there /\ cwHandles'[1].url
  BY DEF CwTypes, CwRegisterHandle, CwHandle
<1>6. CwStored'
  <2>1. UNCHANGED <<cwSent, cwThread, cwWaiting>>
    BY DEF CwRegisterHandle
  <2> QED
    BY <1>3, <1>4, <1>5, <2>1 DEF CwStored
<1> QED
  BY <1>1, <1>2, <1>6

LEMMA WaitInv ==
  ASSUME CwConditionsInv, NEW c \in CwConditions, NEW t \in CwTokens, CwWait(c, t) PROVE CwConditionsInv'
<1> USE Tokens, NoHandle DEF CwConditionsInv
<1>1. CwTypes'
  <2>1. [pc |-> "waiting", token |-> t, generation |-> cwGeneration] \in CwThreads
    BY CwAssumption DEF CwTypes, CwThreads, CwAtPc
  <2>2. cwHandles' \in [CwTokens -> CwHandle]
    BY DEF CwTypes, CwWait, CwHandle
  <2> QED
    BY <2>1, <2>2 DEF CwTypes, CwWait
<1>2. \A u \in CwTokens : CwSaid(u)' = CwSaid(u)
  BY DEF CwTypes, CwWait, CwSaid, CwHandle
<1>3. cwThread'[c] = [pc |-> "waiting", token |-> t, generation |-> cwGeneration] /\ cwWaiting'[c] = t
  BY DEF CwTypes, CwWait
<1>4. \A d \in CwConditions \ {c} : cwThread'[d] = cwThread[d] /\ cwWaiting'[d] = cwWaiting[d]
  BY DEF CwTypes, CwWait
<1>5. \A u \in CwTokens : cwHandles'[u].there = (u = t \/ cwHandles[u].there)
  BY DEF CwTypes, CwWait, CwHandle
<1>6. cwThread[c].token = 0 /\ t # 0 /\ cwThread[c].pc = "idle"
  BY DEF CwOwners, CwWait
<1>7. CwOwners'
  <2>1. cwGeneration' = cwGeneration /\ cwGeneration \in Nat
    BY CwAssumption DEF CwWait, CwTypes
  <2>2. \A d \in CwConditions \ {c} : t \notin {0, 1} => cwThread[d].token # t
    BY DEF CwWait
  <2>3. cwHandles'[t].there /\ \A u \in CwTokens : cwHandles[u].there => cwHandles'[u].there
    BY <1>5
  <2>4. /\ (cwThread'[c].pc = "idle") <=> (cwThread'[c].token = 0)
        /\ cwThread'[c].generation <= cwGeneration'
        /\ cwWaiting'[c] = IF cwThread'[c].pc = "waiting" /\ ~CwAborted(c)' THEN cwThread'[c].token ELSE 0
        /\ cwThread'[c].pc = "waiting" /\ ~CwAborted(c)' => cwHandles'[cwThread'[c].token].there
    BY <1>3, <1>6, <2>1, <2>3 DEF CwAborted
  <2>5. ASSUME NEW d \in CwConditions \ {c}
        PROVE /\ (cwThread'[d].pc = "idle") <=> (cwThread'[d].token = 0)
              /\ cwThread'[d].generation <= cwGeneration'
              /\ cwWaiting'[d] = IF cwThread'[d].pc = "waiting" /\ ~CwAborted(d)' THEN cwThread'[d].token ELSE 0
              /\ cwThread'[d].pc = "waiting" /\ ~CwAborted(d)' => cwHandles'[cwThread'[d].token].there
    <3>1. cwThread[d].token \in {0} \cup CwTokens /\ (cwThread[d].pc = "waiting" => cwThread[d].token \in CwTokens)
      BY DEF CwTypes, CwThreads, CwOwners
    <3>2. CwAborted(d)' = CwAborted(d)
      BY <1>4, <2>1 DEF CwAborted
    <3>3. ASSUME cwThread[d].pc = "waiting", ~CwAborted(d) PROVE cwHandles'[cwThread[d].token].there
      <4>1. cwHandles[cwThread[d].token].there
        BY <3>3 DEF CwOwners
      <4> QED
        BY <2>3, <3>1, <3>3, <4>1
    <3> QED
      BY <1>4, <2>1, <3>2, <3>3 DEF CwOwners
  <2>6. \A d, e \in CwConditions :
          cwThread'[d].token = cwThread'[e].token /\ cwThread'[d].token \notin {0, 1} => d = e
    BY <1>3, <1>4, <2>2 DEF CwOwners
  <2> QED
    BY <2>4, <2>5, <2>6 DEF CwOwners
<1>8. t # 1 => cwHandles[t] = CwNoHandle /\ cwSent[t] = {}
  <2>1. ASSUME t # 1 PROVE ~cwHandles[t].there
    <3>1. \A d \in CwConditions : cwWaiting[d] # t
      BY <2>1 DEF CwWait, CwOwners
    <3> QED
      BY <2>1, <3>1 DEF CwStored
  <2> QED
    BY <2>1 DEF CwStored, CwWait
<1>9. t = 1 => cwHandles[t].there
  BY DEF CwWait
<1>10. cwHandles' = [cwHandles EXCEPT ![t].there = TRUE] /\ cwSent' = cwSent
  BY DEF CwWait
<1>11. CwStored'
  <2> SUFFICES ASSUME NEW u \in CwTokens
               PROVE /\ cwHandles'[u].url => u = 1 /\ cwHandles'[u].there
                     /\ u = 1 /\ cwHandles'[u].there => cwHandles'[u].url
                     /\ ~cwHandles'[u].there => cwHandles'[u] = CwNoHandle
                     /\ ~cwHandles'[u].there /\ (u = 1 \/ \A d \in CwConditions : cwThread'[d].token # u)
                          => cwSent'[u] = {}
                     /\ cwHandles'[u].there => cwSent'[u] = CwSaid(u)'
                     /\ u # 1 /\ cwHandles'[u].there => \E d \in CwConditions : cwWaiting'[d] = u
    BY DEF CwStored
  <2>1. cwHandles'[u].url = cwHandles[u].url
    BY <1>10 DEF CwTypes, CwHandle
  <2>2. CASE u = t
    <3>1. t # 1 => CwSaid(t) = {}
      BY <1>8 DEF CwSaid, CwStatuses
    <3> QED
      BY <2>1, <2>2, <3>1, <1>2, <1>3, <1>5, <1>8, <1>9, <1>10 DEF CwStored
  <2>3. CASE u # t
    <3>1. cwHandles'[u] = cwHandles[u]
      BY <2>3, <1>10 DEF CwTypes
    <3>2. \A d \in CwConditions : cwWaiting[d] = u => d # c
      BY <1>6, <2>3 DEF CwOwners
    <3> QED
      BY <2>3, <3>1, <3>2, <1>2, <1>3, <1>4, <1>6, <1>10 DEF CwStored
  <2> QED
    BY <2>2, <2>3
<1> QED
  BY <1>1, <1>7, <1>11

LEMMA LeaveInv ==
  ASSUME CwConditionsInv, NEW c \in CwConditions, cwThread[c].pc = "waiting",
         NEW how \in CwAtPc \ {"idle", "waiting"}, CwLeave(c, how)
  PROVE  CwConditionsInv'
<1> USE Tokens, NoHandle DEF CwConditionsInv
<1> DEFINE t == cwThread[c].token
<1>1. t \in CwTokens
  BY DEF CwTypes, CwThreads, CwOwners
<1>2. /\ cwThread'[c].pc = how /\ cwThread'[c].token = t /\ cwThread'[c].generation = cwThread[c].generation
      /\ cwThread'[c] \in CwThreads
  BY DEF CwTypes, CwThreads, CwLeave
<1>3. \A d \in CwConditions \ {c} : cwThread'[d] = cwThread[d] /\ cwWaiting'[d] = cwWaiting[d]
  BY DEF CwTypes, CwLeave
<1>4. cwWaiting'[c] = 0
  BY <1>1 DEF CwTypes, CwLeave, CwOwners
<1>5. \A u \in CwTokens \ {t} : cwHandles'[u] = cwHandles[u] /\ CwSaid(u)' = CwSaid(u)
  BY DEF CwTypes, CwLeave, CwSaid
<1>6. cwHandles'[t] = IF cwHandles[t].url THEN cwHandles[t] ELSE CwNoHandle
  BY <1>1 DEF CwTypes, CwLeave
<1>7. UNCHANGED <<cwGeneration, cwLooked, cwSent>>
  BY DEF CwLeave
<1>8. CwTypes'
  BY <1>2, <1>7 DEF CwTypes, CwLeave
<1>9. CwOwners'
  <2>1. /\ (cwThread'[c].pc = "idle") <=> (cwThread'[c].token = 0)
        /\ cwThread'[c].generation <= cwGeneration'
        /\ cwWaiting'[c] = IF cwThread'[c].pc = "waiting" /\ ~CwAborted(c)' THEN cwThread'[c].token ELSE 0
        /\ cwThread'[c].pc = "waiting" /\ ~CwAborted(c)' => cwHandles'[cwThread'[c].token].there
    BY <1>1, <1>2, <1>4, <1>7 DEF CwAborted, CwOwners
  <2>2. ASSUME NEW d \in CwConditions \ {c}
        PROVE /\ (cwThread'[d].pc = "idle") <=> (cwThread'[d].token = 0)
              /\ cwThread'[d].generation <= cwGeneration'
              /\ cwWaiting'[d] = IF cwThread'[d].pc = "waiting" /\ ~CwAborted(d)' THEN cwThread'[d].token ELSE 0
              /\ cwThread'[d].pc = "waiting" /\ ~CwAborted(d)' => cwHandles'[cwThread'[d].token].there
    <3>1. cwThread[d].token \in {0} \cup CwTokens /\ (cwThread[d].pc = "waiting" => cwThread[d].token \in CwTokens)
      BY DEF CwTypes, CwThreads, CwOwners
    <3>2. CwAborted(d)' = CwAborted(d)
      BY <1>3, <1>7 DEF CwAborted
    <3>3. ASSUME cwThread[d].pc = "waiting", ~CwAborted(d) PROVE cwHandles'[cwThread[d].token].there
      <4>1. cwHandles[cwThread[d].token].there
        BY <3>3 DEF CwOwners
      <4>2. cwThread[d].token = t => t = 1
        BY <3>1, <3>3, <1>1 DEF CwOwners
      <4>3. CASE cwThread[d].token = t
        <5>1. cwHandles[t].url
          BY <1>1, <4>1, <4>2, <4>3 DEF CwStored
        <5> QED
          BY <1>6, <4>1, <4>3, <5>1
      <4>4. CASE cwThread[d].token # t
        BY <1>5, <3>1, <3>3, <4>1, <4>4
      <4> QED
        BY <4>3, <4>4
    <3> QED
      BY <1>3, <1>7, <3>2, <3>3 DEF CwOwners
  <2>3. \A d, e \in CwConditions :
          cwThread'[d].token = cwThread'[e].token /\ cwThread'[d].token \notin {0, 1} => d = e
    BY <1>2, <1>3 DEF CwOwners
  <2> QED
    BY <2>1, <2>2, <2>3 DEF CwOwners
<1>10. CwStored'
  <2> SUFFICES ASSUME NEW u \in CwTokens
               PROVE /\ cwHandles'[u].url => u = 1 /\ cwHandles'[u].there
                     /\ u = 1 /\ cwHandles'[u].there => cwHandles'[u].url
                     /\ ~cwHandles'[u].there => cwHandles'[u] = CwNoHandle
                     /\ ~cwHandles'[u].there /\ (u = 1 \/ \A d \in CwConditions : cwThread'[d].token # u)
                          => cwSent'[u] = {}
                     /\ cwHandles'[u].there => cwSent'[u] = CwSaid(u)'
                     /\ u # 1 /\ cwHandles'[u].there => \E d \in CwConditions : cwWaiting'[d] = u
    BY DEF CwStored
  <2>1. (\A d \in CwConditions : cwThread'[d].token # u) => \A d \in CwConditions : cwThread[d].token # u
    BY <1>2, <1>3
  <2>2. CASE u # t
    <3>1. \A d \in CwConditions : cwWaiting[d] = u => d # c
      BY <2>2 DEF CwOwners
    <3> QED
      BY <2>1, <2>2, <3>1, <1>3, <1>5, <1>7 DEF CwStored
  <2>3. CASE u = t /\ cwHandles[t].url
    <3>1. cwHandles'[u] = cwHandles[u] /\ u = 1 /\ cwHandles[u].there
      BY <2>3, <1>6 DEF CwStored
    <3>2. CwSaid(u)' = CwSaid(u)
      BY <3>1 DEF CwSaid
    <3> QED
      BY <2>3, <3>1, <3>2, <1>7 DEF CwStored
  <2>4. CASE u = t /\ ~cwHandles[t].url
    <3>1. cwHandles'[u] = CwNoHandle
      BY <2>4, <1>6
    <3>2. cwThread'[c].token = u
      BY <2>4, <1>2
    <3>3. u = 1 => cwSent[u] = {}
      BY <2>4 DEF CwStored
    <3> QED
      BY <3>1, <3>2, <3>3, <1>7
  <2> QED
    BY <2>2, <2>3, <2>4
<1> QED
  BY <1>8, <1>9, <1>10

LEMMA DeliverInv ==
  ASSUME CwConditionsInv, NEW t \in CwTokens, NEW v \in CwIds, NEW status \in CwStatuses,
         CwDeliver(t, v, status), UNCHANGED <<cwWaiting, cwThread, cwGeneration>>, cwLooked' \in {0, cwLooked}
  PROVE  CwConditionsInv'
<1> USE Tokens DEF CwConditionsInv
<1>1. CASE ~(cwHandles[t].there /\ cwHandles[t].signals[v] = "none")
  <2>1. UNCHANGED <<cwHandles, cwSent>>
    BY <1>1 DEF CwDeliver
  <2>2. CwTypes'
    BY <2>1 DEF CwTypes
  <2>3. CwOwners' /\ CwStored'
    BY <2>1 DEF CwOwners, CwStored, CwSaid, CwAborted
  <2> QED
    BY <2>2, <2>3
<1>2. CASE cwHandles[t].there /\ cwHandles[t].signals[v] = "none"
  <2>1. cwHandles' = [cwHandles EXCEPT ![t].signals[v] = status] /\ cwSent' = [cwSent EXCEPT ![t] = @ \cup {<<v, status>>}]
    BY <1>2 DEF CwDeliver
  <2>2. CwTypes'
    <3>1. cwHandles' \in [CwTokens -> CwHandle]
      BY <2>1 DEF CwTypes, CwHandle
    <3>2. cwSent' \in [CwTokens -> SUBSET (CwIds \X CwStatuses)]
      BY <2>1 DEF CwTypes
    <3> QED
      BY <3>1, <3>2 DEF CwTypes
  <2>3. \A u \in CwTokens : cwHandles'[u].there = cwHandles[u].there /\ cwHandles'[u].url = cwHandles[u].url
    BY <2>1 DEF CwTypes, CwHandle
  <2>4. \A u \in CwTokens \ {t} : cwHandles'[u] = cwHandles[u] /\ cwSent'[u] = cwSent[u] /\ CwSaid(u)' = CwSaid(u)
    BY <2>1 DEF CwTypes, CwSaid
  <2>5. CwOwners'
    <3>1. \A d \in CwConditions : cwThread[d].pc = "waiting" => cwThread[d].token \in CwTokens
      BY DEF CwTypes, CwThreads, CwOwners
    <3> QED
      BY <2>3, <3>1 DEF CwOwners, CwAborted
  <2>6. CwSaid(t)' = CwSaid(t) \cup {<<v, status>>}
    <3>1. \A w \in CwIds : cwHandles'[t].signals[w] = IF w = v THEN status ELSE cwHandles[t].signals[w]
      BY <2>1 DEF CwTypes, CwHandle
    <3>2. <<v, cwHandles[t].signals[v]>> \notin CwIds \X CwStatuses
      BY <1>2 DEF CwStatuses
    <3> QED
      BY <3>1, <1>2 DEF CwSaid, CwStatuses
  <2>7. cwSent'[t] = CwSaid(t)'
    BY <1>2, <2>1, <2>6 DEF CwTypes, CwStored
  <2>8. CwStored'
    BY <1>2, <2>3, <2>4, <2>7 DEF CwStored
  <2> QED
    BY <2>2, <2>5, <2>8
<1> QED
  BY <1>1, <1>2

LEMMA ResetInv ==
  ASSUME CwConditionsInv, CwReset PROVE CwConditionsInv'
<1> USE Tokens, NoHandle DEF CwConditionsInv
<1>1. CwTypes'
  BY CwAssumption DEF CwTypes, CwReset
<1>2. CwOwners'
  <2>1. cwGeneration' = cwGeneration + 1 /\ cwGeneration \in Nat /\ cwThread' = cwThread
    BY CwAssumption DEF CwTypes, CwReset
  <2>2. \A c \in CwConditions : cwThread[c].generation \in Nat /\ cwWaiting'[c] = 0
    BY DEF CwTypes, CwThreads, CwReset
  <2>3. \A c \in CwConditions : CwAborted(c)' /\ cwThread[c].generation <= cwGeneration'
    BY <2>1, <2>2 DEF CwOwners, CwAborted
  <2> QED
    BY <2>1, <2>2, <2>3 DEF CwOwners
<1>3. CwStored'
  BY DEF CwReset, CwStored
<1> QED
  BY <1>1, <1>2, <1>3

LEMMA CwStep == CwConditionsInv /\ [CwNext]_cwVars => CwConditionsInv'
<1> SUFFICES ASSUME CwConditionsInv, [CwNext]_cwVars PROVE CwConditionsInv'
  OBVIOUS
<1> USE Tokens
<1>1. CASE \E c \in CwConditions, t \in CwTokens : CwWait(c, t)
  BY <1>1, WaitInv
<1>2. CASE \E c \in CwConditions : CwLook(c) \/ CwTimesOut(c)
  BY <1>2, LeaveInv DEF CwLook, CwTimesOut, CwAtPc
<1>3. CASE \E t \in CwTokens, u \in CwIds, status \in CwStatuses : CwPut(t, u, status)
  BY <1>3, DeliverInv DEF CwPut
<1>4. CASE \E u \in CwIds, status \in CwStatuses : CwSignalDeliver(u, status)
  <2>1. cwLooked # 0 => cwLooked \in CwTokens
    BY DEF CwConditionsInv, CwTypes
  <2> QED
    BY <1>4, <2>1, DeliverInv DEF CwSignalDeliver
<1>5. CASE CwRegisterHandle
  BY <1>5, RegisterInv
<1>6. CASE CwReset
  BY <1>6, ResetInv
<1>7. CASE UNCHANGED <<cwHandles, cwWaiting, cwThread, cwGeneration, cwSent>> /\ cwLooked' \in {0} \cup CwTokens
  BY <1>7 DEF CwConditionsInv, CwTypes, CwOwners, CwStored, CwSaid, CwAborted
<1>8. ASSUME \/ \E c \in CwConditions : CwSignalLook(c)
             \/ \E p \in CwProviders : CwInvoke(p) \/ CwAnswer(p) \/ CwProviderWakes(p) \/ CwProviderEnds(p)
             \/ UNCHANGED cwVars
      PROVE UNCHANGED <<cwHandles, cwWaiting, cwThread, cwGeneration, cwSent>> /\ cwLooked' \in {0} \cup CwTokens
  BY <1>8 DEF CwConditionsInv, CwTypes, CwSignalLook, CwInvoke, CwAnswer, CwProviderWakes, CwProviderEnds, cwVars
<1> QED
  BY <1>1, <1>2, <1>3, <1>4, <1>5, <1>6, <1>7, <1>8 DEF CwNext, CwConditionNext, CwProviderNext

LEMMA CwTyped == CwConditionsInv => CwTypeOK
BY DEF CwConditionsInv, CwTypes, CwOwners, CwStored, CwTypeOK, CwHandle

LEMMA CwInvariance == CwSpec => []CwConditionsInv
<1> QED
  BY CwInitInv, CwStep, PTL DEF CwSpec

(* The table of waits names exactly the threads that wait and that no reset *)
(* aborted, and every slot is some thread's: none is ever left behind.      *)
THEOREM WaitsExact == CwSpec => []CwTypeOK
<1> QED
  BY CwTyped, CwInvariance, PTL

-----------------------------------------------------------------------------
(* Successes in a handle and successes sent are as many.                    *)
LEMMA SuccessesCounted ==
  ASSUME CwConditionsInv, NEW t \in CwTokens, cwHandles[t].there
  PROVE  Cardinality({s \in cwSent[t] : s[2] = "SUCCESS"}) = Cardinality(CwOf(cwHandles[t], "SUCCESS"))
<1> DEFINE ids == CwOf(cwHandles[t], "SUCCESS")
           sent == {s \in cwSent[t] : s[2] = "SUCCESS"}
           f == [u \in ids |-> <<u, "SUCCESS">>]
<1>1. cwSent[t] = CwSaid(t)
  BY DEF CwConditionsInv, CwStored
<1>2. IsFiniteSet(ids)
  BY CwAssumption, FS_Subset DEF CwOf
<1>3. f \in [ids -> sent]
  BY <1>1 DEF CwOf, CwSaid, CwStatuses
<1>4. \A u, v \in ids : f[u] = f[v] => u = v
  OBVIOUS
<1>5. ASSUME NEW s \in sent PROVE \E u \in ids : f[u] = s
  <2>1. s \in CwIds \X CwStatuses /\ s[2] = "SUCCESS" /\ cwHandles[t].signals[s[1]] = "SUCCESS"
    BY <1>1 DEF CwSaid
  <2>2. s[1] \in ids /\ s = <<s[1], "SUCCESS">>
    BY <2>1 DEF CwOf
  <2> QED
    BY <2>2
<1>6. f \in Bijection(ids, sent)
  BY <1>3, <1>4, <1>5 DEF Bijection, Injection, Surjection, IsInjective
<1>7. ExistsBijection(ids, sent)
  BY <1>6 DEF ExistsBijection
<1> QED
  BY <1>2, <1>7, FS_Bijection

(* A WaitCondition or CreationPolicy is released by Count different         *)
(* UniqueIds whose first word was SUCCESS, none FAILURE, all since the last *)
(* reset.                                                                   *)
THEOREM ReleasedRightly == CwSpec => CwReleasedRightly
<1>1. ASSUME CwConditionsInv, [CwNext]_cwVars, NEW c \in CwConditions,
             cwThread[c].pc # "released", cwThread'[c].pc = "released"
      PROVE  /\ Cardinality({s \in cwSent[cwThread[c].token] : s[2] = "SUCCESS"}) >= CwCount
             /\ \A s \in cwSent[cwThread[c].token] : s[2] # "FAILURE"
  <2> DEFINE t == cwThread[c].token
  <2>1. /\ cwThread[c].pc = "waiting" /\ ~CwAborted(c)
        /\ CwOf(CwSignals(c), "FAILURE") = {} /\ CwEnough(c)
    <3>1. CwNext /\ cwThread' # cwThread
      BY <1>1 DEF cwVars
    <3>2. PICK d \in CwConditions : CwLook(d) \/ CwTimesOut(d) \/ (\E u \in CwTokens : CwWait(d, u))
      BY <3>1 DEF CwNext, CwConditionNext, CwProviderNext, CwRegisterHandle, CwReset, CwSignalLook, CwPut,
         CwSignalDeliver, CwInvoke, CwAnswer, CwProviderWakes, CwProviderEnds
    <3>3. ~ \E u \in CwTokens : CwWait(d, u)
      BY <1>1 DEF CwWait, CwConditionsInv, CwTypes
    <3>4. ~CwTimesOut(d)
      BY <1>1 DEF CwTimesOut, CwLeave, CwConditionsInv, CwTypes, CwThreads
    <3>5. d = c
      BY <1>1, <3>2, <3>3, <3>4 DEF CwLook, CwLeave, CwConditionsInv, CwTypes
    <3> QED
      BY <1>1, <3>2, <3>3, <3>4, <3>5 DEF CwLook, CwLeave, CwConditionsInv, CwTypes, CwThreads
  <2>2. t \in CwTokens /\ cwHandles[t].there /\ cwSent[t] = CwSaid(t)
    BY <1>1, <2>1 DEF CwConditionsInv, CwTypes, CwThreads, CwOwners, CwStored
  <2>3. Cardinality({s \in cwSent[t] : s[2] = "SUCCESS"}) >= CwCount
    BY <1>1, <2>1, <2>2, SuccessesCounted DEF CwEnough, CwSignals
  <2>4. \A s \in cwSent[t] : s[2] # "FAILURE"
    BY <2>1, <2>2 DEF CwSaid, CwOf, CwSignals
  <2> QED
    BY <2>3, <2>4
<1>2. CwConditionsInv /\ [CwNext]_cwVars =>
        [\A c \in CwConditions :
          cwThread[c].pc # "released" /\ cwThread'[c].pc = "released" =>
            /\ Cardinality({s \in cwSent[cwThread[c].token] : s[2] = "SUCCESS"}) >= CwCount
            /\ \A s \in cwSent[cwThread[c].token] : s[2] # "FAILURE"]_cwVars
  BY <1>1
<1> QED
  BY <1>2, CwInvariance, PTL DEF CwSpec, CwReleasedRightly

-----------------------------------------------------------------------------
CwEntries == /\ cwPending \in [CwProviders -> {"none", "there", "answered"}]
             /\ cwProvider \in [CwProviders -> [pc : {"idle", "waiting", "woken", "expired", "done", "timedOut"}, set : BOOLEAN]]
             /\ CwNoLateAnswer

(* A custom resource that ended left no entry, so an answer that comes late *)
(* is refused, also after a reset.                                          *)
THEOREM NoLateAnswer == CwSpec => []CwNoLateAnswer
<1>1. CwInit => CwEntries
  BY DEF CwInit, CwEntries, CwNoLateAnswer
<1>2. CwEntries /\ [CwNext]_cwVars => CwEntries'
  <2> SUFFICES ASSUME CwEntries, [CwNext]_cwVars PROVE CwEntries'
    OBVIOUS
  <2>1. ASSUME NEW p \in CwProviders, CwInvoke(p) \/ CwAnswer(p) PROVE CwEntries'
    <3>1. CASE CwInvoke(p)
      BY <3>1 DEF CwEntries, CwNoLateAnswer, CwInvoke
    <3>2. CASE CwAnswer(p)
      <4>1. \A q \in CwProviders : cwProvider'[q].pc = cwProvider[q].pc /\ (cwPending'[q] # "none" => cwPending[q] # "none")
        BY <3>2 DEF CwEntries, CwAnswer
      <4>2. cwProvider' \in [CwProviders -> [pc : {"idle", "waiting", "woken", "expired", "done", "timedOut"}, set : BOOLEAN]]
        BY <3>2 DEF CwEntries, CwAnswer
      <4> QED
        BY <3>2, <4>1, <4>2 DEF CwEntries, CwNoLateAnswer, CwAnswer
    <3> QED
      BY <2>1, <3>1, <3>2
  <2>2. CASE \E p \in CwProviders : CwProviderWakes(p) \/ CwProviderEnds(p)
    BY <2>2 DEF CwEntries, CwNoLateAnswer, CwProviderWakes, CwProviderEnds
  <2>3. CASE CwReset
    BY <2>3 DEF CwEntries, CwNoLateAnswer, CwReset
  <2>4. CASE UNCHANGED <<cwPending, cwProvider>>
    BY <2>4 DEF CwEntries, CwNoLateAnswer
  <2> QED
    BY <2>1, <2>2, <2>3, <2>4 DEF CwNext, CwConditionNext, CwProviderNext, CwRegisterHandle, CwWait, CwLook,
       CwTimesOut, CwLeave, CwPut, CwSignalLook, CwSignalDeliver, cwVars
<1>3. CwEntries => CwNoLateAnswer
  BY DEF CwEntries
<1> QED
  BY <1>1, <1>2, <1>3, PTL DEF CwSpec

-----------------------------------------------------------------------------
(* Step Functions.  The shapes of what the invariant speaks of.             *)
SfExecutionRecord == [status : {"absent", "RUNNING", "SUCCEEDED", "FAILED", "ABORTED"},
                      kind : {"callback", "activity"}]
SfThreadRecord == [pc : {"none", "enter", "schedule", "call", "wait", "expired", "failed", "exit",
                         "commit", "raise", "done"}, attempt : 0..SfMaxAttempts]
SfTokenRecord == [there : BOOLEAN, result : BOOLEAN, error : BOOLEAN]
SfActivityRecord == [live : BOOLEAN, list : 0..SfMaxQueues, made : 0..SfMaxQueues]
SfPollRecord == [pc : {"idle", "polling"}, list : 0..SfMaxQueues, holds : SUBSET SfTokenIds]
SfLists == 0..SfMaxQueues
SfShapes ==
  /\ sfExec \in [SfExecutions -> SfExecutionRecord] /\ sfThread \in [SfExecutions -> SfThreadRecord]
  /\ sfTokens \in [SfTokenIds -> SfTokenRecord] /\ sfActivity \in SfActivityRecord
  /\ sfQueues \in [SfLists -> Seq(SfTokenIds)] /\ sfWorker \in [SfWorkers -> SfPollRecord]
  /\ sfKnown \subseteq SfTokenIds

(* A thread exists for what was started, and has an attempt to go where it  *)
(* schedules the task.                                                      *)
SfCounted == \A x \in SfExecutions :
  /\ sfThread[x].pc = "none" <=> sfExec[x].status = "absent"
  /\ sfThread[x].pc \in {"none", "enter"} => sfThread[x].attempt = 0
  /\ sfThread[x].pc = "schedule" => sfThread[x].attempt < SfMaxAttempts

(* A token is out once a client has seen it or a list offers it.  It is     *)
(* then of an attempt that has begun, and in the table exactly as long as   *)
(* that attempt waits; what is in the table of no such attempt (a list that *)
(* a restart lost) nobody ever sees.                                        *)
SfOut(t) == t \in sfKnown \/ \E q \in SfLists : \E i \in 1..Len(sfQueues[q]) : sfQueues[q][i] = t
SfAwaited(t) == SfWaiting(t[1]) /\ SfToken(t[1]) = t
SfBegun == \A t \in SfTokenIds : SfOut(t) => t[2] <= sfThread[t[1]].attempt
SfOpen == \A t \in SfTokenIds :
  /\ SfAwaited(t) => sfTokens[t].there
  /\ sfTokens[t].there /\ SfOut(t) => SfAwaited(t)

(* What a worker was given it has seen, and a token is offered once.        *)
SfGiven == \A w \in SfWorkers : sfWorker[w].holds \subseteq sfKnown
SfOffered == \A q, r \in SfLists : \A i \in 1..Len(sfQueues[q]), j \in 1..Len(sfQueues[r]) :
  sfQueues[q][i] = sfQueues[r][j] => q = r /\ i = j

SfInv == SfShapes /\ SfCounted /\ SfBegun /\ SfOpen /\ SfGiven /\ SfOffered /\ SfHandedOnce

LEMMA SfNumbers ==
  /\ SfMaxAttempts \in Nat /\ SfMaxAttempts > 0 /\ SfMaxQueues \in Nat /\ 0 \in SfLists
  /\ \A x \in SfExecutions, n \in 0..SfMaxAttempts : <<x, n>> \in SfTokenIds
  /\ \A t \in SfTokenIds : t[1] \in SfExecutions /\ t[2] \in 0..SfMaxAttempts /\ t = <<t[1], t[2]>>
  /\ SfPopped \in SfTokenRecord /\ SfRegistered \in SfTokenRecord
  /\ ~SfPopped.there /\ SfRegistered.there
<1>1. SfMaxAttempts \in Nat /\ SfMaxAttempts > 0 /\ SfMaxQueues \in Nat BY SfAssumption
<1>2. 0 \in SfLists BY <1>1 DEF SfLists
<1>3. \A x \in SfExecutions, n \in 0..SfMaxAttempts : <<x, n>> \in SfTokenIds BY DEF SfTokenIds
<1>4. \A t \in SfTokenIds : t[1] \in SfExecutions /\ t[2] \in 0..SfMaxAttempts /\ t = <<t[1], t[2]>>
  BY DEF SfTokenIds
<1> QED BY <1>1, <1>2, <1>3, <1>4 DEF SfPopped, SfRegistered, SfTokenRecord

(* The token of an execution is one, and names it.                          *)
LEMMA SfTokenIs ==
  ASSUME SfShapes, NEW x \in SfExecutions
  PROVE  SfToken(x) \in SfTokenIds /\ SfToken(x)[1] = x
<1>1. sfThread[x].attempt \in 0..SfMaxAttempts BY DEF SfShapes, SfThreadRecord
<1>2. 0 \in 0..SfMaxAttempts BY SfNumbers
<1> QED BY <1>1, <1>2 DEF SfToken, SfTokenIds

LEMMA SfInitInv == SfInit => SfInv
<1> SUFFICES ASSUME SfInit PROVE SfInv OBVIOUS
<1>1. SfShapes
  <2>1. 0 \in 0..SfMaxAttempts /\ 0 \in 0..SfMaxQueues BY SfNumbers
  <2> QED BY <2>1, SfNumbers DEF SfInit, SfShapes, SfExecutionRecord, SfThreadRecord, SfActivityRecord,
            SfPollRecord, SfIdle, SfLists
<1>2. SfCounted BY DEF SfInit, SfCounted
<1>3. \A t \in SfTokenIds : ~SfOut(t) /\ ~SfAwaited(t)
  BY SfNumbers DEF SfInit, SfOut, SfAwaited, SfWaiting, SfLists
<1>4. SfBegun /\ SfOpen BY <1>3 DEF SfBegun, SfOpen
<1>5. SfGiven BY DEF SfInit, SfGiven, SfIdle
<1>6. SfOffered /\ SfHandedOnce BY DEF SfInit, SfOffered, SfHandedOnce, SfIdle, SfLists
<1> QED BY <1>1, <1>2, <1>4, <1>5, <1>6 DEF SfInv

-----------------------------------------------------------------------------
(* The shapes, one action after the other.                                  *)
LEMMA SfGoes ==
  ASSUME SfShapes, NEW x \in SfExecutions, NEW new \in SfThreadRecord,
         sfThread' = [sfThread EXCEPT ![x] = new]
  PROVE  sfThread' \in [SfExecutions -> SfThreadRecord] /\ sfThread'[x] = new
         /\ \A y \in SfExecutions : y # x => sfThread'[y] = sfThread[y]
BY DEF SfShapes

LEMMA SfGoTo ==
  ASSUME SfShapes, NEW x \in SfExecutions,
         NEW pc \in {"none", "enter", "schedule", "call", "wait", "expired", "failed", "exit",
                     "commit", "raise", "done"}, SfGo(x, pc)
  PROVE  /\ sfThread' \in [SfExecutions -> SfThreadRecord]
         /\ sfThread'[x].pc = pc /\ sfThread'[x].attempt = sfThread[x].attempt
         /\ \A y \in SfExecutions : y # x => sfThread'[y] = sfThread[y]
<1> DEFINE new == [sfThread[x] EXCEPT !.pc = pc]
<1>1. sfThread[x] \in SfThreadRecord /\ sfThread \in [SfExecutions -> SfThreadRecord] BY DEF SfShapes
<1>2. new \in SfThreadRecord /\ new.pc = pc /\ new.attempt = sfThread[x].attempt BY <1>1 DEF SfThreadRecord
<1>3. sfThread' = [sfThread EXCEPT ![x] = new] BY <1>1 DEF SfGo
<1> HIDE DEF new
<1> QED BY <1>2, <1>3, SfGoes

LEMMA SfTries ==
  ASSUME SfShapes, SfCounted, NEW x \in SfExecutions, sfThread[x].pc = "schedule",
         NEW pc \in {"call", "wait", "failed", "raise"},
         sfThread' = [sfThread EXCEPT ![x] = [pc |-> pc, attempt |-> sfThread[x].attempt + 1]]
  PROVE  /\ sfThread' \in [SfExecutions -> SfThreadRecord]
         /\ sfThread'[x].pc = pc /\ sfThread'[x].attempt = sfThread[x].attempt + 1
         /\ \A y \in SfExecutions : y # x => sfThread'[y] = sfThread[y]
         /\ sfThread[x].attempt + 1 \in 0..SfMaxAttempts
<1> DEFINE new == [pc |-> pc, attempt |-> sfThread[x].attempt + 1]
<1>1. sfThread[x].attempt \in 0..SfMaxAttempts BY DEF SfShapes, SfThreadRecord
<1>2. sfThread[x].attempt < SfMaxAttempts BY DEF SfCounted
<1>3. sfThread[x].attempt + 1 \in 0..SfMaxAttempts BY <1>1, <1>2, SfNumbers
<1>4. new \in SfThreadRecord BY <1>3 DEF SfThreadRecord
<1> QED BY <1>3, <1>4, SfGoes

-----------------------------------------------------------------------------
(* A step that leaves alone who waits, for which token, and what is out.    *)
SfQuiet ==
  /\ \A x \in SfExecutions :
       /\ SfWaiting(x)' <=> SfWaiting(x)
       /\ SfWaiting(x) => SfToken(x)' = SfToken(x)
       /\ sfThread[x].attempt <= sfThread'[x].attempt
  /\ \A t \in SfTokenIds : sfTokens'[t].there <=> sfTokens[t].there
  /\ \A w \in SfWorkers : sfWorker'[w].holds = sfWorker[w].holds
  /\ UNCHANGED <<sfQueues, sfKnown>>

SfRest == SfBegun /\ SfOpen /\ SfGiven /\ SfOffered /\ SfHandedOnce

LEMMA SfQuietInv ==
  ASSUME SfShapes, SfRest, SfShapes', SfQuiet
  PROVE  SfRest'
<1>1. \A t \in SfTokenIds : SfOut(t)' <=> SfOut(t) BY DEF SfOut, SfQuiet
<1>2. \A t \in SfTokenIds : SfAwaited(t)' <=> SfAwaited(t) BY SfNumbers DEF SfAwaited, SfQuiet
<1>3. SfBegun'
  <2> SUFFICES ASSUME NEW t \in SfTokenIds, SfOut(t)' PROVE t[2] <= sfThread'[t[1]].attempt BY DEF SfBegun
  <2>1. t[1] \in SfExecutions /\ t[2] \in Int BY SfNumbers
  <2>2. t[2] <= sfThread[t[1]].attempt BY <1>1 DEF SfRest, SfBegun
  <2>3. sfThread[t[1]].attempt \in Int /\ sfThread'[t[1]].attempt \in Int
    BY <2>1 DEF SfShapes, SfThreadRecord
  <2>4. sfThread[t[1]].attempt <= sfThread'[t[1]].attempt BY <2>1 DEF SfQuiet
  <2> QED BY <2>1, <2>2, <2>3, <2>4
<1>4. SfOpen' BY <1>1, <1>2 DEF SfRest, SfOpen, SfQuiet
<1>5. SfGiven' /\ SfOffered' /\ SfHandedOnce'
  BY DEF SfRest, SfGiven, SfOffered, SfHandedOnce, SfLists, SfQuiet
<1> QED BY <1>3, <1>4, <1>5 DEF SfRest

(* The thread of x takes a step that neither begins nor ends a wait.        *)
LEMMA SfMoveInv ==
  ASSUME SfShapes, SfCounted, SfRest, NEW x \in SfExecutions,
         sfExec' \in [SfExecutions -> SfExecutionRecord],
         \A y \in SfExecutions : y # x => sfExec'[y] = sfExec[y] /\ sfThread'[y] = sfThread[y],
         sfThread' \in [SfExecutions -> SfThreadRecord],
         SfWaiting(x)' <=> SfWaiting(x),
         SfWaiting(x) => sfExec'[x].kind = sfExec[x].kind /\ sfThread'[x].attempt = sfThread[x].attempt,
         sfThread[x].attempt <= sfThread'[x].attempt,
         sfThread'[x].pc = "none" <=> sfExec'[x].status = "absent",
         sfThread'[x].pc \in {"none", "enter"} => sfThread'[x].attempt = 0,
         sfThread'[x].pc = "schedule" => sfThread'[x].attempt < SfMaxAttempts,
         UNCHANGED <<sfTokens, sfActivity, sfQueues, sfWorker, sfKnown, sfRestarts>>
  PROVE  SfShapes' /\ SfCounted' /\ SfRest'
<1>1. SfShapes' BY DEF SfShapes
<1>2. SfCounted' BY DEF SfCounted
<1>3. \A y \in SfExecutions :
        /\ SfWaiting(y)' <=> SfWaiting(y)
        /\ SfWaiting(y) => SfToken(y)' = SfToken(y)
        /\ sfThread[y].attempt <= sfThread'[y].attempt
  <2> TAKE y \in SfExecutions
  <2>1. CASE y = x BY <2>1 DEF SfToken
  <2>2. CASE y # x
    <3>1. sfThread[y].attempt \in Int BY DEF SfShapes, SfThreadRecord
    <3> QED BY <2>2, <3>1 DEF SfToken, SfWaiting
  <2> QED BY <2>1, <2>2
<1>4. SfQuiet BY <1>3 DEF SfQuiet
<1> QED BY <1>1, <1>2, <1>4, SfQuietInv

LEMMA SfThreadStays == ASSUME SfShapes, NEW x \in SfExecutions
  PROVE /\ sfThread[x] \in SfThreadRecord /\ sfExec[x] \in SfExecutionRecord
        /\ sfThread[x].attempt \in 0..SfMaxAttempts /\ sfThread[x].attempt \in Int
        /\ sfThread[x].attempt <= sfThread[x].attempt
BY DEF SfShapes, SfThreadRecord

LEMMA SfStartInv ==
  ASSUME SfShapes, SfCounted, SfRest, NEW x \in SfExecutions, NEW kind \in {"callback", "activity"},
         SfStart(x, kind)
  PROVE  SfShapes' /\ SfCounted' /\ SfRest'
<1>1. [status |-> "RUNNING", kind |-> kind] \in SfExecutionRecord BY DEF SfExecutionRecord
<1>2. /\ sfExec' \in [SfExecutions -> SfExecutionRecord] /\ sfExec'[x].status = "RUNNING"
      /\ \A y \in SfExecutions : y # x => sfExec'[y] = sfExec[y]
  BY <1>1 DEF SfStart, SfShapes
<1>3. SfGo(x, "enter") BY DEF SfStart
<1>4. /\ sfThread' \in [SfExecutions -> SfThreadRecord]
      /\ sfThread'[x].pc = "enter" /\ sfThread'[x].attempt = sfThread[x].attempt
      /\ \A y \in SfExecutions : y # x => sfThread'[y] = sfThread[y]
  BY <1>3, SfGoTo
<1>5. sfThread[x].pc = "none" /\ sfThread[x].attempt = 0 BY DEF SfStart, SfCounted
<1>6. UNCHANGED <<sfTokens, sfActivity, sfQueues, sfWorker, sfKnown, sfRestarts>> BY DEF SfStart
<1> QED BY <1>2, <1>4, <1>5, <1>6, SfMoveInv DEF SfWaiting

LEMMA SfStopInv ==
  ASSUME SfShapes, SfCounted, SfRest, NEW x \in SfExecutions, SfStop(x)
  PROVE  SfShapes' /\ SfCounted' /\ SfRest'
<1> DEFINE new == [sfExec[x] EXCEPT !.status = "ABORTED"]
<1>1. new \in SfExecutionRecord /\ new.status = "ABORTED" /\ new.kind = sfExec[x].kind
  BY SfThreadStays DEF SfExecutionRecord
<1>2. sfExec' = [sfExec EXCEPT ![x] = new] BY DEF SfStop, SfShapes
<1> HIDE DEF new
<1>3. /\ sfExec' \in [SfExecutions -> SfExecutionRecord] /\ sfExec'[x] = new
      /\ \A y \in SfExecutions : y # x => sfExec'[y] = sfExec[y]
  BY <1>1, <1>2 DEF SfShapes
<1>4. sfExec[x].status = "RUNNING"
      /\ UNCHANGED <<sfThread, sfTokens, sfActivity, sfQueues, sfWorker, sfKnown, sfRestarts>>
  BY DEF SfStop
<1>5. sfThread[x].pc # "none" BY <1>4 DEF SfCounted
<1>6. sfThread' \in [SfExecutions -> SfThreadRecord] BY <1>4 DEF SfShapes
<1>7. /\ sfThread[x].pc \in {"none", "enter"} => sfThread[x].attempt = 0
      /\ sfThread[x].pc = "schedule" => sfThread[x].attempt < SfMaxAttempts
  BY DEF SfCounted
<1> QED BY <1>1, <1>3, <1>4, <1>5, <1>6, <1>7, SfThreadStays, SfMoveInv DEF SfWaiting

(* Steps of a thread that neither begin nor end a wait.                     *)
LEMMA SfStepsInv ==
  ASSUME SfShapes, SfCounted, SfRest, NEW x \in SfExecutions,
         SfEnter(x) \/ SfExpire(x) \/ SfRetry(x) \/ SfExit(x)
  PROVE  SfShapes' /\ SfCounted' /\ SfRest'
<1>1. UNCHANGED <<sfExec, sfTokens, sfActivity, sfQueues, sfWorker, sfKnown, sfRestarts>>
  BY DEF SfEnter, SfExpire, SfRetry, SfExit
<1>2. PICK pc \in {"schedule", "done", "expired", "raise", "commit"} :
        /\ SfGo(x, pc) /\ sfThread[x].pc \in {"enter", "wait", "failed", "exit"}
        /\ pc = "expired" <=> sfThread[x].pc = "wait"
        /\ pc = "schedule" => sfThread[x].pc = "enter" \/ sfThread[x].attempt < SfMaxAttempts
  BY DEF SfEnter, SfExpire, SfRetry, SfExit
<1>3. /\ sfThread' \in [SfExecutions -> SfThreadRecord]
      /\ sfThread'[x].pc = pc /\ sfThread'[x].attempt = sfThread[x].attempt
      /\ \A y \in SfExecutions : y # x => sfThread'[y] = sfThread[y]
  BY <1>2, SfGoTo
<1>4. sfExec' \in [SfExecutions -> SfExecutionRecord] BY <1>1 DEF SfShapes
<1>5. sfExec[x].status # "absent" BY <1>2 DEF SfCounted
<1>6. pc = "schedule" => sfThread[x].attempt < SfMaxAttempts BY <1>2, SfNumbers DEF SfCounted
<1>7. SfWaiting(x)' <=> SfWaiting(x) BY <1>2, <1>3 DEF SfWaiting
<1> QED BY <1>1, <1>2, <1>3, <1>4, <1>5, <1>6, <1>7, SfThreadStays, SfMoveInv

LEMMA SfNoActivityInv ==
  ASSUME SfShapes, SfCounted, SfRest, NEW x \in SfExecutions, SfNoActivity(x)
  PROVE  SfShapes' /\ SfCounted' /\ SfRest'
<1>1. UNCHANGED <<sfExec, sfTokens, sfActivity, sfQueues, sfWorker, sfKnown, sfRestarts>> BY DEF SfNoActivity
<1>2. sfThread[x].pc = "schedule"
      /\ sfThread' = [sfThread EXCEPT ![x] = [pc |-> "failed", attempt |-> sfThread[x].attempt + 1]]
  BY DEF SfNoActivity
<1>3. /\ sfThread' \in [SfExecutions -> SfThreadRecord]
      /\ sfThread'[x].pc = "failed" /\ sfThread'[x].attempt = sfThread[x].attempt + 1
      /\ \A y \in SfExecutions : y # x => sfThread'[y] = sfThread[y]
  BY <1>2, SfTries
<1>4. sfExec' \in [SfExecutions -> SfExecutionRecord] BY <1>1 DEF SfShapes
<1>5. sfExec[x].status # "absent" BY <1>2 DEF SfCounted
<1>6. sfThread[x].attempt <= sfThread[x].attempt + 1 BY SfThreadStays
<1> QED BY <1>1, <1>2, <1>3, <1>4, <1>5, <1>6, SfMoveInv DEF SfWaiting

LEMMA SfEndsInv ==
  ASSUME SfShapes, SfCounted, SfRest, NEW x \in SfExecutions, SfSucceed(x) \/ SfFail(x)
  PROVE  SfShapes' /\ SfCounted' /\ SfRest'
<1>1. UNCHANGED <<sfTokens, sfActivity, sfQueues, sfWorker, sfKnown, sfRestarts>> BY DEF SfSucceed, SfFail
<1>2. SfGo(x, "done") /\ sfThread[x].pc \in {"commit", "raise"} BY DEF SfSucceed, SfFail
<1>3. /\ sfThread' \in [SfExecutions -> SfThreadRecord]
      /\ sfThread'[x].pc = "done" /\ sfThread'[x].attempt = sfThread[x].attempt
      /\ \A y \in SfExecutions : y # x => sfThread'[y] = sfThread[y]
  BY <1>2, SfGoTo
<1>4. sfExec[x].status # "absent" BY <1>2 DEF SfCounted
<1> DEFINE new(s) == [sfExec[x] EXCEPT !.status = s]
<1>5. \A s \in {"SUCCEEDED", "FAILED", sfExec[x].status} :
        new(s) \in SfExecutionRecord /\ new(s).status = s
  BY SfThreadStays DEF SfExecutionRecord
<1>6. PICK s \in {"SUCCEEDED", "FAILED", sfExec[x].status} : sfExec' = [sfExec EXCEPT ![x] = new(s)]
  <2>1. CASE SfSucceed(x) BY <2>1 DEF SfSucceed, SfShapes
  <2>2. CASE SfFail(x) BY <2>2 DEF SfFail, SfShapes
  <2> QED BY <2>1, <2>2
<1> HIDE DEF new
<1>7. /\ sfExec' \in [SfExecutions -> SfExecutionRecord] /\ sfExec'[x] = new(s)
      /\ \A y \in SfExecutions : y # x => sfExec'[y] = sfExec[y]
  BY <1>5, <1>6 DEF SfShapes
<1>8. sfExec'[x].status # "absent" BY <1>4, <1>5, <1>7
<1> QED BY <1>1, <1>2, <1>3, <1>7, <1>8, SfThreadStays, SfMoveInv DEF SfWaiting

(* Steps that leave the threads alone.                                      *)
LEMMA SfOthersInv ==
  ASSUME SfShapes, SfCounted, SfRest, SfShapes', UNCHANGED <<sfExec, sfThread, sfQueues, sfKnown>>,
         \A t \in SfTokenIds : sfTokens'[t].there <=> sfTokens[t].there,
         \A w \in SfWorkers : sfWorker'[w].holds = sfWorker[w].holds
  PROVE  SfCounted' /\ SfRest'
<1>1. SfCounted' BY DEF SfCounted
<1>2. \A x \in SfExecutions :
        /\ SfWaiting(x)' <=> SfWaiting(x)
        /\ SfWaiting(x) => SfToken(x)' = SfToken(x)
        /\ sfThread[x].attempt <= sfThread'[x].attempt
  BY SfThreadStays DEF SfWaiting, SfToken
<1> QED BY <1>1, <1>2, SfQuietInv DEF SfQuiet

LEMMA SfSendTaskInv ==
  ASSUME SfShapes, SfCounted, SfRest, NEW t \in SfTokenIds, NEW how \in {"result", "error"},
         SfSendTask(t, how)
  PROVE  SfShapes' /\ SfCounted' /\ SfRest'
<1> DEFINE new == [sfTokens[t] EXCEPT ![how] = TRUE]
<1>1. sfTokens[t] \in SfTokenRecord BY DEF SfShapes
<1>2. new \in SfTokenRecord /\ (new.there <=> sfTokens[t].there)
  <2>1. CASE how = "result"
    <3>0. new = [sfTokens[t] EXCEPT !.result = TRUE] BY <2>1, Zenon
    <3> HIDE DEF new
    <3>1. new = [there |-> sfTokens[t].there, result |-> TRUE, error |-> sfTokens[t].error]
      BY <1>1, <3>0 DEF SfTokenRecord
    <3> QED BY <1>1, <3>1 DEF SfTokenRecord
  <2>2. CASE how = "error"
    <3>0. new = [sfTokens[t] EXCEPT !.error = TRUE] BY <2>2, Zenon
    <3> HIDE DEF new
    <3>1. new = [there |-> sfTokens[t].there, result |-> sfTokens[t].result, error |-> TRUE]
      BY <1>1, <3>0 DEF SfTokenRecord
    <3> QED BY <1>1, <3>1 DEF SfTokenRecord
  <2> QED BY <2>1, <2>2
<1>3. sfTokens' = [sfTokens EXCEPT ![t] = new] BY DEF SfSendTask, SfShapes
<1> HIDE DEF new
<1>4. sfTokens' \in [SfTokenIds -> SfTokenRecord] BY <1>2, <1>3 DEF SfShapes
<1>5. \A u \in SfTokenIds : sfTokens'[u].there <=> sfTokens[u].there BY <1>2, <1>3 DEF SfShapes
<1>6. UNCHANGED <<sfExec, sfThread, sfActivity, sfQueues, sfWorker, sfKnown, sfRestarts>> BY DEF SfSendTask
<1>7. SfShapes' BY <1>4, <1>6 DEF SfShapes
<1> QED BY <1>5, <1>6, <1>7, SfOthersInv

LEMMA SfActivityInv ==
  ASSUME SfShapes, SfCounted, SfRest, SfCreateActivity \/ SfDeleteActivity
  PROVE  SfShapes' /\ SfCounted' /\ SfRest'
<1>1. sfActivity' \in SfActivityRecord
  <2>1. CASE SfCreateActivity
    <3>1. sfActivity.made + 1 \in 0..SfMaxQueues
      BY <2>1, SfNumbers DEF SfCreateActivity, SfShapes, SfActivityRecord
    <3> QED BY <2>1, <3>1 DEF SfCreateActivity, SfActivityRecord
  <2>2. CASE SfDeleteActivity
    <3>1. 0 \in 0..SfMaxQueues BY SfNumbers
    <3> QED BY <2>2, <3>1 DEF SfDeleteActivity, SfShapes, SfActivityRecord
  <2> QED BY <2>1, <2>2
<1>2. UNCHANGED <<sfExec, sfThread, sfTokens, sfQueues, sfWorker, sfKnown, sfRestarts>>
  BY DEF SfCreateActivity, SfDeleteActivity
<1>3. SfShapes' BY <1>1, <1>2 DEF SfShapes
<1> QED BY <1>2, <1>3, SfOthersInv

LEMMA SfPollInv ==
  ASSUME SfShapes, SfCounted, SfRest, NEW w \in SfWorkers, SfPoll(w) \/ SfPollExpires(w)
  PROVE  SfShapes' /\ SfCounted' /\ SfRest'
<1> DEFINE new(pc, list) == [sfWorker[w] EXCEPT !.pc = pc, !.list = list]
<1>1. sfWorker[w] \in SfPollRecord BY DEF SfShapes
<1>2. \A pc \in {"idle", "polling"}, list \in 0..SfMaxQueues :
        new(pc, list) \in SfPollRecord /\ new(pc, list).holds = sfWorker[w].holds
  BY <1>1 DEF SfPollRecord
<1>3. PICK pc \in {"idle", "polling"}, list \in 0..SfMaxQueues : sfWorker' = [sfWorker EXCEPT ![w] = new(pc, list)]
  <2>1. CASE SfPoll(w)
    <3>1. sfActivity.list \in 0..SfMaxQueues BY DEF SfShapes, SfActivityRecord
    <3>2. sfWorker' = [sfWorker EXCEPT ![w] = new("polling", sfActivity.list)] BY <2>1 DEF SfPoll, SfShapes
    <3> QED BY <3>1, <3>2
  <2>2. CASE SfPollExpires(w)
    <3>1. 0 \in 0..SfMaxQueues BY SfNumbers
    <3>2. sfWorker' = [sfWorker EXCEPT ![w] = new("idle", 0)] BY <2>2 DEF SfPollExpires, SfShapes
    <3> QED BY <3>1, <3>2
  <2> QED BY <2>1, <2>2
<1> HIDE DEF new
<1>4. sfWorker' \in [SfWorkers -> SfPollRecord] BY <1>2, <1>3 DEF SfShapes
<1>5. \A v \in SfWorkers : sfWorker'[v].holds = sfWorker[v].holds BY <1>2, <1>3 DEF SfShapes
<1>6. UNCHANGED <<sfExec, sfThread, sfTokens, sfActivity, sfQueues, sfKnown, sfRestarts>>
  BY DEF SfPoll, SfPollExpires
<1>7. SfShapes' BY <1>4, <1>6 DEF SfShapes
<1> QED BY <1>5, <1>6, <1>7, SfOthersInv

-----------------------------------------------------------------------------
(* A wait ends: with it the token goes, in one step.                        *)
LEMMA SfPopsInv ==
  ASSUME SfShapes, SfCounted, SfRest, NEW x \in SfExecutions, SfCallFails(x) \/ SfWake(x) \/ SfTimeout(x)
  PROVE  SfShapes' /\ SfCounted' /\ SfRest'
<1>1. UNCHANGED <<sfExec, sfActivity, sfQueues, sfWorker, sfKnown, sfRestarts>>
  BY DEF SfCallFails, SfWake, SfTimeout
<1>2. PICK pc \in {"failed", "exit"} : SfGo(x, pc)
  BY DEF SfCallFails, SfWake, SfTimeout
<1>3. SfWaiting(x) /\ sfTokens' = [sfTokens EXCEPT ![SfToken(x)] = SfPopped]
  BY DEF SfCallFails, SfWake, SfTimeout, SfWaiting
<1>4. /\ sfThread' \in [SfExecutions -> SfThreadRecord]
      /\ sfThread'[x].pc = pc /\ sfThread'[x].attempt = sfThread[x].attempt
      /\ \A y \in SfExecutions : y # x => sfThread'[y] = sfThread[y]
  BY <1>2, SfGoTo
<1>5. SfShapes' BY <1>1, <1>3, <1>4, SfNumbers, SfTokenIs DEF SfShapes
<1>6. SfCounted' BY <1>1, <1>3, <1>4 DEF SfCounted, SfWaiting
<1>7. \A t \in SfTokenIds : SfOut(t)' <=> SfOut(t) BY <1>1 DEF SfOut
<1>8. SfBegun'
  <2>1. \A y \in SfExecutions : sfThread'[y].attempt = sfThread[y].attempt BY <1>4
  <2> QED BY <1>7, <2>1, SfNumbers DEF SfRest, SfBegun
<1>9. SfOpen'
  <2> SUFFICES ASSUME NEW t \in SfTokenIds
               PROVE  /\ SfAwaited(t)' => sfTokens'[t].there
                      /\ sfTokens'[t].there /\ SfOut(t)' => SfAwaited(t)'
    BY DEF SfOpen
  <2>1. CASE t = SfToken(x)
    <3>1. ~sfTokens'[t].there BY <1>3, <2>1, SfNumbers, SfTokenIs DEF SfShapes
    <3>2. ~SfWaiting(x)' BY <1>4 DEF SfWaiting
    <3> QED BY <2>1, <3>1, <3>2, SfTokenIs DEF SfAwaited
  <2>2. CASE t # SfToken(x)
    <3>1. sfTokens'[t] = sfTokens[t] BY <1>3, <2>2, SfTokenIs DEF SfShapes
    <3>2. SfAwaited(t)' <=> SfAwaited(t)
      <4>1. t[1] \in SfExecutions BY SfNumbers
      <4>2. CASE t[1] = x BY <1>4, <2>2, <4>2 DEF SfAwaited, SfWaiting
      <4>3. CASE t[1] # x BY <1>1, <1>4, <4>1, <4>3 DEF SfAwaited, SfWaiting, SfToken
      <4> QED BY <4>2, <4>3
    <3> QED BY <1>7, <3>1, <3>2 DEF SfRest, SfOpen
  <2> QED BY <2>1, <2>2
<1>10. SfGiven' /\ SfOffered' /\ SfHandedOnce' BY <1>1 DEF SfRest, SfGiven, SfOffered, SfHandedOnce, SfLists
<1> QED BY <1>5, <1>6, <1>8, <1>9, <1>10 DEF SfRest

(* An attempt registers its token: one that was never out, or the callback's*)
(* own, which nothing waits for in between.                                 *)
LEMMA SfRegistersInv ==
  ASSUME SfShapes, SfCounted, SfRest, NEW x \in SfExecutions, sfThread[x].pc = "schedule",
         NEW pc \in {"call", "wait", "raise"},
         sfThread' = [sfThread EXCEPT ![x] = [pc |-> pc, attempt |-> sfThread[x].attempt + 1]],
         NEW n \in {0, sfThread[x].attempt + 1},
         sfTokens' = [sfTokens EXCEPT ![<<x, n>>] = SfRegistered],
         sfQueues' \in [SfLists -> Seq(SfTokenIds)],
         \A t \in SfTokenIds : SfOut(t)' => SfOut(t) \/ t = <<x, n>>,
         SfWaiting(x)' => SfToken(x)' = <<x, n>>,
         ~SfWaiting(x)' => n = sfThread[x].attempt + 1 /\ sfQueues' = sfQueues,
         UNCHANGED <<sfExec, sfActivity, sfWorker, sfKnown, sfRestarts>>
  PROVE  /\ SfShapes' /\ SfCounted' /\ SfBegun' /\ SfOpen' /\ SfGiven'
         /\ <<x, n>> \in SfTokenIds /\ (n = sfThread[x].attempt + 1 => ~SfOut(<<x, n>>))
<1>1. /\ sfThread' \in [SfExecutions -> SfThreadRecord]
      /\ sfThread'[x].pc = pc /\ sfThread'[x].attempt = sfThread[x].attempt + 1
      /\ \A y \in SfExecutions : y # x => sfThread'[y] = sfThread[y]
      /\ sfThread[x].attempt + 1 \in 0..SfMaxAttempts
  BY SfTries
<1>2. <<x, n>> \in SfTokenIds BY <1>1, SfNumbers
<1>3. /\ sfTokens' \in [SfTokenIds -> SfTokenRecord] /\ sfTokens'[<<x, n>>].there
      /\ \A t \in SfTokenIds : t # <<x, n>> => sfTokens'[t] = sfTokens[t]
  BY <1>2, SfNumbers DEF SfShapes
<1>4. SfShapes' BY <1>1, <1>3 DEF SfShapes
<1>5. SfCounted' BY <1>1 DEF SfCounted
<1>6. n = sfThread[x].attempt + 1 => ~SfOut(<<x, n>>)
  <2> SUFFICES ASSUME n = sfThread[x].attempt + 1, SfOut(<<x, n>>) PROVE FALSE OBVIOUS
  <2>1. n <= sfThread[x].attempt BY <1>2 DEF SfRest, SfBegun
  <2> QED BY <2>1, SfThreadStays
<1>7. SfBegun'
  <2> SUFFICES ASSUME NEW t \in SfTokenIds, SfOut(t)' PROVE t[2] <= sfThread'[t[1]].attempt BY DEF SfBegun
  <2>1. CASE t = <<x, n>>
    <3>1. t[1] = x /\ t[2] = n BY <2>1
    <3>2. n <= sfThread[x].attempt + 1 BY SfThreadStays, <1>1
    <3> QED BY <1>1, <3>1, <3>2
  <2>2. CASE t # <<x, n>>
    <3>1. t[1] \in SfExecutions /\ t[2] \in Int BY SfNumbers
    <3>2. t[2] <= sfThread[t[1]].attempt BY <2>2 DEF SfRest, SfBegun
    <3>3. sfThread[t[1]].attempt \in Int BY <3>1, SfThreadStays
    <3>4. sfThread'[t[1]].attempt \in {sfThread[t[1]].attempt, sfThread[t[1]].attempt + 1} BY <1>1, <3>1
    <3> QED BY <3>1, <3>2, <3>3, <3>4
  <2> QED BY <2>1, <2>2
<1>8. ~SfWaiting(x) BY DEF SfWaiting
<1>9. SfOpen'
  <2> SUFFICES ASSUME NEW t \in SfTokenIds
               PROVE  /\ SfAwaited(t)' => sfTokens'[t].there
                      /\ sfTokens'[t].there /\ SfOut(t)' => SfAwaited(t)'
    BY DEF SfOpen
  <2>1. CASE t = <<x, n>>
    <3>1. t[1] = x BY <2>1
    <3>2. CASE SfWaiting(x)' BY <1>3, <2>1, <3>1, <3>2 DEF SfAwaited
    <3>3. CASE ~SfWaiting(x)'
      <4>1. ~SfOut(t) BY <1>6, <2>1, <3>3
      <4>2. ~SfOut(t)' BY <3>3, <4>1 DEF SfOut
      <4> QED BY <3>1, <3>3, <4>2 DEF SfAwaited
    <3> QED BY <3>2, <3>3
  <2>2. CASE t # <<x, n>> /\ t[1] = x
    <3>1. ~SfAwaited(t) BY <1>8, <2>2 DEF SfAwaited
    <3>2. ~SfAwaited(t)' BY <2>2 DEF SfAwaited
    <3>3. ~(sfTokens[t].there /\ SfOut(t)) BY <3>1 DEF SfRest, SfOpen
    <3> QED BY <1>3, <2>2, <3>2, <3>3
  <2>3. CASE t # <<x, n>> /\ t[1] # x
    <3>1. t[1] \in SfExecutions BY SfNumbers
    <3>2. SfAwaited(t)' <=> SfAwaited(t) BY <1>1, <2>3, <3>1 DEF SfAwaited, SfWaiting, SfToken
    <3> QED BY <1>3, <2>3, <3>2 DEF SfRest, SfOpen
  <2> QED BY <2>1, <2>2, <2>3
<1>10. SfGiven' BY DEF SfRest, SfGiven
<1> QED BY <1>2, <1>4, <1>5, <1>6, <1>7, <1>9, <1>10

LEMMA SfSchedulesInv ==
  ASSUME SfShapes, SfCounted, SfRest, NEW x \in SfExecutions, SfScheduleCallback(x) \/ SfNoQueue(x)
  PROVE  SfShapes' /\ SfCounted' /\ SfRest'
<1>1. UNCHANGED <<sfExec, sfActivity, sfQueues, sfWorker, sfKnown, sfRestarts>> /\ sfThread[x].pc = "schedule"
  BY DEF SfScheduleCallback, SfNoQueue
<1>2. sfQueues' \in [SfLists -> Seq(SfTokenIds)] /\ \A t \in SfTokenIds : SfOut(t)' => SfOut(t)
  BY <1>1 DEF SfShapes, SfOut
<1>3. SfOffered' /\ SfHandedOnce' BY <1>1 DEF SfRest, SfOffered, SfHandedOnce, SfLists
<1>4. CASE SfScheduleCallback(x)
  <2>1. /\ sfThread' = [sfThread EXCEPT ![x] = [pc |-> "call", attempt |-> sfThread[x].attempt + 1]]
        /\ sfTokens' = [sfTokens EXCEPT ![<<x, 0>>] = SfRegistered] /\ sfExec[x].kind = "callback"
    BY <1>4 DEF SfScheduleCallback
  <2>2. SfToken(x)' = <<x, 0>> BY <1>1, <2>1 DEF SfToken
  <2>3. SfWaiting(x)' BY <1>1, <2>1, SfTries DEF SfWaiting
  <2> QED BY <1>1, <1>2, <1>3, <2>1, <2>2, <2>3, SfRegistersInv DEF SfRest
<1>5. CASE SfNoQueue(x)
  <2>1. /\ sfThread' = [sfThread EXCEPT ![x] = [pc |-> "raise", attempt |-> sfThread[x].attempt + 1]]
        /\ sfTokens' = [sfTokens EXCEPT ![<<x, sfThread[x].attempt + 1>>] = SfRegistered]
    BY <1>5 DEF SfNoQueue
  <2>2. ~SfWaiting(x)' BY <1>1, <2>1, SfTries DEF SfWaiting
  <2> QED BY <1>1, <1>2, <1>3, <2>1, <2>2, SfRegistersInv DEF SfRest
<1> QED BY <1>4, <1>5

LEMMA SfScheduleActivityInv ==
  ASSUME SfShapes, SfCounted, SfRest, NEW x \in SfExecutions, SfScheduleActivity(x)
  PROVE  SfShapes' /\ SfCounted' /\ SfRest'
<1> DEFINE n == sfThread[x].attempt + 1
           t == <<x, n>>
           l == sfActivity.list
<1>1. /\ UNCHANGED <<sfExec, sfActivity, sfWorker, sfKnown, sfRestarts>>
      /\ sfThread[x].pc = "schedule" /\ sfExec[x].kind = "activity"
      /\ sfThread' = [sfThread EXCEPT ![x] = [pc |-> "wait", attempt |-> n]]
      /\ sfTokens' = [sfTokens EXCEPT ![t] = SfRegistered]
      /\ sfQueues' = [sfQueues EXCEPT ![l] = Append(sfQueues[l], t)]
  BY DEF SfScheduleActivity
<1>2. l \in SfLists BY DEF SfShapes, SfActivityRecord, SfLists
<1>3. /\ sfThread'[x].pc = "wait" /\ sfThread'[x].attempt = n /\ n \in 0..SfMaxAttempts
  BY <1>1, SfTries
<1>4. t \in SfTokenIds BY <1>3, SfNumbers
<1> HIDE DEF n, t, l
<1>5. sfQueues[l] \in Seq(SfTokenIds) /\ sfQueues \in [SfLists -> Seq(SfTokenIds)] BY <1>2 DEF SfShapes
<1>6. sfQueues' \in [SfLists -> Seq(SfTokenIds)] BY <1>1, <1>2, <1>4, <1>5
<1>7. \A q \in SfLists : \A i \in 1..Len(sfQueues'[q]) :
        \/ i \in 1..Len(sfQueues[q]) /\ sfQueues'[q][i] = sfQueues[q][i]
        \/ q = l /\ i = Len(sfQueues[l]) + 1 /\ sfQueues'[q][i] = t
  <2> TAKE q \in SfLists
  <2>1. CASE q = l
    <3>1. sfQueues'[q] = Append(sfQueues[l], t) BY <1>1, <1>2, <1>5, <2>1
    <3> QED BY <1>5, <2>1, <3>1
  <2>2. CASE q # l
    <3>1. sfQueues'[q] = sfQueues[q] BY <1>1, <1>5, <2>2
    <3> QED BY <3>1
  <2> QED BY <2>1, <2>2
<1>8. \A u \in SfTokenIds : SfOut(u)' => SfOut(u) \/ u = t BY <1>1, <1>7 DEF SfOut
<1>9. SfToken(x)' = t BY <1>1, <1>3 DEF SfToken, t
<1>10. SfWaiting(x)' BY <1>3 DEF SfWaiting
<1>11. /\ SfShapes' /\ SfCounted' /\ SfBegun' /\ SfOpen' /\ SfGiven' /\ ~SfOut(t)
  BY <1>1, <1>6, <1>8, <1>9, <1>10, SfRegistersInv DEF n, t
<1>12. SfOffered'
  <2> SUFFICES ASSUME NEW q \in SfLists, NEW r \in SfLists,
                      NEW i \in 1..Len(sfQueues'[q]), NEW j \in 1..Len(sfQueues'[r]),
                      sfQueues'[q][i] = sfQueues'[r][j]
               PROVE  q = r /\ i = j
    BY DEF SfOffered
  <2>1. \A p \in SfLists : \A k \in 1..Len(sfQueues[p]) : sfQueues[p][k] # t BY <1>11 DEF SfOut
  <2>2. \/ i \in 1..Len(sfQueues[q]) /\ sfQueues'[q][i] = sfQueues[q][i]
        \/ q = l /\ i = Len(sfQueues[l]) + 1 /\ sfQueues'[q][i] = t
    BY <1>7
  <2>3. \/ j \in 1..Len(sfQueues[r]) /\ sfQueues'[r][j] = sfQueues[r][j]
        \/ r = l /\ j = Len(sfQueues[l]) + 1 /\ sfQueues'[r][j] = t
    BY <1>7
  <2>4. SfOffered BY DEF SfRest
  <2>5. CASE i \in 1..Len(sfQueues[q]) /\ j \in 1..Len(sfQueues[r])
            /\ sfQueues'[q][i] = sfQueues[q][i] /\ sfQueues'[r][j] = sfQueues[r][j]
    <3>1. sfQueues[q][i] = sfQueues[r][j] BY <2>5
    <3> QED BY <2>4, <2>5, <3>1 DEF SfOffered
  <2> QED BY <2>1, <2>2, <2>3, <2>5
<1>13. SfHandedOnce'
  <2>1. \A w \in SfWorkers : t \notin sfWorker[w].holds BY <1>11 DEF SfOut, SfRest, SfGiven
  <2>2. \A w, v \in SfWorkers : w # v => sfWorker'[w].holds \cap sfWorker'[v].holds = {}
    BY <1>1 DEF SfRest, SfHandedOnce
  <2>3. \A w \in SfWorkers, q \in SfLists : \A i \in 1..Len(sfQueues'[q]) : sfQueues'[q][i] \notin sfWorker'[w].holds
    BY <1>1, <1>7, <2>1 DEF SfRest, SfHandedOnce, SfLists
  <2> QED BY <2>2, <2>3 DEF SfHandedOnce, SfLists
<1> QED BY <1>11, <1>12, <1>13 DEF SfRest

(* The call's token is out from the moment it is delivered.                 *)
LEMMA SfDeliverInv ==
  ASSUME SfShapes, SfCounted, SfRest, NEW x \in SfExecutions, SfDeliver(x)
  PROVE  SfShapes' /\ SfCounted' /\ SfRest'
<1>1. /\ UNCHANGED <<sfExec, sfTokens, sfActivity, sfQueues, sfWorker, sfRestarts>>
      /\ sfThread[x].pc = "call" /\ SfGo(x, "wait") /\ sfKnown' = sfKnown \cup {SfToken(x)}
  BY DEF SfDeliver
<1>2. /\ sfThread' \in [SfExecutions -> SfThreadRecord]
      /\ sfThread'[x].pc = "wait" /\ sfThread'[x].attempt = sfThread[x].attempt
      /\ \A y \in SfExecutions : y # x => sfThread'[y] = sfThread[y]
  BY <1>1, SfGoTo
<1>3. SfShapes' BY <1>1, <1>2, SfTokenIs DEF SfShapes
<1>4. SfCounted' BY <1>1, <1>2 DEF SfCounted
<1>5. \A t \in SfTokenIds : SfOut(t)' <=> SfOut(t) \/ t = SfToken(x) BY <1>1 DEF SfOut
<1>6. \A t \in SfTokenIds : SfAwaited(t)' <=> SfAwaited(t)
  <2>1. \A y \in SfExecutions : SfWaiting(y)' <=> SfWaiting(y) BY <1>1, <1>2 DEF SfWaiting
  <2>2. \A y \in SfExecutions : SfToken(y)' = SfToken(y) BY <1>1, <1>2 DEF SfToken
  <2> QED BY <2>1, <2>2, SfNumbers DEF SfAwaited
<1>7. SfAwaited(SfToken(x)) BY <1>1, SfTokenIs DEF SfAwaited, SfWaiting
<1>8. SfOpen' BY <1>1, <1>5, <1>6, <1>7 DEF SfRest, SfOpen
<1>9. SfBegun'
  <2>1. SfToken(x)[2] <= sfThread[x].attempt /\ SfToken(x)[1] = x
    BY SfThreadStays DEF SfToken
  <2>2. \A y \in SfExecutions : sfThread'[y].attempt = sfThread[y].attempt BY <1>2
  <2> QED BY <1>5, <2>1, <2>2, SfNumbers DEF SfRest, SfBegun
<1>10. SfGiven' /\ SfOffered' /\ SfHandedOnce' BY <1>1 DEF SfRest, SfGiven, SfOffered, SfHandedOnce, SfLists
<1> QED BY <1>3, <1>4, <1>8, <1>9, <1>10 DEF SfRest

(* A worker takes the first task off the list its poll captured.            *)
LEMMA SfTakeInv ==
  ASSUME SfShapes, SfCounted, SfRest, NEW w \in SfWorkers, SfTake(w)
  PROVE  SfShapes' /\ SfCounted' /\ SfRest'
<1> DEFINE l == sfWorker[w].list
           t == Head(sfQueues[l])
           new == [pc |-> "idle", list |-> 0, holds |-> sfWorker[w].holds \cup {t}]
<1>1. /\ UNCHANGED <<sfExec, sfThread, sfTokens, sfActivity, sfRestarts>> /\ sfQueues[l] # <<>>
      /\ sfWorker' = [sfWorker EXCEPT ![w] = new] /\ sfKnown' = sfKnown \cup {t}
      /\ sfQueues' = [sfQueues EXCEPT ![l] = Tail(sfQueues[l])]
  BY DEF SfTake
<1>2. sfWorker[w] \in SfPollRecord BY DEF SfShapes
<1>3. l \in SfLists BY <1>2 DEF SfPollRecord, SfLists
<1> HIDE DEF l
<1>4. sfQueues[l] \in Seq(SfTokenIds) /\ sfQueues \in [SfLists -> Seq(SfTokenIds)] BY <1>3 DEF SfShapes
<1>5. /\ t = sfQueues[l][1] /\ 1 \in 1..Len(sfQueues[l]) /\ t \in SfTokenIds
      /\ Tail(sfQueues[l]) \in Seq(SfTokenIds)
  BY <1>1, <1>4
<1>6. new \in SfPollRecord /\ new.holds = sfWorker[w].holds \cup {t}
  <2>1. 0 \in 0..SfMaxQueues BY SfNumbers
  <2> QED BY <1>2, <1>5, <2>1 DEF SfPollRecord
<1> HIDE DEF t, new
<1>7. /\ sfWorker' \in [SfWorkers -> SfPollRecord] /\ sfWorker'[w].holds = sfWorker[w].holds \cup {t}
      /\ \A v \in SfWorkers : v # w => sfWorker'[v].holds = sfWorker[v].holds
  BY <1>1, <1>6 DEF SfShapes
<1>8. sfQueues' \in [SfLists -> Seq(SfTokenIds)] BY <1>1, <1>3, <1>4, <1>5
<1>9. SfShapes' BY <1>1, <1>5, <1>7, <1>8 DEF SfShapes
<1>10. SfCounted' BY <1>1 DEF SfCounted
<1>11. \A q \in SfLists : \A i \in 1..Len(sfQueues'[q]) :
         LET j == IF q = l THEN i + 1 ELSE i IN
         j \in 1..Len(sfQueues[q]) /\ sfQueues'[q][i] = sfQueues[q][j]
  <2> TAKE q \in SfLists
  <2>1. CASE q = l
    <3>1. sfQueues'[q] = Tail(sfQueues[l]) BY <1>1, <1>3, <1>4, <2>1
    <3> QED BY <1>1, <1>4, <2>1, <3>1
  <2>2. CASE q # l
    <3>1. sfQueues'[q] = sfQueues[q] BY <1>1, <1>4, <2>2
    <3> QED BY <2>2, <3>1
  <2> QED BY <2>1, <2>2
<1>12. \A u \in SfTokenIds : SfOut(u)' => SfOut(u)
  <2>1. SfOut(t) BY <1>3, <1>5 DEF SfOut
  <2> QED BY <1>1, <1>11, <2>1 DEF SfOut
<1>13. \A u \in SfTokenIds : SfAwaited(u)' <=> SfAwaited(u) BY <1>1 DEF SfAwaited, SfWaiting, SfToken
<1>14. SfBegun' /\ SfOpen' BY <1>1, <1>12, <1>13 DEF SfRest, SfBegun, SfOpen
<1>15. SfGiven' BY <1>1, <1>7 DEF SfRest, SfGiven
<1>16. SfOffered'
  <2> SUFFICES ASSUME NEW q \in SfLists, NEW r \in SfLists,
                      NEW i \in 1..Len(sfQueues'[q]), NEW j \in 1..Len(sfQueues'[r]),
                      sfQueues'[q][i] = sfQueues'[r][j]
               PROVE  q = r /\ i = j
    BY DEF SfOffered
  <2>1. PICK k \in 1..Len(sfQueues[q]) :
          sfQueues'[q][i] = sfQueues[q][k] /\ k = IF q = l THEN i + 1 ELSE i
    BY <1>11
  <2>2. PICK n \in 1..Len(sfQueues[r]) :
          sfQueues'[r][j] = sfQueues[r][n] /\ n = IF r = l THEN j + 1 ELSE j
    BY <1>11
  <2>3. sfQueues[q][k] = sfQueues[r][n] BY <2>1, <2>2
  <2>5. q = r /\ k = n
    <3>1. \A i1 \in 1..Len(sfQueues[q]), j1 \in 1..Len(sfQueues[r]) :
            sfQueues[q][i1] = sfQueues[r][j1] => q = r /\ i1 = j1
      BY DEF SfRest, SfOffered
    <3> QED BY <2>3, <3>1, Zenon
  <2>4. i \in Int /\ j \in Int OBVIOUS
  <2> QED BY <2>1, <2>2, <2>4, <2>5
<1>17. SfHandedOnce'
  <2>1. \A v \in SfWorkers : t \notin sfWorker[v].holds
    BY <1>3, <1>5 DEF SfRest, SfHandedOnce, SfLists
  <2>2. \A v, u \in SfWorkers : v # u => sfWorker'[v].holds \cap sfWorker'[u].holds = {}
    <3> SUFFICES ASSUME NEW v \in SfWorkers, NEW u \in SfWorkers, v # u
                 PROVE  sfWorker'[v].holds \cap sfWorker'[u].holds = {}
      OBVIOUS
    <3>1. sfWorker[v].holds \cap sfWorker[u].holds = {} BY DEF SfRest, SfHandedOnce
    <3> QED BY <1>7, <2>1, <3>1
  <2>3. \A v \in SfWorkers, q \in SfLists : \A i \in 1..Len(sfQueues'[q]) : sfQueues'[q][i] \notin sfWorker'[v].holds
    <3> SUFFICES ASSUME NEW v \in SfWorkers, NEW q \in SfLists, NEW i \in 1..Len(sfQueues'[q])
                 PROVE  sfQueues'[q][i] \notin sfWorker'[v].holds
      OBVIOUS
    <3>1. PICK j \in 1..Len(sfQueues[q]) : sfQueues'[q][i] = sfQueues[q][j] /\ j = IF q = l THEN i + 1 ELSE i
      BY <1>11
    <3>2. sfQueues[q][j] \notin sfWorker[v].holds BY DEF SfRest, SfHandedOnce, SfLists
    <3>3. sfQueues[q][j] # t
      <4>1. sfQueues[q][j] = t => q = l /\ j = 1 BY <1>3, <1>5 DEF SfRest, SfOffered
      <4>2. i \in Int /\ i >= 1 OBVIOUS
      <4> QED BY <3>1, <4>1, <4>2
    <3> QED BY <1>7, <3>1, <3>2, <3>3
  <2> QED BY <2>2, <2>3 DEF SfHandedOnce, SfLists
<1> QED BY <1>9, <1>10, <1>14, <1>15, <1>16, <1>17 DEF SfRest

(* A restart leaves no token, no list and no wait.                          *)
LEMMA SfRestartInv ==
  ASSUME SfShapes, SfCounted, SfRest, SfRestart
  PROVE  SfShapes' /\ SfCounted' /\ SfRest'
<1>1. \A x \in SfExecutions :
        /\ [sfExec[x] EXCEPT !.status = IF @ = "RUNNING" THEN "FAILED" ELSE @] \in SfExecutionRecord
        /\ [sfThread[x] EXCEPT !.pc = IF @ = "none" THEN @ ELSE "done"] \in SfThreadRecord
  BY SfThreadStays DEF SfExecutionRecord, SfThreadRecord
<1>2. \A w \in SfWorkers : [sfWorker[w] EXCEPT !.pc = "idle", !.list = 0] \in SfPollRecord
                           /\ [sfWorker[w] EXCEPT !.pc = "idle", !.list = 0].holds = sfWorker[w].holds
  <2>1. 0 \in 0..SfMaxQueues BY SfNumbers
  <2>2. \A w \in SfWorkers : sfWorker[w] \in SfPollRecord BY DEF SfShapes
  <2> QED BY <2>1, <2>2 DEF SfPollRecord
<1>3. sfActivity' \in SfActivityRecord
  <2>1. 0 \in 0..SfMaxQueues BY SfNumbers
  <2> QED BY <2>1 DEF SfRestart, SfShapes, SfActivityRecord
<1>4. sfQueues' \in [SfLists -> Seq(SfTokenIds)] /\ \A q \in SfLists : Len(sfQueues'[q]) = 0
  <2>1. <<>> \in Seq(SfTokenIds) /\ Len(<<>>) = 0 OBVIOUS
  <2>2. sfQueues' = [q \in SfLists |-> <<>>] BY DEF SfRestart, SfLists
  <2> QED BY <2>1, <2>2
<1>5. sfTokens' \in [SfTokenIds -> SfTokenRecord] /\ \A t \in SfTokenIds : ~sfTokens'[t].there
  BY SfNumbers DEF SfRestart
<1>6. sfExec' \in [SfExecutions -> SfExecutionRecord] /\ sfThread' \in [SfExecutions -> SfThreadRecord]
  BY <1>1 DEF SfRestart
<1>7. sfWorker' \in [SfWorkers -> SfPollRecord] /\ \A w \in SfWorkers : sfWorker'[w].holds = sfWorker[w].holds
  BY <1>2 DEF SfRestart
<1>8. sfKnown' = sfKnown BY DEF SfRestart
<1>9. SfShapes' BY <1>3, <1>4, <1>5, <1>6, <1>7, <1>8 DEF SfShapes
<1>10. \A x \in SfExecutions :
         /\ sfThread'[x].pc \in {"none", "done"} /\ sfThread'[x].attempt = sfThread[x].attempt
         /\ sfThread'[x].pc = "none" <=> sfThread[x].pc = "none"
         /\ sfExec'[x].status = "absent" <=> sfExec[x].status = "absent"
  BY SfThreadStays DEF SfRestart, SfThreadRecord, SfExecutionRecord
<1>11. SfCounted' BY <1>10 DEF SfCounted
<1>12. \A t \in SfTokenIds : ~SfAwaited(t)' BY <1>10, SfNumbers DEF SfAwaited, SfWaiting
<1>13. SfOpen' BY <1>5, <1>12 DEF SfOpen
<1>14. SfBegun' BY <1>4, <1>8, <1>10, SfNumbers DEF SfRest, SfBegun, SfOut
<1>15. SfGiven' BY <1>7, <1>8 DEF SfRest, SfGiven
<1>16. SfOffered' BY <1>4 DEF SfOffered
<1>17. SfHandedOnce' BY <1>4, <1>7 DEF SfRest, SfHandedOnce, SfLists
<1> QED BY <1>9, <1>11, <1>13, <1>14, <1>15, <1>16, <1>17 DEF SfRest

-----------------------------------------------------------------------------
LEMMA SfInvStep == SfInv /\ [SfNext]_sfVars => SfInv'
<1> SUFFICES ASSUME SfInv, [SfNext]_sfVars PROVE SfShapes' /\ SfCounted' /\ SfRest'
  BY DEF SfInv, SfRest
<1>0. SfShapes /\ SfCounted /\ SfRest BY DEF SfInv, SfRest
<1>1. ASSUME NEW x \in SfExecutions, SfRun(x) PROVE SfShapes' /\ SfCounted' /\ SfRest'
  <2>1. CASE SfEnter(x) \/ SfExpire(x) \/ SfRetry(x) \/ SfExit(x) BY <1>0, <2>1, SfStepsInv
  <2>2. CASE SfNoActivity(x) BY <1>0, <2>2, SfNoActivityInv
  <2>3. CASE SfSucceed(x) \/ SfFail(x) BY <1>0, <2>3, SfEndsInv
  <2>4. CASE SfCallFails(x) \/ SfWake(x) \/ SfTimeout(x) BY <1>0, <2>4, SfPopsInv
  <2>5. CASE SfScheduleCallback(x) \/ SfNoQueue(x) BY <1>0, <2>5, SfSchedulesInv
  <2>6. CASE SfScheduleActivity(x) BY <1>0, <2>6, SfScheduleActivityInv
  <2>7. CASE SfDeliver(x) BY <1>0, <2>7, SfDeliverInv
  <2> QED BY <1>1, <2>1, <2>2, <2>3, <2>4, <2>5, <2>6, <2>7 DEF SfRun
<1>2. CASE \E x \in SfExecutions : SfStop(x) \/ \E kind \in {"callback", "activity"} : SfStart(x, kind)
  BY <1>0, <1>2, SfStartInv, SfStopInv
<1>3. CASE \E t \in SfTokenIds, how \in {"result", "error"} : SfSendTask(t, how)
  BY <1>0, <1>3, SfSendTaskInv
<1>4. CASE SfCreateActivity \/ SfDeleteActivity BY <1>0, <1>4, SfActivityInv
<1>5. CASE \E w \in SfWorkers : SfPoll(w) \/ SfTake(w) \/ SfPollExpires(w)
  BY <1>0, <1>5, SfPollInv, SfTakeInv
<1>6. CASE SfRestart BY <1>0, <1>6, SfRestartInv
<1>7. CASE UNCHANGED sfVars
  <2>1. UNCHANGED <<sfExec, sfThread, sfTokens, sfActivity, sfQueues, sfWorker, sfKnown, sfRestarts>>
    BY <1>7 DEF sfVars
  <2>2. SfShapes' BY <1>0, <2>1 DEF SfShapes
  <2> QED BY <1>0, <2>1, <2>2, SfOthersInv
<1> QED BY <1>1, <1>2, <1>3, <1>4, <1>5, <1>6, <1>7 DEF SfNext

LEMMA SfTyped == SfInv => SfTypeOK
<1> SUFFICES ASSUME SfInv PROVE SfTypeOK OBVIOUS
<1>1. \A w \in SfWorkers : sfWorker[w].list \in 0..SfMaxQueues /\ sfWorker[w].holds \subseteq sfKnown
  BY DEF SfInv, SfShapes, SfGiven, SfPollRecord
<1> QED
  BY <1>1 DEF SfInv, SfShapes, SfCounted, SfTypeOK, SfExecutionRecord, SfThreadRecord, SfTokenRecord,
              SfActivityRecord, SfLists

-----------------------------------------------------------------------------
(* Secrets Manager: a secret, its versions and its replicas.                *)

SvStages == UNION {[D -> SUBSET SvLabels] : D \in SUBSET SvVersions}
SvRecord == [serial : Nat, primary : SvRegions \cup {"none"}, replicas : SUBSET SvRegions,
             stages : SvStages, deleted : BOOLEAN]
SvOneCurrent(stages) ==
  \A v, w \in DOMAIN stages : "AWSCURRENT" \in stages[v] /\ "AWSCURRENT" \in stages[w] => v = w
SvShapes ==
  /\ svSecret \in [SvRegions -> SvRecord]
  /\ svCreates \in 0..SvMaxCreates /\ svEdits \in 0..SvMaxEdits
  /\ \A g \in SvRegions : /\ svSecret[g].serial <= svCreates
                          /\ svSecret[g].serial = 0 => svSecret[g] = SvAbsent
                          /\ SvOneCurrent(svSecret[g].stages)

(* Two secrets that are no replicas are different secrets.                  *)
SvOwn == \A g, h \in SvRegions :
  /\ g # h /\ svSecret[g].primary = "none" /\ svSecret[h].primary = "none"
  /\ svSecret[g].serial = svSecret[h].serial
  => svSecret[g].serial = 0
SvInv == SvShapes /\ SvReplicasFollow /\ SvOwn

-----------------------------------------------------------------------------
LEMMA SvAbsentIs ==
  /\ SvAbsent \in SvRecord /\ SvAbsent.serial = 0 /\ SvAbsent.primary = "none" /\ SvAbsent.replicas = {}
  /\ SvOneCurrent(SvAbsent.stages)
<1>1. [v \in {} |-> {}] \in SvStages
  <2>1. [v \in {} |-> {}] \in [{} -> SUBSET SvLabels] /\ {} \in SUBSET SvVersions OBVIOUS
  <2> QED BY <2>1 DEF SvStages
<1>2. SvOneCurrent([v \in {} |-> {}]) BY DEF SvOneCurrent
<1> QED BY <1>1, <1>2 DEF SvAbsent, SvRecord

(* A region that a secret lists as its replica holds its replica.           *)
LEMMA SvReplicaIs ==
  ASSUME SvInv, NEW g \in SvRegions, NEW x \in svSecret[g].replicas
  PROVE  /\ x \in SvRegions /\ x # g /\ svSecret[x].primary = g /\ svSecret[g].primary = "none"
         /\ svSecret[x].serial = svSecret[g].serial /\ svSecret[g].serial > 0
<1>1. /\ svSecret[g] \in SvRecord /\ "none" \notin SvRegions BY SvAssumption DEF SvInv, SvShapes
<1>2. x \in SvRegions BY <1>1 DEF SvRecord
<1>3. x # g /\ svSecret[x].serial = svSecret[g].serial
  <2>1. svSecret[g].replicas = SvReplicated(svSecret[g], g) BY DEF SvInv, SvReplicasFollow
  <2> QED BY <2>1 DEF SvReplicated
<1>4. svSecret[g].serial > 0
  <2>1. svSecret[g].serial # 0 BY SvAbsentIs DEF SvInv, SvShapes
  <2>2. svSecret[g].serial \in Nat BY <1>1 DEF SvRecord
  <2> QED BY <2>1, <2>2
<1>5. svSecret[g].primary = "none"
  <2> SUFFICES ASSUME svSecret[g].primary # "none" PROVE FALSE OBVIOUS
  <2> DEFINE h == svSecret[g].primary
  <2>1. svSecret[g] = SvReplicaOf(svSecret[h], h) BY DEF SvInv, SvReplicasFollow, SvIsReplica
  <2>2. h \in SvRegions BY <1>1 DEF SvRecord
  <2>3. svSecret[h] \in SvRecord BY <2>2 DEF SvInv, SvShapes
  <2>4. SvReplicaOf(svSecret[h], h).replicas = {} BY <2>3 DEF SvReplicaOf, SvRecord
  <2> QED BY <2>1, <2>4
<1>6. svSecret[x].primary # "none" BY <1>2, <1>3, <1>4, <1>5 DEF SvInv, SvOwn
<1>7. svSecret[x].primary = g
  <2> DEFINE h == svSecret[x].primary
  <2>1. svSecret[h].primary = "none" /\ svSecret[h].serial = svSecret[x].serial
    BY <1>2, <1>6 DEF SvInv, SvReplicasFollow, SvIsReplica
  <2>2. h \in SvRegions
    <3>1. svSecret[x] \in SvRecord BY <1>2 DEF SvInv, SvShapes
    <3> QED BY <1>6, <3>1 DEF SvRecord
  <2> QED BY <1>3, <1>4, <1>5, <2>1, <2>2 DEF SvInv, SvOwn
<1> QED BY <1>2, <1>3, <1>4, <1>5, <1>7

LEMMA SvPrimaryIs ==
  ASSUME SvInv, NEW y \in SvRegions, svSecret[y].primary # "none"
  PROVE  LET h == svSecret[y].primary IN
         /\ h \in SvRegions /\ svSecret[h].primary = "none" /\ svSecret[h].serial = svSecret[y].serial
         /\ y \in svSecret[h].replicas /\ svSecret[y] = SvReplicaOf(svSecret[h], h)
         /\ svSecret[y].replicas = {} /\ svSecret[h].serial > 0 /\ h # y
<1> DEFINE h == svSecret[y].primary
<1>1. /\ svSecret[h].primary = "none" /\ svSecret[h].serial = svSecret[y].serial
      /\ y \in svSecret[h].replicas /\ svSecret[y] = SvReplicaOf(svSecret[h], h)
  BY DEF SvInv, SvReplicasFollow, SvIsReplica
<1>2. h \in SvRegions
  <2>1. svSecret[y] \in SvRecord BY DEF SvInv, SvShapes
  <2> QED BY <2>1 DEF SvRecord
<1>3. svSecret[h].serial > 0 /\ h # y BY <1>1, <1>2, SvReplicaIs
<1>4. svSecret[y].replicas = {}
  <2>1. svSecret[h] \in SvRecord BY <1>2 DEF SvInv, SvShapes
  <2>2. SvReplicaOf(svSecret[h], h).replicas = {} BY <2>1 DEF SvReplicaOf, SvRecord
  <2> QED BY <1>1, <2>2
<1> QED BY <1>1, <1>2, <1>3, <1>4

LEMMA SvReplicaOfIs ==
  ASSUME NEW r \in SvRecord, NEW g \in SvRegions
  PROVE  /\ SvReplicaOf(r, g) \in SvRecord
         /\ SvReplicaOf(r, g).serial = r.serial /\ SvReplicaOf(r, g).primary = g
         /\ SvReplicaOf(r, g).replicas = {} /\ SvReplicaOf(r, g).stages = r.stages
         /\ SvReplicaOf(r, g).deleted = r.deleted
BY DEF SvReplicaOf, SvRecord

(* Two records that differ in their replicas have the same replica.         *)
LEMMA SvReplicaSame ==
  ASSUME NEW r \in SvRecord, NEW s \in SUBSET SvRegions, NEW g \in SvRegions
  PROVE  SvReplicaOf([r EXCEPT !.replicas = s], g) = SvReplicaOf(r, g)
BY DEF SvReplicaOf, SvRecord

(* The record of a primary and its replicas are changed together.           *)
LEMMA SvStoredInv ==
  ASSUME SvInv, NEW g \in SvRegions, NEW secret \in SvRecord,
         svSecret[g].primary = "none", svSecret[g].serial > 0, secret.primary = "none",
         secret.serial = svSecret[g].serial, secret.replicas = svSecret[g].replicas, SvOneCurrent(secret.stages),
         svSecret' = SvStored(g, secret), svCreates' = svCreates, svEdits' \in 0..SvMaxEdits
  PROVE  SvInv'
<1> DEFINE R == svSecret[g].replicas
<1>0. SvShapes /\ "none" \notin SvRegions BY SvAssumption DEF SvInv
<1>1. SvReplicated(secret, g) = R
  <2>1. R = SvReplicated(svSecret[g], g) BY DEF SvInv, SvReplicasFollow
  <2> QED BY <2>1 DEF SvReplicated
<1>2. \A x \in R : x \in SvRegions /\ x # g /\ svSecret[x].primary = g /\ svSecret[x].serial = svSecret[g].serial
  BY SvReplicaIs
<1>3. /\ svSecret'[g] = secret
      /\ \A x \in R : svSecret'[x] = SvReplicaOf(secret, g)
      /\ \A x \in SvRegions : x # g /\ x \notin R => svSecret'[x] = svSecret[x]
      /\ DOMAIN svSecret' = SvRegions
      /\ svSecret' = [x \in SvRegions |-> svSecret'[x]]
  BY <1>1, <1>2 DEF SvStored
<1>4. /\ SvReplicaOf(secret, g) \in SvRecord
      /\ SvReplicaOf(secret, g).serial = secret.serial /\ SvReplicaOf(secret, g).primary = g
      /\ SvReplicaOf(secret, g).replicas = {} /\ SvReplicaOf(secret, g).stages = secret.stages
  BY SvReplicaOfIs
<1> HIDE DEF R
<1>5. \A x \in SvRegions : svSecret'[x].serial = svSecret[x].serial /\ svSecret'[x].primary = svSecret[x].primary
  BY <1>2, <1>3, <1>4
<1>6. SvShapes'
  <2>1. \A x \in SvRegions : svSecret'[x] \in SvRecord BY <1>0, <1>3, <1>4 DEF SvShapes
  <2>2. svSecret' \in [SvRegions -> SvRecord] BY <1>3, <2>1
  <2>3. ASSUME NEW x \in SvRegions
        PROVE  /\ svSecret'[x].serial <= svCreates'
               /\ svSecret'[x].serial = 0 => svSecret'[x] = SvAbsent
               /\ SvOneCurrent(svSecret'[x].stages)
    <3>1. x # g /\ x \notin R => svSecret'[x] = svSecret[x] BY <1>3
    <3>2. x = g \/ x \in R => svSecret'[x].serial > 0 /\ svSecret'[x].stages = secret.stages BY <1>2, <1>3, <1>4, <1>5
    <3>3. svSecret'[x].serial \in Nat BY <2>1 DEF SvRecord
    <3> QED BY <1>0, <1>5, <3>1, <3>2, <3>3 DEF SvShapes
  <2> QED BY <1>0, <2>2, <2>3 DEF SvShapes
<1>7. SvOwn' BY <1>5 DEF SvInv, SvOwn
<1>8. ASSUME NEW y \in SvRegions, svSecret'[y].primary # "none"
      PROVE  LET p == svSecret'[svSecret'[y].primary] IN
             /\ p.primary = "none" /\ p.serial = svSecret'[y].serial /\ y \in p.replicas
             /\ svSecret'[y] = SvReplicaOf(p, svSecret'[y].primary)
  <2>1. CASE y \in R BY <1>3, <1>4, <2>1 DEF R
  <2>2. CASE y \notin R
    <3> DEFINE h == svSecret[y].primary
    <3>1. svSecret[y].primary # "none" BY <1>5, <1>8
    <3>2. y # g BY <3>1
    <3>3. svSecret'[y] = svSecret[y] BY <1>3, <2>2, <3>2
    <3>4. /\ h \in SvRegions /\ svSecret[h].primary = "none" /\ svSecret[h].serial = svSecret[y].serial
          /\ y \in svSecret[h].replicas /\ svSecret[y] = SvReplicaOf(svSecret[h], h)
      BY <3>1, SvPrimaryIs
    <3>5. h # g BY <2>2, <3>4 DEF R
    <3>6. h \notin R BY <1>2, <3>4, <1>0
    <3>7. svSecret'[h] = svSecret[h] BY <1>3, <3>4, <3>5, <3>6
    <3> QED BY <3>3, <3>4, <3>7
  <2> QED BY <2>1, <2>2
<1>9. ASSUME NEW y \in SvRegions
      PROVE  svSecret'[y].replicas = {x \in svSecret'[y].replicas \ {y} : svSecret'[x].serial = svSecret'[y].serial}
  <2>1. svSecret'[y].replicas = {} \/ svSecret'[y].replicas = svSecret[y].replicas BY <1>3, <1>4
  <2>2. \A x \in svSecret[y].replicas : x \in SvRegions /\ x # y /\ svSecret[x].serial = svSecret[y].serial
    BY SvReplicaIs
  <2> QED BY <1>5, <2>1, <2>2
<1>10. SvReplicasFollow' BY <1>8, <1>9 DEF SvReplicasFollow, SvIsReplica, SvReplicated, SvReplicaOf
<1> QED BY <1>6, <1>7, <1>10 DEF SvInv


(* A record goes, and its replicas go with it.                              *)
LEMMA SvForceDeleteInv ==
  ASSUME SvInv, NEW g \in SvRegions, SvForceDelete(g)
  PROVE  SvInv'
<1> DEFINE R == svSecret[g].replicas
<1>0. SvShapes /\ "none" \notin SvRegions BY SvAssumption DEF SvInv
<1>1. SvReplicated(svSecret[g], g) = R BY DEF SvInv, SvReplicasFollow
<1>2. \A x \in R : x \in SvRegions /\ x # g /\ svSecret[x].primary = g BY SvReplicaIs
<1>3. /\ \A x \in SvRegions : svSecret'[x] = IF x = g \/ x \in R THEN SvAbsent ELSE svSecret[x]
      /\ svSecret' = [x \in SvRegions |-> svSecret'[x]]
      /\ svSecret[g].primary = "none" /\ UNCHANGED <<svCreates, svEdits>>
  BY <1>1 DEF SvForceDelete, SvPurged, SvIsReplica
<1> HIDE DEF R
<1>4. SvShapes'
  <2>1. \A x \in SvRegions : svSecret'[x] \in SvRecord BY <1>0, <1>3, SvAbsentIs DEF SvShapes
  <2>2. svSecret' \in [SvRegions -> SvRecord] BY <1>3, <2>1
  <2> QED BY <1>0, <1>3, <2>2, SvAbsentIs DEF SvShapes
<1>5. SvOwn' BY <1>3, SvAbsentIs DEF SvInv, SvOwn
<1>6. ASSUME NEW y \in SvRegions, svSecret'[y].primary # "none"
      PROVE  LET p == svSecret'[svSecret'[y].primary] IN
             /\ p.primary = "none" /\ p.serial = svSecret'[y].serial /\ y \in p.replicas
             /\ svSecret'[y] = SvReplicaOf(p, svSecret'[y].primary)
  <2> DEFINE h == svSecret[y].primary
  <2>1. svSecret'[y] = svSecret[y] /\ y \notin R BY <1>3, <1>6, SvAbsentIs
  <2>2. /\ h \in SvRegions /\ svSecret[h].primary = "none" /\ svSecret[h].serial = svSecret[y].serial
        /\ y \in svSecret[h].replicas /\ svSecret[y] = SvReplicaOf(svSecret[h], h)
    BY <1>6, <2>1, SvPrimaryIs
  <2>3. h # g BY <2>1, <2>2 DEF R
  <2>4. h \notin R BY <1>0, <1>2, <2>2
  <2>5. svSecret'[h] = svSecret[h] BY <1>3, <2>2, <2>3, <2>4
  <2> QED BY <2>1, <2>2, <2>5
<1>7. ASSUME NEW y \in SvRegions
      PROVE  svSecret'[y].replicas = {x \in svSecret'[y].replicas \ {y} : svSecret'[x].serial = svSecret'[y].serial}
  <2>1. CASE y = g \/ y \in R BY <1>3, <2>1, SvAbsentIs
  <2>2. CASE ~(y = g \/ y \in R)
    <3>1. svSecret'[y] = svSecret[y] BY <1>3, <2>2
    <3>2. \A x \in svSecret[y].replicas :
            x \in SvRegions /\ x # y /\ svSecret[x].primary = y /\ svSecret[x].serial = svSecret[y].serial
      BY SvReplicaIs
    <3>3. \A x \in svSecret[y].replicas : x # g /\ x \notin R BY <1>0, <1>2, <1>3, <2>2, <3>2
    <3> QED BY <1>3, <3>1, <3>2, <3>3
  <2> QED BY <2>1, <2>2
<1>8. SvReplicasFollow' BY <1>6, <1>7 DEF SvReplicasFollow, SvIsReplica, SvReplicated, SvReplicaOf
<1> QED BY <1>4, <1>5, <1>8 DEF SvInv

LEMMA SvCreateInv ==
  ASSUME SvInv, NEW g \in SvRegions, NEW v \in SvVersions, SvCreate(g, v)
  PROVE  SvInv'
<1> DEFINE one == [x \in {v} |-> {"AWSCURRENT"}]
           new == [SvAbsent EXCEPT !.serial = svCreates + 1, !.stages = one]
<1>0. SvShapes /\ "none" \notin SvRegions BY SvAssumption DEF SvInv
<1>1. /\ svSecret[g] = SvAbsent /\ svSecret' = [svSecret EXCEPT ![g] = new]
      /\ svCreates' = svCreates + 1 /\ svCreates' \in 0..SvMaxCreates /\ UNCHANGED svEdits
  BY <1>0, SvAssumption DEF SvCreate, SvKnown, SvShapes
<1>2. one \in SvStages /\ SvOneCurrent(one)
  <2>1. [x \in {v} |-> {"AWSCURRENT"}] \in [{v} -> SUBSET SvLabels] BY SvAssumption
  <2>2. SvOneCurrent([x \in {v} |-> {"AWSCURRENT"}]) BY DEF SvOneCurrent
  <2> QED BY <2>1, <2>2 DEF SvStages
<1> HIDE DEF one
<1>3. svCreates \in Nat BY <1>0 DEF SvShapes
<1>4. /\ new \in SvRecord /\ new.serial = svCreates + 1 /\ new.primary = "none" /\ new.replicas = {}
      /\ new.stages = one
  <2> DEFINE n == svCreates + 1
             first == [SvAbsent EXCEPT !.serial = n]
  <2>1. n \in Nat BY <1>3
  <2> HIDE DEF n
  <2>2. first \in SvRecord /\ first.serial = n /\ first.primary = "none" /\ first.replicas = {}
    BY <2>1, SvAbsentIs DEF SvRecord
  <2>3. new = [first EXCEPT !.stages = one] BY DEF n
  <2> HIDE DEF first, new
  <2>4. /\ new \in SvRecord /\ new.serial = n /\ new.primary = "none" /\ new.replicas = {} /\ new.stages = one
    BY <1>2, <2>2, <2>3 DEF SvRecord
  <2> QED BY <2>4 DEF n
<1> HIDE DEF new
<1>5. \A x \in SvRegions : svSecret'[x] = IF x = g THEN new ELSE svSecret[x] BY <1>0, <1>1 DEF SvShapes
<1>6. \A x \in SvRegions : svSecret[x].serial \in Nat /\ svSecret[x].serial <= svCreates
  BY <1>0 DEF SvShapes, SvRecord
<1>7. SvShapes'
  <2>1. svSecret' \in [SvRegions -> SvRecord] BY <1>0, <1>1, <1>4 DEF SvShapes
  <2>2. ASSUME NEW x \in SvRegions
        PROVE  /\ svSecret'[x].serial <= svCreates'
               /\ svSecret'[x].serial = 0 => svSecret'[x] = SvAbsent
               /\ SvOneCurrent(svSecret'[x].stages)
    <3>1. CASE x = g BY <1>1, <1>2, <1>3, <1>4, <1>5, <3>1
    <3>2. CASE x # g BY <1>0, <1>1, <1>3, <1>5, <1>6, <3>2 DEF SvShapes
    <3> QED BY <3>1, <3>2
  <2> QED BY <1>0, <1>1, <2>1, <2>2 DEF SvShapes
<1>8. SvOwn' BY <1>3, <1>4, <1>5, <1>6 DEF SvInv, SvOwn
<1>9. ASSUME NEW y \in SvRegions, svSecret'[y].primary # "none"
      PROVE  LET p == svSecret'[svSecret'[y].primary] IN
             /\ p.primary = "none" /\ p.serial = svSecret'[y].serial /\ y \in p.replicas
             /\ svSecret'[y] = SvReplicaOf(p, svSecret'[y].primary)
  <2> DEFINE h == svSecret[y].primary
  <2>1. svSecret'[y] = svSecret[y] BY <1>4, <1>5, <1>9
  <2>2. /\ h \in SvRegions /\ svSecret[h].primary = "none" /\ svSecret[h].serial = svSecret[y].serial
        /\ y \in svSecret[h].replicas /\ svSecret[y] = SvReplicaOf(svSecret[h], h) /\ svSecret[h].serial > 0
    BY <1>9, <2>1, SvPrimaryIs
  <2>3. h # g BY <1>1, <2>2, SvAbsentIs
  <2>4. svSecret'[h] = svSecret[h] BY <1>5, <2>2, <2>3
  <2> QED BY <2>1, <2>2, <2>4
<1>10. ASSUME NEW y \in SvRegions
      PROVE  svSecret'[y].replicas = {x \in svSecret'[y].replicas \ {y} : svSecret'[x].serial = svSecret'[y].serial}
  <2>1. CASE y = g BY <1>4, <1>5, <2>1
  <2>2. CASE y # g
    <3>1. \A x \in svSecret[y].replicas :
            x \in SvRegions /\ x # y /\ svSecret[x].serial = svSecret[y].serial /\ svSecret[y].serial > 0
      BY SvReplicaIs
    <3>2. \A x \in svSecret[y].replicas : x # g BY <1>1, <3>1, SvAbsentIs
    <3> QED BY <1>5, <2>2, <3>1, <3>2
  <2> QED BY <2>1, <2>2
<1>11. SvReplicasFollow' BY <1>9, <1>10 DEF SvReplicasFollow, SvIsReplica, SvReplicated, SvReplicaOf
<1> QED BY <1>7, <1>8, <1>11 DEF SvInv

(* A secret replicated over others: their replicas go, the lists are kept.  *)
LEMMA SvReplicateInv ==
  ASSUME SvInv, NEW g \in SvRegions, NEW regions \in SUBSET SvRegions, NEW force \in BOOLEAN,
         SvReplicate(g, regions, force)
  PROVE  SvInv'
<1> DEFINE secret == svSecret[g]
           taken == {x \in regions : SvKnown(x) /\ svSecret[x].serial # secret.serial}
           orphans == UNION {SvReplicated(svSecret[x], x) : x \in taken}
           leaving(y) == {x \in taken : SvIsReplica(svSecret[x]) /\ svSecret[x].primary = y
                                          /\ svSecret[x].serial = svSecret[y].serial}
           grown == [secret EXCEPT !.replicas = secret.replicas \cup regions]
<1>0. SvShapes /\ "none" \notin SvRegions /\ secret \in SvRecord BY SvAssumption DEF SvInv, SvShapes
<1>1. /\ secret.primary = "none" /\ g \notin regions /\ secret # SvAbsent
      /\ svSecret' = [x \in SvRegions |->
           CASE x = g -> grown
             [] x \in regions -> SvReplicaOf(secret, g)
             [] x \notin regions \cup {g} /\ x \in orphans -> SvAbsent
             [] OTHER -> [svSecret[x] EXCEPT !.replicas = svSecret[x].replicas \ leaving(x)]]
      /\ UNCHANGED <<svCreates, svEdits>>
  BY DEF SvReplicate, SvMutable, SvKnown, SvIsReplica
<1>2. secret.serial > 0
  <2>1. secret.serial # 0 BY <1>0, <1>1 DEF SvShapes
  <2>2. secret.serial \in Nat BY <1>0 DEF SvRecord
  <2> QED BY <2>1, <2>2
<1>3. \A x, y \in SvRegions : x \in svSecret[y].replicas => x # y /\ svSecret[x].primary = y
          /\ svSecret[y].primary = "none" /\ svSecret[x].serial = svSecret[y].serial /\ svSecret[y].serial > 0
  BY SvReplicaIs
<1>4. \A x \in SvRegions : x \in orphans <=> \E z \in taken : x \in svSecret[z].replicas
  <2>1. \A z \in SvRegions : SvReplicated(svSecret[z], z) = svSecret[z].replicas BY DEF SvInv, SvReplicasFollow
  <2>2. taken \subseteq SvRegions OBVIOUS
  <2> HIDE DEF taken
  <2> QED BY <2>1, <2>2
<1>5. \A x \in SvRegions : x \in taken <=> x \in regions /\ svSecret[x].serial > 0 /\ svSecret[x].serial # secret.serial
  <2> SUFFICES ASSUME NEW x \in SvRegions PROVE SvKnown(x) <=> svSecret[x].serial > 0 OBVIOUS
  <2>1. svSecret[x].serial \in Nat BY <1>0 DEF SvShapes, SvRecord
  <2>2. svSecret[x].serial = 0 <=> svSecret[x] = SvAbsent BY <1>0, SvAbsentIs DEF SvShapes
  <2> QED BY <2>1, <2>2 DEF SvKnown
<1>6. \A x, y \in SvRegions : x \in leaving(y) <=>
        x \in taken /\ svSecret[x].primary = y /\ svSecret[x].serial = svSecret[y].serial
  BY <1>0 DEF SvIsReplica
<1>7. grown \in SvRecord /\ grown.serial = secret.serial /\ grown.primary = "none"
      /\ grown.replicas = secret.replicas \cup regions /\ grown.stages = secret.stages
  BY <1>0, <1>1 DEF SvRecord
<1>8. /\ SvReplicaOf(secret, g) \in SvRecord
      /\ SvReplicaOf(secret, g).serial = secret.serial /\ SvReplicaOf(secret, g).primary = g
      /\ SvReplicaOf(secret, g).replicas = {} /\ SvReplicaOf(secret, g).stages = secret.stages
  BY <1>0, SvReplicaOfIs
<1>9. ASSUME NEW x \in SvRegions
      PROVE  LET k == [svSecret[x] EXCEPT !.replicas = svSecret[x].replicas \ leaving(x)] IN
             /\ k \in SvRecord /\ k.serial = svSecret[x].serial /\ k.primary = svSecret[x].primary
             /\ k.replicas = svSecret[x].replicas \ leaving(x) /\ k.stages = svSecret[x].stages
             /\ svSecret[x].replicas = {} => k = svSecret[x]
  <2>1. svSecret[x] \in SvRecord BY <1>0 DEF SvShapes
  <2> HIDE DEF leaving
  <2> QED BY <2>1 DEF SvRecord
<1>10. /\ svSecret'[g] = grown
       /\ \A x \in regions : svSecret'[x] = SvReplicaOf(secret, g)
       /\ \A x \in SvRegions : x \notin regions \cup {g} /\ x \in orphans => svSecret'[x] = SvAbsent
       /\ \A x \in SvRegions : x \notin regions \cup {g} /\ x \notin orphans =>
            svSecret'[x] = [svSecret[x] EXCEPT !.replicas = svSecret[x].replicas \ leaving(x)]
       /\ svSecret' = [x \in SvRegions |-> svSecret'[x]]
  <2> HIDE DEF secret, orphans, leaving, grown
  <2> QED BY <1>1
<1> HIDE DEF taken, orphans, leaving, grown
<1>11. SvShapes'
  <2>1. \A x \in SvRegions : svSecret'[x] \in SvRecord BY <1>7, <1>8, <1>9, <1>10, SvAbsentIs
  <2>2. svSecret' \in [SvRegions -> SvRecord] BY <1>10, <2>1
  <2>3. ASSUME NEW x \in SvRegions
        PROVE  /\ svSecret'[x].serial <= svCreates'
               /\ svSecret'[x].serial = 0 => svSecret'[x] = SvAbsent
               /\ SvOneCurrent(svSecret'[x].stages)
    <3>1. CASE x = g \/ x \in regions BY <1>0, <1>1, <1>2, <1>7, <1>8, <1>10, <3>1 DEF SvShapes
    <3>2. CASE x \notin regions \cup {g} /\ x \in orphans BY <1>0, <1>1, <1>10, <3>2, SvAbsentIs DEF SvShapes
    <3>3. CASE x \notin regions \cup {g} /\ x \notin orphans
      <4>1. svSecret[x].serial = 0 => svSecret[x] = SvAbsent BY <1>0 DEF SvShapes
      <4> QED BY <1>0, <1>1, <1>9, <1>10, <3>3, <4>1, SvAbsentIs DEF SvShapes
    <3> QED BY <3>1, <3>2, <3>3
  <2> QED BY <1>0, <1>1, <2>2, <2>3 DEF SvShapes
<1>12. \A x \in SvRegions : svSecret'[x].primary = "none" =>
         svSecret'[x].serial = 0 \/ (svSecret'[x].serial = svSecret[x].serial /\ svSecret[x].primary = "none")
  BY <1>0, <1>1, <1>7, <1>8, <1>9, <1>10, SvAbsentIs
<1>13. SvOwn' BY <1>12 DEF SvInv, SvOwn
<1>14. ASSUME NEW y \in SvRegions, svSecret'[y].primary # "none"
       PROVE  LET p == svSecret'[svSecret'[y].primary] IN
              /\ p.primary = "none" /\ p.serial = svSecret'[y].serial /\ y \in p.replicas
              /\ svSecret'[y] = SvReplicaOf(p, svSecret'[y].primary)
  <2>0. SvReplicaOf(grown, g) = SvReplicaOf(secret, g)
    <3>1. secret.replicas \cup regions \in SUBSET SvRegions BY <1>0 DEF SvRecord
    <3> HIDE DEF secret
    <3> QED BY <1>0, <3>1, SvReplicaSame DEF grown
  <2>1. CASE y \in regions BY <1>7, <1>8, <1>10, <2>0, <2>1
  <2>2. CASE y \notin regions
    <3> DEFINE h == svSecret[y].primary
    <3>1. y # g /\ y \notin orphans BY <1>7, <1>10, <1>14, <2>2, SvAbsentIs
    <3>2. svSecret[y].primary # "none" BY <1>9, <1>10, <1>14, <2>2, <3>1
    <3>3. /\ h \in SvRegions /\ svSecret[h].primary = "none" /\ svSecret[h].serial = svSecret[y].serial
          /\ y \in svSecret[h].replicas /\ svSecret[y] = SvReplicaOf(svSecret[h], h)
          /\ svSecret[y].replicas = {} /\ svSecret[h].serial > 0
      BY <3>2, SvPrimaryIs
    <3>4. svSecret'[y] = svSecret[y] BY <1>9, <1>10, <2>2, <3>1, <3>3
    <3>5. CASE h = g BY <1>7, <1>10, <2>0, <3>3, <3>4, <3>5
    <3>6. CASE h # g
      <4>1. h \notin regions
        <5>1. svSecret[h].serial # secret.serial BY <1>1, <3>3, <3>6 DEF SvInv, SvOwn
        <5>2. h \in regions => h \in taken BY <1>5, <3>3, <5>1
        <5> QED BY <1>4, <3>1, <3>3, <5>2
      <4>2. h \notin orphans
        <5> SUFFICES ASSUME h \in orphans PROVE FALSE OBVIOUS
        <5>1. PICK z \in taken : h \in svSecret[z].replicas BY <1>4, <3>3
        <5>2. z \in SvRegions BY <5>1 DEF taken
        <5> QED BY <1>0, <1>3, <3>3, <5>1, <5>2
      <4>3. y \notin leaving(h) BY <1>5, <1>6, <2>2, <3>3
      <4>4. svSecret'[h] = [svSecret[h] EXCEPT !.replicas = svSecret[h].replicas \ leaving(h)]
        BY <1>10, <3>3, <3>6, <4>1, <4>2
      <4>5. SvReplicaOf(svSecret'[h], h) = SvReplicaOf(svSecret[h], h)
        <5>1. svSecret[h] \in SvRecord BY <1>0, <3>3 DEF SvShapes
        <5>2. svSecret[h].replicas \ leaving(h) \in SUBSET SvRegions BY <5>1 DEF SvRecord
        <5> DEFINE r == svSecret[h]
                   s == svSecret[h].replicas \ leaving(h)
        <5> HIDE DEF h, r, s
        <5>3. SvReplicaOf([r EXCEPT !.replicas = s], h) = SvReplicaOf(r, h)
          BY <3>3, <5>1, <5>2, SvReplicaSame DEF r, s
        <5>4. svSecret'[h] = [r EXCEPT !.replicas = s] BY <4>4 DEF r, s
        <5> QED BY <5>3, <5>4 DEF r
      <4> QED BY <1>9, <3>3, <3>4, <4>3, <4>4, <4>5
    <3> QED BY <3>5, <3>6
  <2> QED BY <2>1, <2>2
<1>15. ASSUME NEW y \in SvRegions, NEW x \in svSecret'[y].replicas
       PROVE  x # y /\ svSecret'[x].serial = svSecret'[y].serial
  <2>1. CASE y = g
    <3>1. x \in svSecret[g].replicas \/ x \in regions BY <1>7, <1>10, <1>15, <2>1
    <3>2. CASE x \in regions BY <1>1, <1>7, <1>8, <1>10, <2>1, <3>2
    <3>3. CASE x \in svSecret[g].replicas /\ x \notin regions
      <4>1. x \in SvRegions /\ x # g /\ svSecret[x].primary = g /\ svSecret[x].serial = secret.serial
        BY <3>3, SvReplicaIs
      <4>2. x \notin orphans
        <5> SUFFICES ASSUME x \in orphans PROVE FALSE OBVIOUS
        <5>1. PICK z \in taken : x \in svSecret[z].replicas BY <1>4, <4>1
        <5>2. z \in SvRegions /\ z # g BY <1>1, <5>1 DEF taken
        <5> QED BY <1>3, <4>1, <5>1, <5>2
      <4> QED BY <1>7, <1>9, <1>10, <2>1, <3>3, <4>1, <4>2
    <3> QED BY <3>1, <3>2, <3>3
  <2>2. CASE y # g
    <3>1. y \notin regions /\ y \notin orphans BY <1>8, <1>10, <1>15, <2>2, SvAbsentIs
    <3>2. svSecret'[y].serial = svSecret[y].serial /\ x \in svSecret[y].replicas /\ x \notin leaving(y)
      BY <1>9, <1>10, <1>15, <2>2, <3>1
    <3>3. /\ x \in SvRegions /\ x # y /\ svSecret[x].primary = y /\ svSecret[y].primary = "none"
          /\ svSecret[x].serial = svSecret[y].serial /\ svSecret[y].serial > 0
      BY <3>2, SvReplicaIs
    <3>4. x \notin regions
      <4>1. svSecret[y].serial # secret.serial BY <1>1, <2>2, <3>3 DEF SvInv, SvOwn
      <4> QED BY <1>5, <1>6, <3>2, <3>3, <4>1
    <3>5. x # g BY <1>0, <1>1, <3>3
    <3>6. x \notin orphans
      <4> SUFFICES ASSUME x \in orphans PROVE FALSE OBVIOUS
      <4>1. PICK z \in taken : x \in svSecret[z].replicas BY <1>4, <3>3
      <4>2. z \in regions /\ z \in SvRegions BY <4>1 DEF taken
      <4> QED BY <1>3, <3>1, <3>3, <4>1, <4>2
    <3> QED BY <1>9, <1>10, <3>2, <3>3, <3>4, <3>5, <3>6
  <2> QED BY <2>1, <2>2
<1>16. SvReplicasFollow' BY <1>14, <1>15 DEF SvReplicasFollow, SvIsReplica, SvReplicated, SvReplicaOf
<1> QED BY <1>11, <1>13, <1>16 DEF SvInv

-----------------------------------------------------------------------------
(* The labels: each operation leaves AWSCURRENT on one version at most.     *)
LEMMA SvStagesIs ==
  ASSUME NEW stages \in SvStages
  PROVE  DOMAIN stages \in SUBSET SvVersions /\ \A v \in DOMAIN stages : stages[v] \subseteq SvLabels
<1>1. PICK D \in SUBSET SvVersions : stages \in [D -> SUBSET SvLabels] BY DEF SvStages
<1> QED BY <1>1

LEMMA SvWithIs ==
  ASSUME NEW stages \in SvStages, NEW v \in SvVersions, NEW labels \in SUBSET SvLabels
  PROVE  /\ SvWith(stages, v, labels) \in SvStages
         /\ SvOneCurrent(stages) /\ "AWSCURRENT" \notin labels => SvOneCurrent(SvWith(stages, v, labels))
<1> DEFINE D == DOMAIN stages \cup {v}
           F(x) == IF x = v THEN labels ELSE stages[x]
<1>1. SvWith(stages, v, labels) = [x \in D |-> F(x)] BY DEF SvWith
<1>2. D \in SUBSET SvVersions /\ \A x \in D : F(x) \subseteq SvLabels BY SvStagesIs
<1>3. SvOneCurrent(stages) /\ "AWSCURRENT" \notin labels => SvOneCurrent([x \in D |-> F(x)])
  BY DEF SvOneCurrent
<1> HIDE DEF D, F
<1>4. [x \in D |-> F(x)] \in [D -> SUBSET SvLabels] BY <1>2
<1>5. [x \in D |-> F(x)] \in SvStages BY <1>2, <1>4 DEF SvStages
<1> QED BY <1>1, <1>3, <1>5

LEMMA SvPromoteIs ==
  ASSUME NEW stages \in SvStages, NEW v \in DOMAIN stages, NEW p
  PROVE  SvPromote(stages, v, p) \in SvStages /\ SvOneCurrent(SvPromote(stages, v, p))
<1> DEFINE D == {x \in DOMAIN stages : x # p \/ stages[x] # {"AWSPREVIOUS"}}
           F(x) == CASE x = v -> (stages[x] \cup {"AWSCURRENT"}) \ {"AWSPENDING"}
                     [] x # v /\ "AWSCURRENT" \in stages[x] -> (stages[x] \ {"AWSCURRENT"}) \cup {"AWSPREVIOUS"}
                     [] x = p /\ "AWSCURRENT" \notin stages[x] -> stages[x] \ {"AWSPREVIOUS"}
                     [] OTHER -> stages[x]
<1>1. SvPromote(stages, v, p) = [x \in D |-> F(x)] BY DEF SvPromote
<1>2. DOMAIN stages \in SUBSET SvVersions /\ \A x \in DOMAIN stages : stages[x] \subseteq SvLabels BY SvStagesIs
<1>3. \A x \in D : F(x) \subseteq SvLabels /\ (x # v => "AWSCURRENT" \notin F(x))
  <2> TAKE x \in D
  <2>1. CASE x = v BY <1>2, <2>1, SvAssumption
  <2>2. CASE x # v /\ "AWSCURRENT" \in stages[x]
    <3>1. F(x) = (stages[x] \ {"AWSCURRENT"}) \cup {"AWSPREVIOUS"} BY <2>2
    <3> QED BY <1>2, <2>2, <3>1, SvAssumption
  <2>3. CASE x # v /\ "AWSCURRENT" \notin stages[x]
    <3>1. F(x) = stages[x] \ {"AWSPREVIOUS"} \/ F(x) = stages[x] BY <2>3
    <3> QED BY <1>2, <2>3, <3>1
  <2> QED BY <2>1, <2>2, <2>3
<1>4. D \in SUBSET SvVersions BY <1>2
<1> HIDE DEF D, F
<1>5. SvOneCurrent([x \in D |-> F(x)]) BY <1>3 DEF SvOneCurrent
<1>6. [x \in D |-> F(x)] \in [D -> SUBSET SvLabels] BY <1>3
<1>7. [x \in D |-> F(x)] \in SvStages BY <1>4, <1>6 DEF SvStages
<1> QED BY <1>1, <1>5, <1>7

LEMMA SvMovedIs ==
  ASSUME NEW stages \in SvStages, SvOneCurrent(stages), NEW label \in SvLabels, NEW from, NEW to, NEW old
  PROVE  SvMoved(stages, label, from, to, old) \in SvStages /\ SvOneCurrent(SvMoved(stages, label, from, to, old))
<1> DEFINE D == DOMAIN stages
           W(x) == IF x = from \/ (to # "none" /\ x # to) THEN stages[x] \ {label} ELSE stages[x]
           U(x) == IF x = to THEN W(x) \cup {label} ELSE W(x)
           F(x) == IF label # "AWSCURRENT" \/ to = "none" \/ old \in {"none", to} THEN U(x)
                   ELSE IF x = old THEN U(x) \cup {"AWSPREVIOUS"} ELSE U(x) \ {"AWSPREVIOUS"}
<1>1. SvMoved(stages, label, from, to, old) = [x \in D |-> F(x)] BY DEF SvMoved
<1>2. D \in SUBSET SvVersions /\ \A x \in D : stages[x] \subseteq SvLabels BY SvStagesIs
<1>3. \A x \in D : /\ F(x) \subseteq SvLabels
                   /\ "AWSCURRENT" \in F(x) => "AWSCURRENT" \in U(x)
  BY <1>2, SvAssumption
<1>4. \A x \in D : "AWSCURRENT" \in U(x) =>
        IF label = "AWSCURRENT" /\ to # "none" THEN x = to \/ "AWSCURRENT" \in W(x)
                                              ELSE "AWSCURRENT" \in stages[x] \/ (x = to /\ label = "AWSCURRENT")
  OBVIOUS
<1>5. label = "AWSCURRENT" /\ to # "none" => \A x \in D : "AWSCURRENT" \in W(x) => x = to OBVIOUS
<1>6. \A x, y \in D : "AWSCURRENT" \in F(x) /\ "AWSCURRENT" \in F(y) => x = y
  <2>1. CASE label = "AWSCURRENT" /\ to # "none"
    <3> HIDE DEF F, U, W
    <3> QED BY <1>3, <1>4, <1>5, <2>1
  <2>2. CASE ~(label = "AWSCURRENT" /\ to # "none") /\ "none" \notin D
    <3>1. \A x \in D : "AWSCURRENT" \in F(x) => "AWSCURRENT" \in stages[x]
      <4> HIDE DEF F, U, W
      <4> QED BY <1>3, <1>4, <2>2
    <3> HIDE DEF F, U, W
    <3> QED BY <3>1 DEF SvOneCurrent
  <2>3. "none" \notin D BY <1>2, SvAssumption
  <2> QED BY <2>1, <2>2, <2>3
<1> HIDE DEF D, F, U, W
<1>7. SvOneCurrent([x \in D |-> F(x)]) BY <1>6 DEF SvOneCurrent
<1>8. [x \in D |-> F(x)] \in [D -> SUBSET SvLabels] BY <1>3
<1>9. [x \in D |-> F(x)] \in SvStages BY <1>2, <1>8 DEF SvStages
<1> QED BY <1>1, <1>7, <1>9

LEMMA SvEditInv ==
  ASSUME SvInv, NEW g \in SvRegions, SvMutable(g), svEdits' \in 0..SvMaxEdits, svCreates' = svCreates,
         NEW stages \in SvStages, SvOneCurrent(stages),
         svSecret' = SvStored(g, [svSecret[g] EXCEPT !.stages = stages])
  PROVE  SvInv'
<1>1. svSecret[g] \in SvRecord /\ svSecret[g].primary = "none" /\ svSecret[g].serial > 0
  <2>1. svSecret[g] \in SvRecord BY DEF SvInv, SvShapes
  <2>2. svSecret[g].serial # 0 BY DEF SvInv, SvShapes, SvMutable, SvKnown
  <2> QED BY <2>1, <2>2 DEF SvRecord, SvMutable, SvIsReplica
<1> DEFINE s == [svSecret[g] EXCEPT !.stages = stages]
<1>2. /\ s \in SvRecord /\ s.primary = "none" /\ s.serial = svSecret[g].serial
      /\ s.replicas = svSecret[g].replicas /\ s.stages = stages
  BY <1>1 DEF SvRecord
<1> HIDE DEF s
<1>3. svSecret' = SvStored(g, s) BY DEF s
<1> QED BY <1>1, <1>2, <1>3, SvStoredInv

LEMMA SvLabelsInv ==
  ASSUME SvInv, NEW g \in SvRegions,
         \/ \E v \in SvVersions : SvUpdate(g, v) \/ SvRotate(g, v)
         \/ \E v \in SvVersions, labels \in SUBSET SvLabels : SvPut(g, v, labels)
         \/ \E label \in SvLabels, from, to \in SvVersions \cup {"none"} : SvUpdateStage(g, label, from, to)
  PROVE  SvInv'
<1>0. svSecret[g].stages \in SvStages /\ SvOneCurrent(svSecret[g].stages)
  BY DEF SvInv, SvShapes, SvRecord
<1>1. /\ SvMutable(g) /\ svCreates' = svCreates /\ svEdits' \in 0..SvMaxEdits
  <2>1. SvMutable(g) /\ svCreates' = svCreates /\ SvEdit BY DEF SvUpdate, SvRotate, SvPut, SvUpdateStage
  <2>2. svEdits \in 0..SvMaxEdits BY DEF SvInv, SvShapes
  <2> QED BY <2>1, <2>2, SvAssumption DEF SvEdit
<1>2. ASSUME NEW v \in SvVersions, NEW labels \in SUBSET SvLabels, SvPut(g, v, labels) PROVE SvInv'
  <2> DEFINE put == SvWith(svSecret[g].stages, v, {})
  <2>1. put \in SvStages /\ SvOneCurrent(put) /\ v \in DOMAIN put
    <3>1. {} \in SUBSET SvLabels /\ "AWSCURRENT" \notin {} OBVIOUS
    <3>2. v \in DOMAIN put BY DEF SvWith
    <3> HIDE DEF put
    <3>3. put = SvWith(svSecret[g].stages, v, {}) BY DEF put
    <3> QED BY <1>0, <3>1, <3>2, <3>3, SvWithIs
  <2>2. CASE "AWSCURRENT" \in labels
    <3>1. PICK p : svSecret' = SvStored(g, [svSecret[g] EXCEPT !.stages = SvPromote(put, v, p)])
      BY <1>2, <2>2 DEF SvPut
    <3>2. SvPromote(put, v, p) \in SvStages /\ SvOneCurrent(SvPromote(put, v, p))
      <4> HIDE DEF put
      <4> QED BY <2>1, SvPromoteIs
    <3> QED BY <1>1, <3>1, <3>2, SvEditInv
  <2>3. CASE "AWSCURRENT" \notin labels
    <3>1. svSecret' = SvStored(g, [svSecret[g] EXCEPT !.stages = SvWith(put, v, labels)])
      BY <1>2, <2>3 DEF SvPut
    <3>2. SvWith(put, v, labels) \in SvStages /\ SvOneCurrent(SvWith(put, v, labels))
      <4> HIDE DEF put
      <4> QED BY <2>1, <2>3, SvWithIs
    <3> QED BY <1>1, <3>1, <3>2, SvEditInv
  <2> QED BY <2>2, <2>3
<1>3. ASSUME NEW v \in SvVersions, SvUpdate(g, v) PROVE SvInv'
  <2>1. {"AWSCURRENT"} \in SUBSET SvLabels BY SvAssumption
  <2> QED BY <1>2, <1>3, <2>1 DEF SvUpdate
<1>4. ASSUME NEW v \in SvVersions, SvRotate(g, v) PROVE SvInv'
  <2> DEFINE put == SvWith(svSecret[g].stages, v, {"AWSPENDING"})
  <2>1. put \in SvStages /\ v \in DOMAIN put
    <3>1. {"AWSPENDING"} \in SUBSET SvLabels BY SvAssumption
    <3>2. v \in DOMAIN put BY DEF SvWith
    <3> HIDE DEF put
    <3>3. put = SvWith(svSecret[g].stages, v, {"AWSPENDING"}) BY DEF put
    <3> QED BY <1>0, <3>1, <3>2, <3>3, SvWithIs
  <2>2. PICK p : svSecret' = SvStored(g, [svSecret[g] EXCEPT !.stages = SvPromote(put, v, p)])
    BY <1>4 DEF SvRotate
  <2>3. SvPromote(put, v, p) \in SvStages /\ SvOneCurrent(SvPromote(put, v, p))
    <3> HIDE DEF put
    <3> QED BY <2>1, SvPromoteIs
  <2> QED BY <1>1, <2>2, <2>3, SvEditInv
<1>5. ASSUME NEW label \in SvLabels, NEW from, NEW to, SvUpdateStage(g, label, from, to) PROVE SvInv'
  <2> DEFINE source == IF from = to THEN "none" ELSE from
  <2>1. PICK current : svSecret' = SvStored(g, [svSecret[g] EXCEPT !.stages =
                                   SvMoved(svSecret[g].stages, label, source, to, current)])
    BY <1>5 DEF SvUpdateStage
  <2>2. /\ SvMoved(svSecret[g].stages, label, source, to, current) \in SvStages
        /\ SvOneCurrent(SvMoved(svSecret[g].stages, label, source, to, current))
    <3> HIDE DEF source
    <3> QED BY <1>0, SvMovedIs
  <2> HIDE DEF source
  <2> QED BY <1>1, <2>1, <2>2, SvEditInv
<1> QED BY <1>2, <1>3, <1>4, <1>5

LEMMA SvDeletedInv ==
  ASSUME SvInv, NEW g \in SvRegions, SvSchedule(g) \/ SvRestore(g)
  PROVE  SvInv'
<1>1. PICK d \in BOOLEAN : svSecret' = SvStored(g, [svSecret[g] EXCEPT !.deleted = d])
  BY DEF SvSchedule, SvRestore
<1>2. svSecret[g] \in SvRecord /\ svSecret[g].primary = "none" /\ svSecret[g].serial > 0
  <2>1. svSecret[g] \in SvRecord BY DEF SvInv, SvShapes
  <2>2. svSecret[g].serial # 0 BY DEF SvInv, SvShapes, SvMutable, SvKnown, SvSchedule, SvRestore
  <2> QED BY <2>1, <2>2 DEF SvRecord, SvMutable, SvIsReplica, SvSchedule, SvRestore
<1> DEFINE s == [svSecret[g] EXCEPT !.deleted = d]
<1>3. /\ s \in SvRecord /\ s.primary = "none" /\ s.serial = svSecret[g].serial
      /\ s.replicas = svSecret[g].replicas /\ s.stages = svSecret[g].stages
  BY <1>2 DEF SvRecord
<1> HIDE DEF s
<1>4. svSecret' = SvStored(g, s) BY <1>1 DEF s
<1>5. SvOneCurrent(s.stages) /\ svCreates' = svCreates /\ svEdits' \in 0..SvMaxEdits
  BY <1>3 DEF SvInv, SvShapes, SvSchedule, SvRestore
<1> QED BY <1>2, <1>3, <1>4, <1>5, SvStoredInv

LEMMA SvInitInv == SvInit => SvInv
<1> SUFFICES ASSUME SvInit PROVE SvInv OBVIOUS
<1>1. /\ svSecret = [g \in SvRegions |-> SvAbsent] /\ svCreates = 0 /\ svEdits = 0
      /\ \A g \in SvRegions : svSecret[g] = SvAbsent
  BY DEF SvInit
<1>2. SvShapes BY <1>1, SvAbsentIs, SvAssumption DEF SvShapes
<1>3. SvReplicasFollow BY <1>1, SvAbsentIs DEF SvReplicasFollow, SvIsReplica, SvReplicated
<1>4. SvOwn BY <1>1, SvAbsentIs DEF SvOwn
<1> QED BY <1>2, <1>3, <1>4 DEF SvInv

LEMMA SvInvStep == ASSUME SvInv, [SvNext]_svVars PROVE SvInv'
<1>1. CASE UNCHANGED svVars
  <2>1. UNCHANGED <<svSecret, svCreates, svEdits>> BY <1>1 DEF svVars
  <2> QED BY <2>1 DEF SvInv, SvShapes, SvReplicasFollow, SvReplicated, SvIsReplica, SvOwn
<1>2. CASE SvNext
  <2>1. PICK g \in SvRegions :
          \/ \E v \in SvVersions : SvCreate(g, v) \/ SvUpdate(g, v) \/ SvRotate(g, v)
          \/ \E v \in SvVersions, labels \in SUBSET SvLabels : labels # {} /\ SvPut(g, v, labels)
          \/ \E label \in SvLabels, from, to \in SvVersions \cup {"none"} : SvUpdateStage(g, label, from, to)
          \/ \E regions \in SUBSET SvRegions, force \in BOOLEAN : SvReplicate(g, regions, force)
          \/ SvForceDelete(g) \/ SvSchedule(g) \/ SvRestore(g)
    BY <1>2 DEF SvNext
  <2>2. CASE \E v \in SvVersions : SvCreate(g, v) BY <2>2, SvCreateInv
  <2>3. CASE \E regions \in SUBSET SvRegions, force \in BOOLEAN : SvReplicate(g, regions, force)
    BY <2>3, SvReplicateInv
  <2>4. CASE SvForceDelete(g) BY <2>4, SvForceDeleteInv
  <2>5. CASE SvSchedule(g) \/ SvRestore(g) BY <2>5, SvDeletedInv
  <2>6. CASE \/ \E v \in SvVersions : SvUpdate(g, v) \/ SvRotate(g, v)
             \/ \E v \in SvVersions, labels \in SUBSET SvLabels : SvPut(g, v, labels)
             \/ \E label \in SvLabels, from, to \in SvVersions \cup {"none"} : SvUpdateStage(g, label, from, to)
    BY <2>6, SvLabelsInv
  <2> QED BY <2>1, <2>2, <2>3, <2>4, <2>5, <2>6
<1> QED BY <1>1, <1>2

LEMMA SvTyped == ASSUME SvInv PROVE SvTypeOK
<1> SUFFICES ASSUME NEW g \in SvRegions
             PROVE  LET r == svSecret[g] IN
                    /\ r.serial \in 0..svCreates /\ r.deleted \in BOOLEAN
                    /\ r.replicas \subseteq SvRegions \ {g} /\ r.primary \in SvRegions \cup {"none"}
                    /\ DOMAIN r.stages \subseteq SvVersions
                    /\ \A v \in DOMAIN r.stages : r.stages[v] \subseteq SvLabels
                    /\ Cardinality(SvHolders(r.stages, "AWSCURRENT")) <= 1
  BY DEF SvTypeOK, SvInv, SvShapes
<1>1. svSecret[g] \in SvRecord /\ svSecret[g].serial <= svCreates /\ svCreates \in Nat
      /\ SvOneCurrent(svSecret[g].stages)
  BY SvAssumption DEF SvInv, SvShapes
<1>2. /\ svSecret[g].serial \in Nat /\ svSecret[g].deleted \in BOOLEAN
      /\ svSecret[g].primary \in SvRegions \cup {"none"} /\ svSecret[g].stages \in SvStages
  BY <1>1 DEF SvRecord
<1>3. \A x \in svSecret[g].replicas : x \in SvRegions /\ x # g BY SvReplicaIs
<1>4. Cardinality(SvHolders(svSecret[g].stages, "AWSCURRENT")) <= 1
  <2> DEFINE H == SvHolders(svSecret[g].stages, "AWSCURRENT")
  <2>1. \A v, w \in H : v = w BY <1>1 DEF SvHolders, SvOneCurrent
  <2>2. CASE H = {} BY <2>2, FS_EmptySet
  <2>3. CASE H # {}
    <3>1. PICK v : H = {v}
      <4>1. PICK v : v \in H BY <2>3
      <4> HIDE DEF H
      <4> QED BY <2>1, <4>1
    <3> QED BY <3>1, FS_Singleton
  <2> QED BY <2>2, <2>3
<1> QED BY <1>1, <1>2, <1>3, <1>4, SvStagesIs

-----------------------------------------------------------------------------
(* SvDemotes: labels before a step and after it, of one record.             *)
SvDemoted(before, after) ==
  \A v \in SvHolders(before, "AWSCURRENT"), w \in SvHolders(after, "AWSCURRENT") :
    v # w => v \in SvHolders(after, "AWSPREVIOUS")

LEMMA SvSameDemoted == ASSUME NEW stages, SvOneCurrent(stages) PROVE SvDemoted(stages, stages)
BY DEF SvDemoted, SvOneCurrent, SvHolders

LEMMA SvWithDemoted ==
  ASSUME NEW stages, SvOneCurrent(stages), NEW v, NEW labels, "AWSCURRENT" \notin labels
  PROVE  SvDemoted(stages, SvWith(stages, v, labels))
BY DEF SvDemoted, SvOneCurrent, SvHolders, SvWith

(* What is current where a version is put first stays so but for it.        *)
LEMMA SvPromoteDemoted ==
  ASSUME NEW stages, NEW v, NEW labels, NEW p, "AWSCURRENT" \notin labels
  PROVE  SvDemoted(stages, SvPromote(SvWith(stages, v, labels), v, p))
<1> DEFINE put == SvWith(stages, v, labels)
           D == {x \in DOMAIN put : x # p \/ put[x] # {"AWSPREVIOUS"}}
           F(x) == CASE x = v -> (put[x] \cup {"AWSCURRENT"}) \ {"AWSPENDING"}
                     [] x # v /\ "AWSCURRENT" \in put[x] -> (put[x] \ {"AWSCURRENT"}) \cup {"AWSPREVIOUS"}
                     [] x = p /\ "AWSCURRENT" \notin put[x] -> put[x] \ {"AWSPREVIOUS"}
                     [] OTHER -> put[x]
<1>1. SvPromote(put, v, p) = [x \in D |-> F(x)] BY DEF SvPromote
<1>2. \A x \in DOMAIN stages : x \in DOMAIN put /\ (x # v => put[x] = stages[x]) BY DEF SvWith
<1> HIDE DEF put
<1>3. ASSUME NEW x \in SvHolders(stages, "AWSCURRENT"), x # v
      PROVE  x \in D /\ "AWSPREVIOUS" \in F(x)
  <2>1. x \in DOMAIN put /\ "AWSCURRENT" \in put[x] BY <1>2, <1>3 DEF SvHolders
  <2>2. x \in D BY <2>1
  <2>3. F(x) = (put[x] \ {"AWSCURRENT"}) \cup {"AWSPREVIOUS"} BY <1>3, <2>1
  <2> QED BY <2>2, <2>3
<1>4. ASSUME NEW x \in D, "AWSCURRENT" \in F(x) PROVE x = v
  <2> SUFFICES ASSUME x # v PROVE FALSE OBVIOUS
  <2>1. CASE "AWSCURRENT" \in put[x]
    <3>1. F(x) = (put[x] \ {"AWSCURRENT"}) \cup {"AWSPREVIOUS"} BY <2>1
    <3> QED BY <1>4, <3>1
  <2>2. CASE "AWSCURRENT" \notin put[x]
    <3>1. F(x) = put[x] \ {"AWSPREVIOUS"} \/ F(x) = put[x] BY <2>2
    <3> QED BY <1>4, <2>2, <3>1
  <2> QED BY <2>1, <2>2
<1> HIDE DEF D, F
<1>5. SvDemoted(stages, [x \in D |-> F(x)]) BY <1>3, <1>4 DEF SvDemoted, SvHolders
<1> QED BY <1>1, <1>5 DEF put

(* UpdateSecretVersionStage, where old is the holder of the label, if any.  *)
LEMMA SvMovedDemoted ==
  ASSUME NEW stages \in SvStages, SvOneCurrent(stages), NEW label, NEW from, NEW to, NEW old,
         SvHolders(stages, label) = {} \/ old \in SvHolders(stages, label)
  PROVE  SvDemoted(stages, SvMoved(stages, label, from, to, old))
<1> DEFINE D == DOMAIN stages
           W(x) == IF x = from \/ (to # "none" /\ x # to) THEN stages[x] \ {label} ELSE stages[x]
           U(x) == IF x = to THEN W(x) \cup {label} ELSE W(x)
           F(x) == IF label # "AWSCURRENT" \/ to = "none" \/ old \in {"none", to} THEN U(x)
                   ELSE IF x = old THEN U(x) \cup {"AWSPREVIOUS"} ELSE U(x) \ {"AWSPREVIOUS"}
<1>1. SvMoved(stages, label, from, to, old) = [x \in D |-> F(x)] BY DEF SvMoved
<1>2. "none" \notin D BY SvStagesIs, SvAssumption
<1>3. \A x \in D : "AWSCURRENT" \in F(x) => "AWSCURRENT" \in U(x) OBVIOUS
<1>4. ASSUME NEW v \in D, NEW w \in D, v # w, "AWSCURRENT" \in stages[v], "AWSCURRENT" \in F(w)
      PROVE  "AWSPREVIOUS" \in F(v)
  <2>1. "AWSCURRENT" \notin stages[w] BY <1>4 DEF SvOneCurrent
  <2>2. label = "AWSCURRENT" /\ w = to BY <1>3, <1>4, <2>1
  <2>3. to # "none" BY <1>2, <2>2
  <2>4. old \in D /\ "AWSCURRENT" \in stages[old] BY <1>4, <2>2 DEF SvHolders
  <2>5. old = v BY <1>4, <2>4 DEF SvOneCurrent
  <2>6. old # "none" /\ old # to BY <1>2, <1>4, <2>2, <2>5
  <2>7. F(v) = U(v) \cup {"AWSPREVIOUS"} BY <2>2, <2>3, <2>5, <2>6
  <2> QED BY <2>7
<1> HIDE DEF D, F
<1>5. SvDemoted(stages, [x \in D |-> F(x)]) BY <1>4 DEF SvDemoted, SvHolders, D
<1> QED BY <1>1, <1>5

(* What is put in g's labels is put in those of its replicas.               *)
LEMMA SvStoredDemoted ==
  ASSUME SvInv, NEW g \in SvRegions, NEW secret \in SvRecord, secret.serial = svSecret[g].serial,
         secret.replicas = svSecret[g].replicas, SvDemoted(svSecret[g].stages, secret.stages),
         svSecret' = SvStored(g, secret), NEW x \in SvRegions
  PROVE  SvDemoted(svSecret[x].stages, svSecret'[x].stages)
<1>1. SvReplicated(secret, g) = svSecret[g].replicas
  <2>1. svSecret[g].replicas = SvReplicated(svSecret[g], g) BY DEF SvInv, SvReplicasFollow
  <2> QED BY <2>1 DEF SvReplicated
<1>2. CASE x = g
  <2>1. g \notin SvReplicated(secret, g) BY DEF SvReplicated
  <2>2. svSecret'[x] = secret BY <1>2, <2>1 DEF SvStored
  <2> QED BY <1>2, <2>2
<1>3. CASE x # g /\ x \in svSecret[g].replicas
  <2>1. svSecret'[x] = SvReplicaOf(secret, g) BY <1>1, <1>3 DEF SvStored
  <2>2. svSecret'[x].stages = secret.stages BY <2>1, SvReplicaOfIs
  <2>3. svSecret[x].stages = svSecret[g].stages
    <3>1. svSecret[x].primary = g /\ g # "none" BY <1>3, SvReplicaIs, SvAssumption
    <3>2. svSecret[x] = SvReplicaOf(svSecret[g], g) BY <3>1, SvPrimaryIs
    <3>3. svSecret[g] \in SvRecord BY DEF SvInv, SvShapes
    <3> QED BY <3>2, <3>3, SvReplicaOfIs
  <2> QED BY <2>2, <2>3
<1>4. CASE x # g /\ x \notin svSecret[g].replicas
  <2>1. svSecret'[x] = svSecret[x] BY <1>1, <1>4 DEF SvStored
  <2>2. SvOneCurrent(svSecret[x].stages) BY DEF SvInv, SvShapes
  <2> QED BY <2>1, <2>2, SvSameDemoted
<1> QED BY <1>2, <1>3, <1>4

LEMMA SvEditDemoted ==
  ASSUME SvInv, NEW g \in SvRegions, NEW stages \in SvStages, SvDemoted(svSecret[g].stages, stages),
         svSecret' = SvStored(g, [svSecret[g] EXCEPT !.stages = stages]), NEW x \in SvRegions
  PROVE  SvDemoted(svSecret[x].stages, svSecret'[x].stages)
<1>1. svSecret[g] \in SvRecord BY DEF SvInv, SvShapes
<1> DEFINE s == [svSecret[g] EXCEPT !.stages = stages]
<1>2. /\ s \in SvRecord /\ s.serial = svSecret[g].serial
      /\ s.replicas = svSecret[g].replicas /\ s.stages = stages
  BY <1>1 DEF SvRecord
<1>3. svSecret' = SvStored(g, s) OBVIOUS
<1> HIDE DEF s
<1> QED BY <1>2, <1>3, SvStoredDemoted

LEMMA SvLabelsDemoted ==
  ASSUME SvInv, NEW g \in SvRegions,
         \/ \E v \in SvVersions : SvUpdate(g, v) \/ SvRotate(g, v)
         \/ \E v \in SvVersions, labels \in SUBSET SvLabels : SvPut(g, v, labels)
         \/ \E label \in SvLabels, from, to \in SvVersions \cup {"none"} : SvUpdateStage(g, label, from, to),
         NEW x \in SvRegions
  PROVE  SvDemoted(svSecret[x].stages, svSecret'[x].stages)
<1> DEFINE stages == svSecret[g].stages
<1>0. stages \in SvStages /\ SvOneCurrent(stages) BY DEF SvInv, SvShapes, SvRecord
<1>1. ASSUME NEW v \in SvVersions, NEW labels \in SUBSET SvLabels, SvPut(g, v, labels)
      PROVE  SvDemoted(svSecret[x].stages, svSecret'[x].stages)
  <2> DEFINE put == SvWith(stages, v, {})
  <2>1. CASE "AWSCURRENT" \in labels
    <3>1. PICK p : svSecret' = SvStored(g, [svSecret[g] EXCEPT !.stages = SvPromote(put, v, p)])
      BY <1>1, <2>1 DEF SvPut
    <3>2. SvDemoted(stages, SvPromote(put, v, p))
      <4> HIDE DEF stages
      <4>1. "AWSCURRENT" \notin {} OBVIOUS
      <4> QED BY <4>1, SvPromoteDemoted
    <3>3. SvPromote(put, v, p) \in SvStages
      <4>1. put \in SvStages
        <5>1. {} \in SUBSET SvLabels OBVIOUS
        <5> HIDE DEF stages
        <5> QED BY <1>0, <5>1, SvWithIs
      <4>2. v \in DOMAIN put BY DEF SvWith
      <4> HIDE DEF put
      <4> QED BY <4>1, <4>2, SvPromoteIs
    <3> QED BY <3>1, <3>2, <3>3, SvEditDemoted
  <2>2. CASE "AWSCURRENT" \notin labels
    <3>1. svSecret' = SvStored(g, [svSecret[g] EXCEPT !.stages = SvWith(put, v, labels)])
      BY <1>1, <2>2 DEF SvPut
    <3>2. SvWith(put, v, labels) = SvWith(stages, v, labels) BY DEF SvWith
    <3>3. SvWith(stages, v, labels) \in SvStages
      <4> HIDE DEF stages
      <4> QED BY <1>0, SvWithIs
    <3>4. SvDemoted(stages, SvWith(stages, v, labels))
      <4> HIDE DEF stages
      <4> QED BY <1>0, <2>2, SvWithDemoted
    <3> QED BY <3>1, <3>2, <3>3, <3>4, SvEditDemoted
  <2> QED BY <2>1, <2>2
<1>2. ASSUME NEW v \in SvVersions, SvUpdate(g, v)
      PROVE  SvDemoted(svSecret[x].stages, svSecret'[x].stages)
  <2>1. {"AWSCURRENT"} \in SUBSET SvLabels BY SvAssumption
  <2> QED BY <1>1, <1>2, <2>1 DEF SvUpdate
<1>3. ASSUME NEW v \in SvVersions, SvRotate(g, v)
      PROVE  SvDemoted(svSecret[x].stages, svSecret'[x].stages)
  <2> DEFINE put == SvWith(stages, v, {"AWSPENDING"})
  <2>1. PICK p : svSecret' = SvStored(g, [svSecret[g] EXCEPT !.stages = SvPromote(put, v, p)])
    BY <1>3 DEF SvRotate
  <2>2. SvDemoted(stages, SvPromote(put, v, p))
    <3> HIDE DEF stages
    <3>1. "AWSCURRENT" \notin {"AWSPENDING"} OBVIOUS
    <3> QED BY <3>1, SvPromoteDemoted
  <2>3. SvPromote(put, v, p) \in SvStages
    <3>1. put \in SvStages
      <4>1. {"AWSPENDING"} \in SUBSET SvLabels BY SvAssumption
      <4> HIDE DEF stages
      <4> QED BY <1>0, <4>1, SvWithIs
    <3>2. v \in DOMAIN put BY DEF SvWith
    <3> HIDE DEF put
    <3> QED BY <3>1, <3>2, SvPromoteIs
  <2> QED BY <2>1, <2>2, <2>3, SvEditDemoted
<1>4. ASSUME NEW label \in SvLabels, NEW from, NEW to, SvUpdateStage(g, label, from, to)
      PROVE  SvDemoted(svSecret[x].stages, svSecret'[x].stages)
  <2> DEFINE source == IF from = to THEN "none" ELSE from
             holders == SvHolders(stages, label)
  <2>1. PICK old \in IF holders = {} THEN {"none"} ELSE holders :
          svSecret' = SvStored(g, [svSecret[g] EXCEPT !.stages = SvMoved(stages, label, source, to, old)])
    BY <1>4 DEF SvUpdateStage
  <2>2. holders = {} \/ old \in holders BY <2>1
  <2> HIDE DEF source
  <2>3. SvMoved(stages, label, source, to, old) \in SvStages
    <3> HIDE DEF stages
    <3> QED BY <1>0, SvMovedIs
  <2>4. SvDemoted(stages, SvMoved(stages, label, source, to, old))
    <3> HIDE DEF stages
    <3> QED BY <1>0, <2>2, SvMovedDemoted
  <2> QED BY <2>1, <2>3, <2>4, SvEditDemoted
<1> QED BY <1>1, <1>2, <1>3, <1>4

(* A region that a secret is replicated to had its replica, or another's    *)
(* record: then it is another serial.                                       *)
LEMMA SvReplicateDemoted ==
  ASSUME SvInv, NEW g \in SvRegions, NEW regions \in SUBSET SvRegions, NEW force \in BOOLEAN,
         SvReplicate(g, regions, force), NEW x \in SvRegions, svSecret'[x].serial = svSecret[x].serial
  PROVE  SvDemoted(svSecret[x].stages, svSecret'[x].stages)
<1> DEFINE secret == svSecret[g]
           taken == {y \in regions : SvKnown(y) /\ svSecret[y].serial # secret.serial}
           orphans == UNION {SvReplicated(svSecret[y], y) : y \in taken}
           leaving(y) == {z \in taken : SvIsReplica(svSecret[z]) /\ svSecret[z].primary = y
                                          /\ svSecret[z].serial = svSecret[y].serial}
<1>0. /\ secret \in SvRecord /\ svSecret[x] \in SvRecord /\ SvOneCurrent(svSecret[x].stages)
      /\ svSecret[x].serial = 0 => svSecret[x] = SvAbsent
      /\ secret.serial # 0 /\ secret.primary = "none" /\ g \notin regions
  BY DEF SvInv, SvShapes, SvReplicate, SvMutable, SvKnown, SvIsReplica
<1>1. svSecret'[x] = CASE x = g -> [secret EXCEPT !.replicas = secret.replicas \cup regions]
                       [] x \in regions -> SvReplicaOf(secret, g)
                       [] x \notin regions \cup {g} /\ x \in orphans -> SvAbsent
                       [] OTHER -> [svSecret[x] EXCEPT !.replicas = svSecret[x].replicas \ leaving(x)]
  BY DEF SvReplicate
<1> HIDE DEF taken, orphans, leaving
<1>2. SvDemoted(svSecret[x].stages, svSecret[x].stages) BY <1>0, SvSameDemoted
<1>3. CASE x = g
  <2>1. svSecret'[x] = [secret EXCEPT !.replicas = secret.replicas \cup regions] BY <1>0, <1>1, <1>3
  <2>2. svSecret'[x].stages = secret.stages BY <1>0, <2>1 DEF SvRecord
  <2> QED BY <1>2, <1>3, <2>2
<1>4. CASE x \in regions
  <2>1. svSecret'[x] = SvReplicaOf(secret, g) BY <1>0, <1>1, <1>4
  <2>2. svSecret'[x].stages = secret.stages /\ svSecret'[x].serial = secret.serial
    <3> HIDE DEF secret
    <3> QED BY <1>0, <2>1, SvReplicaOfIs
  <2>3. svSecret[x].serial = secret.serial /\ x # g BY <1>0, <1>4, <2>2
  <2>4. svSecret[x].primary # "none" BY <1>0, <2>3 DEF SvInv, SvOwn
  <2> DEFINE h == svSecret[x].primary
  <2>5. /\ h \in SvRegions /\ svSecret[h].primary = "none" /\ svSecret[h].serial = svSecret[x].serial
        /\ svSecret[x] = SvReplicaOf(svSecret[h], h)
    BY <2>4, SvPrimaryIs
  <2>6. h = g BY <1>0, <2>3, <2>5 DEF SvInv, SvOwn
  <2>7. svSecret[x].stages = secret.stages
    <3>1. svSecret[x] = SvReplicaOf(secret, g) BY <2>5, <2>6
    <3> HIDE DEF secret
    <3> QED BY <1>0, <3>1, SvReplicaOfIs
  <2> QED BY <1>2, <2>2, <2>7
<1>5. CASE x \notin regions \cup {g} /\ x \in orphans
  <2>1. svSecret'[x] = SvAbsent BY <1>1, <1>5
  <2>2. svSecret[x] = SvAbsent BY <1>0, <2>1, SvAbsentIs
  <2> QED BY <1>2, <2>1, <2>2
<1>6. CASE x \notin regions \cup {g} /\ x \notin orphans
  <2>1. svSecret'[x] = [svSecret[x] EXCEPT !.replicas = svSecret[x].replicas \ leaving(x)] BY <1>1, <1>6
  <2>2. svSecret'[x].stages = svSecret[x].stages BY <1>0, <2>1 DEF SvRecord
  <2> QED BY <1>2, <2>2
<1> QED BY <1>3, <1>4, <1>5, <1>6

LEMMA SvStepDemoted ==
  ASSUME SvInv, SvNext, NEW x \in SvRegions, svSecret'[x].serial = svSecret[x].serial
  PROVE  SvDemoted(svSecret[x].stages, svSecret'[x].stages)
<1>0. SvDemoted(svSecret[x].stages, svSecret[x].stages) BY SvSameDemoted DEF SvInv, SvShapes
<1>1. PICK g \in SvRegions :
        \/ \E v \in SvVersions : SvCreate(g, v) \/ SvUpdate(g, v) \/ SvRotate(g, v)
        \/ \E v \in SvVersions, labels \in SUBSET SvLabels : labels # {} /\ SvPut(g, v, labels)
        \/ \E label \in SvLabels, from, to \in SvVersions \cup {"none"} : SvUpdateStage(g, label, from, to)
        \/ \E regions \in SUBSET SvRegions, force \in BOOLEAN : SvReplicate(g, regions, force)
        \/ SvForceDelete(g) \/ SvSchedule(g) \/ SvRestore(g)
  BY DEF SvNext
<1>2. CASE \E v \in SvVersions : SvCreate(g, v)
  <2>1. PICK v \in SvVersions : SvCreate(g, v) BY <1>2
  <2>2. CASE x # g
    <3>1. svSecret'[x] = svSecret[x] BY <2>1, <2>2 DEF SvCreate, SvInv, SvShapes
    <3> QED BY <1>0, <3>1
  <2>3. CASE x = g
    <3>1. SvHolders(svSecret[x].stages, "AWSCURRENT") = {}
      <4>1. svSecret[x].stages = [y \in {} |-> {}] BY <2>1, <2>3 DEF SvCreate, SvKnown, SvAbsent
      <4> QED BY <4>1 DEF SvHolders
    <3> QED BY <3>1 DEF SvDemoted
  <2> QED BY <2>2, <2>3
<1>3. CASE \E regions \in SUBSET SvRegions, force \in BOOLEAN : SvReplicate(g, regions, force)
  BY <1>3, SvReplicateDemoted
<1>4. CASE SvForceDelete(g)
  <2>1. svSecret'[x] = SvAbsent \/ svSecret'[x] = svSecret[x] BY <1>4 DEF SvForceDelete, SvPurged
  <2>2. CASE svSecret'[x] = SvAbsent
    <3>1. svSecret[x] = SvAbsent BY <2>2, SvAbsentIs DEF SvInv, SvShapes
    <3> QED BY <1>0, <2>2, <3>1
  <2> QED BY <1>0, <2>1, <2>2
<1>5. CASE SvSchedule(g) \/ SvRestore(g)
  <2>1. PICK d \in BOOLEAN : svSecret' = SvStored(g, [svSecret[g] EXCEPT !.deleted = d])
    BY <1>5 DEF SvSchedule, SvRestore
  <2>2. svSecret[g] \in SvRecord /\ SvOneCurrent(svSecret[g].stages) BY DEF SvInv, SvShapes
  <2> DEFINE s == [svSecret[g] EXCEPT !.deleted = d]
  <2>3. /\ s \in SvRecord /\ s.serial = svSecret[g].serial
        /\ s.replicas = svSecret[g].replicas /\ s.stages = svSecret[g].stages
    BY <2>2 DEF SvRecord
  <2>4. svSecret' = SvStored(g, s) BY <2>1
  <2> HIDE DEF s
  <2>5. SvDemoted(svSecret[g].stages, s.stages) BY <2>2, <2>3, SvSameDemoted
  <2> QED BY <2>3, <2>4, <2>5, SvStoredDemoted
<1>6. CASE \/ \E v \in SvVersions : SvUpdate(g, v) \/ SvRotate(g, v)
           \/ \E v \in SvVersions, labels \in SUBSET SvLabels : SvPut(g, v, labels)
           \/ \E label \in SvLabels, from, to \in SvVersions \cup {"none"} : SvUpdateStage(g, label, from, to)
  BY <1>6, SvLabelsDemoted
<1> QED BY <1>1, <1>2, <1>3, <1>4, <1>5, <1>6

-----------------------------------------------------------------------------
LEMMA EnginesSteps ==
  [NextEngines]_enginesVars => [SfNext]_sfVars /\ [CfNext]_cfVars /\ [CwNext]_cwVars /\ [SvNext]_svVars
<1> SUFFICES ASSUME [NextEngines]_enginesVars
             PROVE  [SfNext]_sfVars /\ [CfNext]_cfVars /\ [CwNext]_cwVars /\ [SvNext]_svVars
  OBVIOUS
<1>1. CASE UNCHANGED enginesVars BY <1>1 DEF enginesVars
<1>2. CASE NextEngines
  BY <1>2 DEF NextEngines, OfExecutions, OfStack, OfConditions, OfProviders, OfSecrets, CwNext
<1> QED BY <1>1, <1>2

(* A client that holds the token of the attempt under way is heard, an      *)
(* answer is never taken for a token that no thread waits on, and a task is *)
(* handed to one worker: for any number of executions, workers, attempts,   *)
(* activities made and restarts.                                            *)
THEOREM AnswersMeetTheirTasks == SpecEngines => []TasksMeetAnswers
<1>1. InitEngines => SfInv BY SfInitInv DEF InitEngines
<1>2. SfInv /\ [NextEngines]_enginesVars => SfInv' BY EnginesSteps, SfInvStep
<1>3. SfInv => TasksMeetAnswers
  <2> SUFFICES ASSUME SfInv PROVE SfAnswersMeetTheirTask /\ SfHandedOnce BY DEF TasksMeetAnswers
  <2>1. \A t \in sfKnown : t \in SfTokenIds /\ SfOut(t) BY DEF SfInv, SfShapes, SfOut
  <2> QED BY <2>1 DEF SfInv, SfOpen, SfAwaited, SfAnswersMeetTheirTask
<1> QED BY <1>1, <1>2, <1>3, PTL DEF SpecEngines

(* No deploy, replacement, removal, rollback, continued rollback or delete, *)
(* whatever of it fails and wherever it is cancelled, deletes a resource    *)
(* that another still refers to; what an event named as left behind, what   *)
(* a failed rollback is still to repair and what goes with the same update  *)
(* excepted: for any templates and any number of resources and operations.  *)
THEOREM DependentsGoFirst == SpecEngines => []CfDependentsFirst
<1>1. InitEngines => CfInv BY CfInitInv DEF InitEngines
<1>2. CfInv /\ [NextEngines]_enginesVars => CfInv' BY EnginesSteps, CfInvStep
<1>3. CfInv => CfDependentsFirst BY CfRemembers
<1> QED BY <1>1, <1>2, <1>3, PTL DEF SpecEngines

(* When a stack is at rest, every resource that exists is recorded or was   *)
(* named as left behind, and one that ended complete reports what is; and   *)
(* every replica of a secret can be reached through its primary, which      *)
(* lists the regions that hold one: for any templates, regions, versions.   *)
THEOREM NothingIsForgotten == SpecEngines => []ResourcesAccounted
<1>1. InitEngines => CfInv /\ SvInv BY CfInitInv, SvInitInv DEF InitEngines
<1>2. CfInv /\ SvInv /\ [NextEngines]_enginesVars => CfInv' /\ SvInv' BY EnginesSteps, CfInvStep, SvInvStep
<1>3. CfInv /\ SvInv => ResourcesAccounted BY CfRemembers DEF ResourcesAccounted, SvInv
<1> QED BY <1>1, <1>2, <1>3, PTL DEF SpecEngines

(* The records have their shapes; the physical resources of two ids of a    *)
(* stack are never the same one; a handle is there while its condition      *)
(* waits; one version at most is current.                                   *)
THEOREM EnginesTyped == SpecEngines => []EnginesTypeOK
<1> DEFINE Inv == SfInv /\ CfInv /\ CwConditionsInv /\ SvInv
<1>1. InitEngines => Inv BY SfInitInv, CfInitInv, CwInitInv, SvInitInv DEF InitEngines
<1>2. Inv /\ [NextEngines]_enginesVars => Inv' BY EnginesSteps, SfInvStep, CfInvStep, CwStep, SvInvStep
<1>3. Inv => EnginesTypeOK
  <2> SUFFICES ASSUME Inv PROVE EnginesTypeOK OBVIOUS
  <2>1. SfTypeOK BY SfTyped
  <2>2. CfTypeOK BY CfTyped DEF CfInv
  <2>3. CwTypeOK BY CwTyped
  <2>4. SvTypeOK BY SvTyped
  <2> QED BY <2>1, <2>2, <2>3, <2>4 DEF EnginesTypeOK
<1> HIDE DEF Inv
<1> QED BY <1>1, <1>2, <1>3, PTL DEF SpecEngines

(* A version that hands AWSCURRENT to another becomes AWSPREVIOUS in the    *)
(* same step, in the record and in each replica, unless the record is then  *)
(* of another secret: for any regions, versions and labels.                 *)
THEOREM RotationsCanBeTakenBack == SpecEngines => SvDemotes
<1> DEFINE Demotes == \A g \in SvRegions, v, w \in SvVersions :
             /\ svSecret'[g].serial = svSecret[g].serial /\ v # w
             /\ v \in SvHolders(svSecret[g].stages, "AWSCURRENT")
             /\ w \in SvHolders(svSecret'[g].stages, "AWSCURRENT")
             => v \in SvHolders(svSecret'[g].stages, "AWSPREVIOUS")
<1>1. InitEngines => SvInv BY SvInitInv DEF InitEngines
<1>2. SvInv /\ [NextEngines]_enginesVars => SvInv' BY EnginesSteps, SvInvStep
<1>3. SvInv /\ [NextEngines]_enginesVars => [Demotes]_svVars
  <2> SUFFICES ASSUME SvInv, SvNext PROVE Demotes BY EnginesSteps
  <2>1. \A g \in SvRegions : svSecret'[g].serial = svSecret[g].serial =>
          SvDemoted(svSecret[g].stages, svSecret'[g].stages)
    BY SvStepDemoted
  <2> QED BY <2>1 DEF SvDemoted
<1> QED BY <1>1, <1>2, <1>3, PTL DEF SpecEngines, SvDemotes
=============================================================================
