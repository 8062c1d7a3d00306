------------------------------- MODULE NodePool -------------------------------
(***************************************************************************)
(* The pool of Node processes behind AppSync and CloudFront functions:     *)
(* lease or spawn under the pool's lock, one call at a time under the      *)
(* worker's, recycled after so many evaluations, folded when idle workers  *)
(* are many, all dropped by a reset.  Calls bounds how many run at once,   *)
(* Workers how many objects there are.                                     *)
(***************************************************************************)
EXTENDS Naturals, Sequences, FiniteSets

CONSTANTS NpWorkers, NpCalls, NpRecycleAfter, NpMaxIdle

ASSUME NpAssumption ==
  /\ NpWorkers \subseteq Nat \ {0} /\ NpRecycleAfter \in Nat \ {0} /\ NpMaxIdle \in Nat

VARIABLES
  npPool,    \* the workers, in order
  npWorker,  \* worker -> lease, process, evaluations; dropped (history): by a reset
  npCall,    \* call -> how far it is and its worker
  npResets   \* workers a reset has taken out and has yet to shut down

npVars == <<npPool, npWorker, npCall, npResets>>

NpBlank == [inUse |-> FALSE, proc |-> FALSE, evals |-> 0, dropped |-> FALSE]
NpIdleCall == [phase |-> "idle", worker |-> 0]
NpPooled == {npPool[i] : i \in DOMAIN npPool}
NpHolder(w) == {c \in NpCalls : npCall[c].worker = w}
NpUnmade == {w \in NpWorkers : w \notin NpPooled \cup npResets /\ NpHolder(w) = {}}

NpInit ==
  /\ npPool = <<>>
  /\ npWorker = [w \in NpWorkers |-> NpBlank]
  /\ npCall = [c \in NpCalls |-> NpIdleCall]
  /\ npResets = {}

(* _acquire: the first free worker, or a new one.                           *)
NpAcquire(c) ==
  LET free == {i \in DOMAIN npPool : ~npWorker[npPool[i]].inUse} IN
  /\ npCall[c].phase = "idle"
  /\ \/ \E i \in free :
          /\ \A j \in free : i <= j
          /\ npWorker' = [npWorker EXCEPT ![npPool[i]].inUse = TRUE]
          /\ npCall' = [npCall EXCEPT ![c] = [phase |-> "leased", worker |-> npPool[i]]]
          /\ UNCHANGED npPool
     \/ LET new == CHOOSE w \in NpUnmade : TRUE IN
          /\ free = {} /\ NpUnmade # {}
          /\ npWorker' = [npWorker EXCEPT ![new] = [NpBlank EXCEPT !.inUse = TRUE]]
          /\ npCall' = [npCall EXCEPT ![c] = [phase |-> "leased", worker |-> new]]
          /\ npPool' = Append(npPool, new)
  /\ UNCHANGED npResets

(* The worker's lock; the process is started if it is not running.          *)
NpEvaluate(c) ==
  LET w == npCall[c].worker IN
  /\ npCall[c].phase = "leased"
  /\ npCall' = [npCall EXCEPT ![c].phase = "running"]
  /\ npWorker' = [npWorker EXCEPT ![w].proc = TRUE, ![w].evals = @ + 1,
                                  ![w].dropped = w \notin NpPooled \cup npResets]
  /\ UNCHANGED <<npPool, npResets>>

(* The lock is given back with an answer, or without the process: it took   *)
(* too long and was terminated, closed its output or could not be started.  *)
NpEnd(c, alive) ==
  /\ npCall[c].phase = "running"
  /\ npCall' = [npCall EXCEPT ![c].phase = "ended"]
  /\ npWorker' = [npWorker EXCEPT ![npCall[c].worker].proc = alive]
  /\ UNCHANGED <<npPool, npResets>>

NpFreed(w) == [npWorker EXCEPT ![w].inUse = FALSE]
NpIdle(w) == {v \in NpPooled : v = w \/ ~npWorker[v].inUse}

(* Faulty: the first worker counts as one that is kept.                     *)
NpSurplusLate(w) == Cardinality(NpIdle(w)) > NpMaxIdle + 1 /\ w # npPool[1]
(* Faulty: the worker is not yet counted among the idle.                    *)
NpSurplusBefore(w) == Cardinality(NpIdle(w) \ {w}) > NpMaxIdle + 1 /\ w # npPool[1]
NpSurplus(w) == Cardinality(NpIdle(w)) > NpMaxIdle /\ w # npPool[1]

(* list.remove: what is behind the worker moves up.                         *)
NpRemoves(w) == \E i \in DOMAIN npPool :
  /\ npPool[i] = w
  /\ npPool' = [j \in 1..(Len(npPool) - 1) |-> npPool[IF j < i THEN j ELSE j + 1]]

(* Faulty: the fold forgets the process.                                    *)
NpFolded(w) == npWorker' = NpFreed(w) /\ NpRemoves(w)
(* list.remove raises ValueError for a worker that a reset took out: the    *)
(* lease is over, the process left alone, the call fails after its answer.  *)
NpFold(w) ==
  IF w \in NpPooled
  THEN /\ npWorker' = [NpFreed(w) EXCEPT ![w].proc = FALSE]
       /\ NpRemoves(w)
  ELSE /\ npWorker' = NpFreed(w)
       /\ UNCHANGED npPool

(* Faulty: one evaluation too late.                                         *)
NpDueLate(w) == npWorker[w].evals > NpRecycleAfter
NpDue(w) == npWorker[w].evals >= NpRecycleAfter

(* _release: recycled, folded or kept.                                      *)
NpRelease(c) ==
  LET w == npCall[c].worker IN
  /\ npCall[c].phase = "ended"
  /\ IF NpDue(w)
     THEN /\ npWorker' = [NpFreed(w) EXCEPT ![w].evals = 0, ![w].proc = FALSE]
          /\ UNCHANGED npPool
     ELSE IF NpSurplus(w) THEN NpFold(w)
     ELSE npWorker' = NpFreed(w) /\ UNCHANGED npPool
  /\ npCall' = [npCall EXCEPT ![c] = NpIdleCall]
  /\ UNCHANGED npResets

(* reset: the list is emptied under the lock, and each worker shut down     *)
(* under its own, when no evaluation holds it.                              *)
NpReset ==
  /\ npPool # <<>>
  /\ npResets' = npResets \cup NpPooled
  /\ npPool' = <<>>
  /\ UNCHANGED <<npWorker, npCall>>

(* Faulty: does not wait for the evaluation that holds the worker.          *)
NpShutdownLeased(w) ==
  /\ w \in npResets
  /\ npResets' = npResets \ {w}
  /\ npWorker' = [npWorker EXCEPT ![w].proc = FALSE]
  /\ UNCHANGED <<npPool, npCall>>
NpShutdown(w) ==
  /\ w \in npResets /\ \A c \in NpHolder(w) : npCall[c].phase # "running"
  /\ npResets' = npResets \ {w}
  /\ npWorker' = [npWorker EXCEPT ![w].proc = FALSE]
  /\ UNCHANGED <<npPool, npCall>>

NpNext ==
  \/ NpReset
  \/ \E w \in NpWorkers : NpShutdown(w)
  \/ \E c \in NpCalls : NpAcquire(c) \/ NpEvaluate(c) \/ NpRelease(c)
                        \/ \E alive \in BOOLEAN : NpEnd(c, alive)

NpSpec == NpInit /\ [][NpNext]_npVars

-----------------------------------------------------------------------------
NpTypeOK ==
  /\ npPool \in Seq(NpWorkers) /\ Len(npPool) = Cardinality(NpPooled)
  /\ npWorker \in [NpWorkers -> [inUse : BOOLEAN, proc : BOOLEAN, evals : 0..NpRecycleAfter,
                                 dropped : BOOLEAN]]
  /\ npCall \in [NpCalls -> [phase : {"idle", "leased", "running", "ended"},
                             worker : NpWorkers \cup {0}]]
  /\ npResets \subseteq NpWorkers
  /\ \A c, d \in NpCalls : npCall[c].worker = npCall[d].worker /\ c # d => npCall[c].worker = 0

(* After a burst no more than NpMaxIdle processes stay warm beyond the      *)
(* first worker's, however recycling, timeouts and folding interleave.      *)
NpWarmBound ==
  Cardinality({w \in NpPooled : npWorker[w].proc /\ ~npWorker[w].inUse}) <= NpMaxIdle + 1

(* No process is forgotten: it serves a pooled or a leased worker or a      *)
(* reset is about to shut it down.  Except that of a call that leased       *)
(* before the reset and started it after.                                   *)
NpNoOrphans ==
  \A w \in NpWorkers : npWorker[w].proc /\ ~npWorker[w].dropped
                         => w \in NpPooled \cup npResets \/ NpHolder(w) # {}
=============================================================================
