---------------------------- MODULE LambdaWorkers ----------------------------
(***************************************************************************)
(* The local executor's warm workers of one function: the pool of leases   *)
(* (guarded by the module's lock), the worker objects (each with a lock    *)
(* held for a whole handler and a subprocess it starts lazily), and who    *)
(* takes workers out: an update or delete of the function, the reaper and  *)
(* an invocation that failed to start its subprocess.                      *)
(*                                                                         *)
(* LwCalls are invocation threads; those in LwSockets serve a WebSocket    *)
(* route, which gives the lease back before it uses the worker.  A handler *)
(* that runs may invoke its own function and wait.  LwWorkers bounds the   *)
(* objects in use at once.                                                 *)
(***************************************************************************)
EXTENDS Naturals, Sequences, FiniteSets

CONSTANTS LwWorkers, LwCalls, LwSockets, LwMaxCode

ASSUME LwAssumption ==
  /\ LwSockets \subseteq LwCalls /\ LwWorkers \subseteq Nat \ {0} /\ "nobody" \notin LwCalls
  /\ LwMaxCode \in Nat

LwNobody == "nobody"
LwNoWorker == 0

VARIABLES
  lwCode,    \* the function's code: stored by the handler, and displaced in the pool
  lwPool,    \* the key's entries, in order
  lwWorker,  \* worker -> lease, process, lock and the code it was made with; late
             \* (history): spawned, or made of replaced code, after a removal
  lwCall,    \* call -> how far it is, its worker, the code it read, its parent;
             \* need (history): the code every update had displaced when it began
  lwDoomed   \* workers out of the pool that their remover has yet to kill

lwVars == <<lwCode, lwPool, lwWorker, lwCall, lwDoomed>>

LwPooled == {lwPool[i] : i \in DOMAIN lwPool}
LwIdleCall == [phase |-> "idle", worker |-> LwNoWorker, code |-> 0, need |-> 0,
               parent |-> LwNobody]
LwBlank == [inUse |-> FALSE, proc |-> FALSE, lock |-> LwNobody, code |-> 0, late |-> FALSE]

LwSocket(c) == c \in LwSockets
LwHeld(w) == \E c \in LwCalls : lwCall[c].worker = w
(* An object nothing refers to: its identity may be given to a new one.     *)
LwUnmade == {w \in LwWorkers : w \notin LwPooled \cup lwDoomed /\ ~LwHeld(w)}

LwChildren(c) == {d \in LwCalls : lwCall[d].parent = c /\ lwCall[d].phase # "idle"}

LwInit ==
  /\ lwCode = [stored |-> 0, displaced |-> 0]
  /\ lwPool = <<>>
  /\ lwWorker = [w \in LwWorkers |-> LwBlank]
  /\ lwCall = [c \in LwCalls |-> LwIdleCall]
  /\ lwDoomed = {}

(* The thread has the function's record and reads its code.                 *)
LwInvoke(c, parent) ==
  /\ lwCall[c].phase = "idle"
  /\ parent # LwNobody => /\ lwCall[parent].phase = "running" /\ LwChildren(parent) = {}
                          /\ ~LwSocket(c)
  /\ lwCall' = [lwCall EXCEPT ![c] =
       [LwIdleCall EXCEPT !.phase = "called", !.code = lwCode.stored,
                          !.need = lwCode.displaced, !.parent = parent]]
  /\ UNCHANGED <<lwCode, lwPool, lwWorker, lwDoomed>>

LwLeased(c, w) == lwCall' = [lwCall EXCEPT ![c].phase = "leased", ![c].worker = w]

(* Faulty: every lease ends before the worker is used.                      *)
LwLeaseEnds(c) == FALSE
(* A WebSocket route releases its lease in the same breath                  *)
(* (get_or_create_worker), everybody else once the worker is done.          *)
LwKeepsLease(c) == ~LwSocket(c)

(* acquire_worker: the first free entry, or a new one.                      *)
LwAcquire(c) ==
  LET free == {i \in DOMAIN lwPool : ~lwWorker[lwPool[i]].inUse} IN
  /\ lwCall[c].phase = "called"
  /\ \/ \E i \in free :
          /\ \A j \in free : i <= j
          /\ LwLeased(c, lwPool[i])
          /\ lwWorker' = [lwWorker EXCEPT ![lwPool[i]].inUse = LwKeepsLease(c)]
          /\ UNCHANGED lwPool
     \/ LET w == CHOOSE x \in LwUnmade : TRUE IN
          /\ free = {} /\ LwUnmade # {}
          /\ LwLeased(c, w)
          /\ lwWorker' = [lwWorker EXCEPT ![w] =
               [LwBlank EXCEPT !.inUse = LwKeepsLease(c), !.code = lwCall[c].code,
                               !.late = lwCall[c].code < lwCode.displaced]]
          /\ lwPool' = Append(lwPool, w)
  /\ UNCHANGED <<lwCode, lwDoomed>>

(* invoke: the worker's lock, and a subprocess if there is none.            *)
LwRun(c) ==
  LET w == lwCall[c].worker IN
  /\ lwCall[c].phase = "leased" /\ lwWorker[w].lock = LwNobody
  /\ lwCall' = [lwCall EXCEPT ![c].phase = "running"]
  /\ lwWorker' = [lwWorker EXCEPT ![w].lock = c, ![w].proc = TRUE,
                     ![w].late = @ \/ (~lwWorker[w].proc /\ w \notin LwPooled)]
  /\ UNCHANGED <<lwCode, lwPool, lwDoomed>>

LwEnded(c) == lwCall' = [d \in LwCalls |->
  IF d = c THEN LwIdleCall
  ELSE IF lwCall[d].parent = c THEN [lwCall[d] EXCEPT !.parent = LwNobody] ELSE lwCall[d]]
LwReleased(c, w) == [lwWorker[w] EXCEPT !.lock = LwNobody,
                                        !.inUse = IF LwSocket(c) THEN @ ELSE FALSE]

(* Faulty: the worker is put back into a pool it never left.                *)
LwAnswerPools(c) ==
  LET w == lwCall[c].worker IN
  /\ lwCall[c].phase = "running" /\ lwWorker[w].proc /\ LwChildren(c) = {}
  /\ lwWorker' = [lwWorker EXCEPT ![w] = LwReleased(c, w)]
  /\ lwPool' = Append(lwPool, w)
  /\ LwEnded(c)
  /\ UNCHANGED <<lwCode, lwDoomed>>
(* The subprocess answers; the locks are given back one after the other,    *)
(* which nobody can tell: an entry in use is not looked into.               *)
LwAnswer(c) ==
  LET w == lwCall[c].worker IN
  /\ lwCall[c].phase = "running" /\ lwWorker[w].proc /\ LwChildren(c) = {}
  /\ lwWorker' = [lwWorker EXCEPT ![w] = LwReleased(c, w)]
  /\ LwEnded(c)
  /\ UNCHANGED <<lwCode, lwPool, lwDoomed>>

(* A timeout, a handler error or a subprocess that died: it is replaced at  *)
(* the next lease.                                                          *)
LwError(c) ==
  LET w == lwCall[c].worker IN
  /\ lwCall[c].phase = "running"
  /\ lwWorker' = [lwWorker EXCEPT ![w] = [LwReleased(c, w) EXCEPT !.proc = FALSE]]
  /\ LwEnded(c)
  /\ UNCHANGED <<lwCode, lwPool, lwDoomed>>

(* Faulty: leaves a worker in use to whoever releases it.                   *)
LwInvalidateIdle ==
  /\ lwDoomed' = lwDoomed \cup {w \in LwPooled : ~lwWorker[w].inUse}
  /\ lwPool' = <<>>
(* Faulty: keeps what is in use.                                            *)
LwInvalidateKeepsUsed ==
  /\ lwDoomed' = lwDoomed \cup {w \in LwPooled : ~lwWorker[w].inUse}
  /\ lwPool' = SelectSeq(lwPool, LAMBDA w : lwWorker[w].inUse)
(* invalidate_worker: every entry, in use or not, is popped under the lock  *)
(* and killed outside it.                                                   *)
LwInvalidate ==
  /\ lwDoomed' = lwDoomed \cup LwPooled
  /\ lwPool' = <<>>

(* No subprocess could be started (a bad archive, a layer, the runtime): an *)
(* invocation then invalidates the whole key, a WebSocket route does not.   *)
LwSpawnFails(c) ==
  LET w == lwCall[c].worker IN
  /\ lwCall[c].phase = "leased" /\ lwWorker[w].lock = LwNobody /\ ~lwWorker[w].proc
  /\ LwEnded(c)
  /\ IF LwSocket(c) THEN UNCHANGED <<lwPool, lwDoomed>> ELSE LwInvalidate
  /\ UNCHANGED <<lwCode, lwWorker>>

(* UpdateFunctionCode stores the code, then displaces the workers.          *)
LwUpdateCode ==
  /\ lwCode.stored = lwCode.displaced /\ lwCode.stored < LwMaxCode
  /\ lwCode' = [lwCode EXCEPT !.stored = @ + 1]
  /\ UNCHANGED <<lwPool, lwWorker, lwCall, lwDoomed>>

LwDisplace ==
  /\ lwCode.displaced < lwCode.stored
  /\ lwCode' = [lwCode EXCEPT !.displaced = lwCode.stored]
  /\ LwInvalidate
  /\ UNCHANGED <<lwWorker, lwCall>>

(* reset: the same for every key.                                           *)
LwReset ==
  /\ LwInvalidate
  /\ UNCHANGED <<lwCode, lwWorker, lwCall>>

(* kill_workers: without the worker's lock, whatever it is doing.           *)
LwKill(w) ==
  /\ w \in lwDoomed
  /\ lwDoomed' = lwDoomed \ {w}
  /\ lwWorker' = [lwWorker EXCEPT ![w].proc = FALSE]
  /\ UNCHANGED <<lwCode, lwPool, lwCall>>

(* Not in use and not the first; last leased longer than the TTL ago, which *)
(* may be true of any entry.                                                *)
LwSurplus(w) == ~lwWorker[w].inUse /\ w # lwPool[1]

(* The others stay, in their order: at says where they were.                *)
LwReap(old) ==
  LET killed == {w \in old : LwSurplus(w)} IN
  /\ old \subseteq LwPooled /\ killed = old /\ old # {}
  /\ \E at \in [1..(Len(lwPool) - Cardinality(killed)) -> {i \in DOMAIN lwPool : lwPool[i] \notin killed}] :
       /\ \A i, j \in DOMAIN at : i < j => at[i] < at[j]
       /\ lwPool' = [i \in DOMAIN at |-> lwPool[at[i]]]
  /\ lwDoomed' = lwDoomed \cup killed
  /\ UNCHANGED <<lwCode, lwWorker, lwCall>>

LwNext ==
  \/ LwUpdateCode \/ LwDisplace \/ LwReset
  \/ \E old \in SUBSET LwPooled : LwReap(old)
  \/ \E w \in LwWorkers : LwKill(w)
  \/ \E c \in LwCalls :
       \/ \E parent \in LwCalls \cup {LwNobody} : LwInvoke(c, parent)
       \/ LwAcquire(c) \/ LwRun(c) \/ LwAnswer(c) \/ LwError(c) \/ LwSpawnFails(c)

LwSpec == LwInit /\ [][LwNext]_lwVars

-----------------------------------------------------------------------------
LwTypeOK ==
  /\ lwCode \in [stored : 0..LwMaxCode, displaced : 0..LwMaxCode]
  /\ lwPool \in Seq(LwWorkers) /\ Len(lwPool) = Cardinality(LwPooled)
  /\ lwWorker \in [LwWorkers -> [inUse : BOOLEAN, proc : BOOLEAN, lock : LwCalls \cup {LwNobody},
                               code : 0..LwMaxCode, late : BOOLEAN]]
  /\ lwCall \in [LwCalls -> [phase : {"idle", "called", "leased", "running"},
                             worker : LwWorkers \cup {LwNoWorker}, code : 0..LwMaxCode,
                             need : 0..LwMaxCode, parent : LwCalls \cup {LwNobody}]]
  /\ lwDoomed \subseteq LwWorkers

(* No subprocess is forgotten: it belongs to an entry of the pool or a      *)
(* worker somebody holds, or its remover is about to kill it.  Except where *)
(* a worker invalidated between its lease and its lazy start was started.   *)
LwNoOrphans ==
  \A w \in LwWorkers : lwWorker[w].proc /\ ~lwWorker[w].late
                       => w \in LwPooled \cup lwDoomed \/ LwHeld(w)

(* An invocation runs no older code than every update had displaced when it *)
(* began, except on a worker made by a thread that had read the code before *)
(* the update and leased after it.                                          *)
LwFreshCode ==
  \A c \in LwCalls : lwCall[c].phase = "running" /\ ~lwWorker[lwCall[c].worker].late
                     => lwWorker[lwCall[c].worker].code >= lwCall[c].need

(* lambda_runtime.py:1617: an invocation never waits for the lock of its    *)
(* worker, in particular not for one its own caller holds, as long as only  *)
(* leases are used: invocations through WebSocket routes are left out.      *)
LwNeverWaits ==
  \A c \in LwCalls : lwCall[c].phase = "leased" /\ ~LwSocket(c)
                     => LET holder == lwWorker[lwCall[c].worker].lock
                        IN  holder # LwNobody => LwSocket(holder)
=============================================================================
