------------------------------ MODULE Reentrant ------------------------------
(***************************************************************************)
(* run_reentrant and spawn_background: blocking work that may call back    *)
(* into the server runs on a thread of its own; its awaiter on the event   *)
(* loop cannot be cancelled away before the work is over.  A request is an *)
(* awaiter and its thread; the work of one may issue another request and   *)
(* block for its answer.  Cancellations come at any time, any number.      *)
(***************************************************************************)
EXTENDS Integers, FiniteSets

CONSTANT RrRequests

ASSUME RrAssumption == IsFiniteSet(RrRequests)

VARIABLES
  rrTask,       \* request -> the coroutine: idle, awaiting, absorbing or how it ended
  rrThread,     \* request -> its thread: none, working, posted or gone
  rrFuture,     \* request -> the future the thread's result is delivered to is done
  rrParent,     \* request -> the request whose work issued it, or itself
  rrCounts,     \* the live counters of /_ministack/health
  rrBackground  \* fire-and-forget threads that are running

rrVars == <<rrTask, rrThread, rrFuture, rrParent, rrCounts, rrBackground>>

RrEnded == {"returned", "cancelled", "refused"}
RrNested(r) == {q \in RrRequests \ {r} : rrParent[q] = r /\ rrTask[q] \in {"awaiting", "absorbing"}}

RrInit ==
  /\ rrTask = [r \in RrRequests |-> "idle"]
  /\ rrThread = [r \in RrRequests |-> "none"]
  /\ rrFuture = [r \in RrRequests |-> FALSE]
  /\ rrParent = [r \in RrRequests |-> r]
  /\ rrCounts = [reentrant |-> 0, background |-> 0]
  /\ rrBackground = 0

RrMayIssue(p) == rrThread[p] = "working" /\ RrNested(p) = {}

(* Faulty: a pool of one thread.                                            *)
RrStartPooled(r, p) ==
  /\ rrTask[r] = "idle" /\ (p = r \/ RrMayIssue(p))
  /\ rrTask' = [rrTask EXCEPT ![r] = "awaiting"]
  /\ rrThread' = [rrThread EXCEPT ![r] = IF rrCounts.reentrant = 0 THEN "working" ELSE "none"]
  /\ rrParent' = [rrParent EXCEPT ![r] = p]
  /\ rrCounts' = [rrCounts EXCEPT !.reentrant = @ + 1]
  /\ UNCHANGED <<rrFuture, rrBackground>>
RrStart(r, p) ==
  /\ rrTask[r] = "idle" /\ (p = r \/ RrMayIssue(p))
  /\ rrTask' = [rrTask EXCEPT ![r] = "awaiting"]
  /\ rrThread' = [rrThread EXCEPT ![r] = "working"]
  /\ rrParent' = [rrParent EXCEPT ![r] = p]
  /\ rrCounts' = [rrCounts EXCEPT !.reentrant = @ + 1]
  /\ UNCHANGED <<rrFuture, rrBackground>>

(* The operating system has no thread left: the count goes up and down.     *)
RrRefused(r) ==
  /\ rrTask[r] = "idle"
  /\ rrTask' = [rrTask EXCEPT ![r] = "refused"]
  /\ UNCHANGED <<rrThread, rrFuture, rrParent, rrCounts, rrBackground>>

(* The work ends with a result or an exception, posted to the loop.         *)
RrPost(r) ==
  /\ rrThread[r] = "working" /\ RrNested(r) = {}
  /\ rrThread' = [rrThread EXCEPT ![r] = "posted"]
  /\ UNCHANGED <<rrTask, rrFuture, rrParent, rrCounts, rrBackground>>

(* Faulty: counts down only when the result is delivered first.             *)
RrGoneUncounted(r) ==
  /\ rrThread[r] = "posted"
  /\ rrThread' = [rrThread EXCEPT ![r] = "gone"]
  /\ rrCounts' = [rrCounts EXCEPT !.reentrant = IF rrFuture[r] THEN @ - 1 ELSE @]
  /\ UNCHANGED <<rrTask, rrFuture, rrParent, rrBackground>>
RrGone(r) ==
  /\ rrThread[r] = "posted"
  /\ rrThread' = [rrThread EXCEPT ![r] = "gone"]
  /\ rrCounts' = [rrCounts EXCEPT !.reentrant = @ - 1]
  /\ UNCHANGED <<rrTask, rrFuture, rrParent, rrBackground>>

RrDeliver(r) ==
  /\ rrThread[r] \in {"posted", "gone"} /\ ~rrFuture[r]
  /\ rrFuture' = [rrFuture EXCEPT ![r] = TRUE]
  /\ UNCHANGED <<rrTask, rrThread, rrParent, rrCounts, rrBackground>>

RrReturn(r) ==
  /\ rrTask[r] = "awaiting" /\ rrFuture[r]
  /\ rrTask' = [rrTask EXCEPT ![r] = "returned"]
  /\ UNCHANGED <<rrThread, rrFuture, rrParent, rrCounts, rrBackground>>

(* Faulty: the second cancellation is not shielded.                         *)
RrCancelOnce(r) ==
  /\ rrTask[r] \in {"awaiting", "absorbing"}
  /\ rrTask' = [rrTask EXCEPT ![r] = IF @ = "awaiting" THEN "absorbing" ELSE "cancelled"]
  /\ UNCHANGED <<rrThread, rrFuture, rrParent, rrCounts, rrBackground>>
(* The client went away: the first cancellation is kept, the others are     *)
(* absorbed.                                                                *)
RrCancel(r) ==
  /\ rrTask[r] \in {"awaiting", "absorbing"}
  /\ rrTask' = [rrTask EXCEPT ![r] = "absorbing"]
  /\ UNCHANGED <<rrThread, rrFuture, rrParent, rrCounts, rrBackground>>

RrReraise(r) ==
  /\ rrTask[r] = "absorbing" /\ rrFuture[r]
  /\ rrTask' = [rrTask EXCEPT ![r] = "cancelled"]
  /\ UNCHANGED <<rrThread, rrFuture, rrParent, rrCounts, rrBackground>>

(* spawn_background: one that cannot be started leaves no trace.            *)
RrSpawn ==
  /\ rrBackground < Cardinality(RrRequests)
  /\ rrBackground' = rrBackground + 1
  /\ rrCounts' = [rrCounts EXCEPT !.background = @ + 1]
  /\ UNCHANGED <<rrTask, rrThread, rrFuture, rrParent>>

RrBackgroundEnds ==
  /\ rrBackground > 0
  /\ rrBackground' = rrBackground - 1
  /\ rrCounts' = [rrCounts EXCEPT !.background = @ - 1]
  /\ UNCHANGED <<rrTask, rrThread, rrFuture, rrParent>>

RrNext ==
  \/ RrSpawn \/ RrBackgroundEnds
  \/ \E r \in RrRequests :
       \/ \E p \in RrRequests : RrStart(r, p)
       \/ RrRefused(r) \/ RrPost(r) \/ RrGone(r) \/ RrDeliver(r) \/ RrReturn(r)
       \/ RrCancel(r) \/ RrReraise(r)

(* Threads and the loop go on; the work ends once what it waits for has.    *)
RrProgress == \E r \in RrRequests : RrPost(r) \/ RrDeliver(r) \/ RrReturn(r) \/ RrReraise(r)
RrFairness == WF_rrVars(RrProgress)

RrSpec == RrInit /\ [][RrNext]_rrVars /\ RrFairness

-----------------------------------------------------------------------------
RrTypeOK ==
  /\ rrTask \in [RrRequests -> {"idle", "awaiting", "absorbing"} \cup RrEnded]
  /\ rrThread \in [RrRequests -> {"none", "working", "posted", "gone"}]
  /\ rrFuture \in [RrRequests -> BOOLEAN] /\ rrParent \in [RrRequests -> RrRequests]
  /\ rrCounts \in [reentrant : Nat, background : Nat]
  (* The counters are what /_ministack/health says they are.                *)
  /\ rrCounts.reentrant = Cardinality({r \in RrRequests : rrThread[r] \in {"working", "posted"}})
  /\ rrCounts.background = rrBackground

(* Whoever awaited goes on (releases its lease, takes the reset's barrier)  *)
(* only when the worker is done with the state they share, whatever was     *)
(* cancelled and how often.                                                 *)
RrNoEarlyReturn ==
  \A r \in RrRequests : rrTask[r] \in {"returned", "cancelled"} =>
                        rrThread[r] \in {"posted", "gone"} /\ RrNested(r) = {}

(* A request that reentered the server, to any depth, gets its answer.      *)
RrEnds ==
  \A r \in RrRequests : (rrTask[r] = "awaiting") ~> (rrTask[r] \in RrEnded)
=============================================================================
