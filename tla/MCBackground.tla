----------------------------- MODULE MCBackground -----------------------------
(* The machinery off the event loop for TLC: local executor workers, Node   *)
(* workers, reentrant requests, containers and ECS tasks started in the     *)
(* background, and the gateway's runs and resets.  They share nothing: a    *)
(* behaviour is one of theirs, and part says whose.                         *)
EXTENDS LambdaWorkers, NodePool, Reentrant, CacheCluster, EcsService, Gateway

VARIABLE part

backgroundVars == <<part, lwVars, npVars, rrVars, ccVars, ecVars, gwVars>>

InitBackground ==
  /\ part \in {"workers", "node", "reentrant", "cache", "ecs", "gateway"}
  /\ LwInit /\ NpInit /\ RrInit /\ CcInit /\ EcInit /\ GwInit

OfWorkers(A) ==
  part = "workers" /\ A /\ UNCHANGED <<part, npVars, rrVars, ccVars, ecVars, gwVars>>
OfNode(A) ==
  part = "node" /\ A /\ UNCHANGED <<part, lwVars, rrVars, ccVars, ecVars, gwVars>>
OfReentrant(A) ==
  part = "reentrant" /\ A /\ UNCHANGED <<part, lwVars, npVars, ccVars, ecVars, gwVars>>
OfCache(A) ==
  part = "cache" /\ A /\ UNCHANGED <<part, lwVars, npVars, rrVars, ecVars, gwVars>>
OfEcs(A) ==
  part = "ecs" /\ A /\ UNCHANGED <<part, lwVars, npVars, rrVars, ccVars, gwVars>>
OfGateway(A) ==
  part = "gateway" /\ A /\ UNCHANGED <<part, lwVars, npVars, rrVars, ccVars, ecVars>>

NextBackground == OfWorkers(LwNext) \/ OfNode(NpNext) \/ OfReentrant(RrNext) \/ OfCache(CcNext)
                  \/ OfEcs(EcNext) \/ OfGateway(GwNext)

(* RrFairness, CcFairness and EcFairness.                                   *)
FairReentrant == WF_backgroundVars(OfReentrant(RrProgress))
FairCache ==
  /\ WF_backgroundVars(OfCache(\E o \in CcOps : CcProceed(o)))
  /\ WF_backgroundVars(OfCache(CcAge)) /\ WF_backgroundVars(OfCache(CcReapLook))
  /\ WF_backgroundVars(OfCache(CcReap))
FairEcs == WF_backgroundVars(OfEcs(EcProgress))

SpecBackground == InitBackground /\ [][NextBackground]_backgroundVars /\ FairReentrant /\ FairCache /\ FairEcs

(* Records, counters and the bounds of the pools are as the code keeps them. *)
BackgroundTypeOK == LwTypeOK /\ NpTypeOK /\ NpWarmBound /\ RrTypeOK /\ CcTypeOK /\ EcTypeOK
                    /\ GwTypeOK

(* No worker process, container or task outlives what it was started for.   *)
NothingForgotten == LwNoOrphans /\ NpNoOrphans /\ CcNoOrphan /\ EcNothingLeft /\ EcDeletedStops

(* Updated code is what the next invocation runs, nobody waits for the      *)
(* worker his own caller holds, and a cluster never takes a container it    *)
(* did not start for an endpoint of its own.                                *)
EachItsOwn == LwFreshCode /\ LwNeverWaits /\ CcOwnContainer

(* No request meets a half-reset server, what a reset has wiped does not    *)
(* come back, and what a shutdown has saved is not lost.                    *)
GatewayKeepsWord == GwNoHalfReset /\ GwResetSticks /\ GwSavedStays

(* Awaiters are answered, clusters leave "creating", abandoned containers   *)
(* are reclaimed, and rollouts end.                                         *)
BackgroundEnds == RrEnds /\ CcLeavesCreating /\ CcReclaimed /\ EcRolloutsEnd
=============================================================================
