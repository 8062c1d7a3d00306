------------------------------ MODULE MCEngines ------------------------------
(* The engines that run on threads and tasks of their own, for TLC: Step    *)
(* Functions executions, one CloudFormation stack, the threads that wait    *)
(* for signals and answers; and the secrets of one name with their          *)
(* replicas.  They share nothing: a behaviour is one of theirs, and engine  *)
(* says whose.                                                              *)
EXTENDS StepFunctions, CfnStack, CfnWaiters, SecretVersions

CONSTANTS a, b

VARIABLE engine

enginesVars == <<engine, sfVars, cfVars, cwVars, svVars>>

(* b refers to a: both; a changed, or replaced; a removed and b retained;   *)
(* b removed and a changed or replaced.                                     *)
Ids == {a, b}
Template(va, vb, deps, keep) == [ver |-> (a :> va @@ b :> vb), deps |-> deps, retain |-> keep]
Templates == {Template(1, 1, {<<b, a>>}, {}), Template(2, 1, {<<b, a>>}, {}), Template(0, 1, {}, {b}),
              Template(2, 0, {}, {})}

InitEngines ==
  /\ engine \in {"executions", "stack", "conditions", "providers", "secrets"}
  /\ SfInit /\ CfInit /\ CwInit /\ SvInit

OfExecutions(A) == engine = "executions" /\ A /\ UNCHANGED <<engine, cfVars, cwVars, svVars>>
OfStack(A) == engine = "stack" /\ A /\ UNCHANGED <<engine, sfVars, cwVars, svVars>>
OfConditions(A) == engine = "conditions" /\ A /\ UNCHANGED <<engine, sfVars, cfVars, svVars>>
OfProviders(A) == engine = "providers" /\ A /\ UNCHANGED <<engine, sfVars, cfVars, svVars>>
OfSecrets(A) == engine = "secrets" /\ A /\ UNCHANGED <<engine, sfVars, cfVars, cwVars>>

NextEngines ==
  \/ OfExecutions(SfNext) \/ OfStack(CfNext)
  \/ OfConditions(CwConditionNext) \/ OfProviders(CwProviderNext)
  \/ OfSecrets(SvNext)

SpecEngines ==
  InitEngines /\ [][NextEngines]_enginesVars /\ SfFairness /\ CfFairness /\ CwFairness

(* Each engine's records are as its handlers and threads keep them.         *)
EnginesTypeOK == SfTypeOK /\ CfTypeOK /\ CwTypeOK /\ SvTypeOK

(* A task goes to one worker, and its answer to the thread that waits.      *)
TasksMeetAnswers == SfAnswersMeetTheirTask /\ SfHandedOnce

(* Every physical resource is in a record a delete reads, and every record  *)
(* is of a resource that exists; a replica is one its primary can reach.    *)
ResourcesAccounted == CfNothingForgotten /\ CfRecordsTrue /\ SvReplicasFollow

(* Threads, stack operations and waits come to an end; a secret's version   *)
(* that is current no more is the previous one (SvDemotes).                 *)
EnginesEnd == SfThreadsEnd /\ CfOperationsEnd /\ CwNoneLeftWaiting /\ SvDemotes
=============================================================================
