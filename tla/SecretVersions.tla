---------------------------- MODULE SecretVersions ----------------------------
(***************************************************************************)
(* One secret name in the regions of an account: staging labels on the     *)
(* versions of a record, and replicas of it in other regions.  Each        *)
(* handler runs on the event loop without a break, so each is an action;   *)
(* what is hard is that a record, its replicas, and the list of regions    *)
(* it keeps must be changed together by a dozen operations.                *)
(*                                                                         *)
(* The name may be taken in a region by a secret of its own, by a replica, *)
(* or by one secret after another: an ARN's suffix is new every time (the  *)
(* serial here) and a replica shares its primary's.  A version is its      *)
(* labels; values, descriptions, policies and keys are left out.           *)
(* SvMaxCreates and SvMaxEdits bound a behaviour.                          *)
(***************************************************************************)
EXTENDS Naturals, FiniteSets

CONSTANTS SvRegions, SvVersions, SvLabels, SvMaxCreates, SvMaxEdits

ASSUME SvAssumption ==
  /\ {"AWSCURRENT", "AWSPREVIOUS", "AWSPENDING"} \subseteq SvLabels
  /\ "none" \notin SvRegions /\ "none" \notin SvVersions
  /\ SvMaxCreates \in Nat /\ SvMaxEdits \in Nat

VARIABLES
  svSecret,   \* region -> the record under the name, or SvAbsent
  svCreates,  \* CreateSecret so far: the serial of the last
  svEdits

svVars == <<svSecret, svCreates, svEdits>>

(* primary is the region of _PrimarySecretArn; replicas the regions of      *)
(* ReplicationStatus; stages maps the versions there are to their labels.   *)
SvAbsent == [serial |-> 0, primary |-> "none", replicas |-> {},
             stages |-> [v \in {} |-> {}], deleted |-> FALSE]

SvKnown(g) == svSecret[g] # SvAbsent
SvIsReplica(r) == r.primary # "none"
SvHolders(stages, label) == {v \in DOMAIN stages : label \in stages[v]}
SvReplicaOf(secret, h) == [secret EXCEPT !.replicas = {}, !.primary = h]

(* A record whose replica is on record in region g.                         *)
SvReplicated(secret, g) == {x \in secret.replicas \ {g} : svSecret[x].serial = secret.serial}

(* The record of region g as it is now, and its replicas made equal.        *)
SvStored(g, secret) ==
  [x \in SvRegions |-> CASE x = g -> secret
                         [] x \in SvReplicated(secret, g) -> SvReplicaOf(secret, g)
                         [] OTHER -> svSecret[x]]

(* What an operation needs of the record: there, live and not a replica.    *)
SvMutable(g) == SvKnown(g) /\ ~svSecret[g].deleted /\ ~SvIsReplica(svSecret[g])
SvEdit == svEdits < SvMaxEdits /\ svEdits' = svEdits + 1

-----------------------------------------------------------------------------
(* v becomes AWSCURRENT, the version that was AWSPREVIOUS, and one that was *)
(* AWSPREVIOUS (p, the last of them; "none" if none was) loses the label    *)
(* and, with its last label, its place.                                     *)
SvPromote(stages, v, p) ==
  LET kept == {x \in DOMAIN stages : x # p \/ stages[x] # {"AWSPREVIOUS"}} IN
  [x \in kept |->
     CASE x = v -> (stages[x] \cup {"AWSCURRENT"}) \ {"AWSPENDING"}
       [] x # v /\ "AWSCURRENT" \in stages[x] -> (stages[x] \ {"AWSCURRENT"}) \cup {"AWSPREVIOUS"}
       [] x = p /\ "AWSCURRENT" \notin stages[x] -> stages[x] \ {"AWSPREVIOUS"}
       [] OTHER -> stages[x]]

SvPrevious(stages, v) ==
  LET others == SvHolders(stages, "AWSPREVIOUS") \ {v}
  IN  IF others = {} THEN {"none"} ELSE others

(* A version put under v, in place of one it may name.                      *)
SvWith(stages, v, labels) ==
  [x \in DOMAIN stages \cup {v} |-> IF x = v THEN labels ELSE stages[x]]

(* A name not in use (which one makes no difference), and what a client may *)
(* pass as its token.                                                       *)
SvFresh(stages) == LET unused == SvVersions \ DOMAIN stages
                   IN  IF unused = {} THEN {} ELSE {CHOOSE v \in unused : TRUE}
SvTokens(stages) == DOMAIN stages \cup SvFresh(stages)

SvInit ==
  /\ svSecret = [g \in SvRegions |-> SvAbsent]
  /\ svCreates = 0 /\ svEdits = 0

SvCreate(g, v) ==
  /\ ~SvKnown(g) /\ svCreates < SvMaxCreates /\ v \in SvFresh(SvAbsent.stages)
  /\ svCreates' = svCreates + 1
  /\ svSecret' = [svSecret EXCEPT ![g] =
       [SvAbsent EXCEPT !.serial = svCreates + 1, !.stages = [x \in {v} |-> {"AWSCURRENT"}]]]
  /\ UNCHANGED svEdits

(* PutSecretValue, under a client's token or a new name.  With AWSCURRENT   *)
(* among the labels it is a promotion and the others are dropped.           *)
SvPut(g, v, labels) ==
  LET put == SvWith(svSecret[g].stages, v, {}) IN
  /\ SvMutable(g) /\ SvEdit /\ v \in SvTokens(svSecret[g].stages)
  /\ IF "AWSCURRENT" \in labels
     THEN \E p \in SvPrevious(put, v) :
            svSecret' = SvStored(g, [svSecret[g] EXCEPT !.stages = SvPromote(put, v, p)])
     ELSE svSecret' = SvStored(g, [svSecret[g] EXCEPT !.stages = SvWith(put, v, labels)])
  /\ UNCHANGED svCreates

(* UpdateSecret with a value, and the secrets RDS writes.                   *)
SvUpdate(g, v) == v \in SvFresh(svSecret[g].stages) /\ SvPut(g, v, {"AWSCURRENT"})

(* RotateSecret copies the current value into a version that is promoted.   *)
SvRotate(g, v) ==
  LET put == SvWith(svSecret[g].stages, v, {"AWSPENDING"}) IN
  /\ SvMutable(g) /\ SvEdit /\ v \in SvTokens(svSecret[g].stages)
  /\ \E p \in SvPrevious(put, v) :
       svSecret' = SvStored(g, [svSecret[g] EXCEPT !.stages = SvPromote(put, v, p)])
  /\ UNCHANGED svCreates

(* The labels after UpdateSecretVersionStage: label goes from `from' to     *)
(* `to', and AWSPREVIOUS to where AWSCURRENT came from (old).               *)
SvMoved(stages, label, from, to, old) ==
  [x \in DOMAIN stages |->
     LET without == IF x = from \/ (to # "none" /\ x # to) THEN stages[x] \ {label} ELSE stages[x]
         with == IF x = to THEN without \cup {label} ELSE without
     IN  IF label # "AWSCURRENT" \/ to = "none" \/ old \in {"none", to} THEN with
         ELSE IF x = old THEN with \cup {"AWSPREVIOUS"} ELSE with \ {"AWSPREVIOUS"}]

(* The checks of UpdateSecretVersionStage on `from' and `to' ("none" if not *)
(* given), where current is the first holder of the label.                  *)
SvMoveAllowed(from, to, current) ==
  /\ <<from, to>> # <<"none", "none">>
  /\ CASE to = "none" -> from = current
       [] current \in {"none", to} -> from \in {"none", current, to}
       [] OTHER -> from = current

SvUpdateStage(g, label, from, to) ==
  LET stages == svSecret[g].stages
      holders == SvHolders(stages, label)
  IN
  /\ SvMutable(g) /\ SvEdit
  /\ {from, to} \subseteq DOMAIN stages \cup {"none"}
  /\ \E current \in IF holders = {} THEN {"none"} ELSE holders :
       /\ SvMoveAllowed(from, to, current)
       /\ svSecret' = SvStored(g, [svSecret[g] EXCEPT !.stages =
                        SvMoved(stages, label, IF from = to THEN "none" ELSE from, to, current)])
  /\ UNCHANGED svCreates

-----------------------------------------------------------------------------
(* ReplicateSecretToRegions: nothing happens if one of the regions has      *)
(* another secret of that name and it is not to be overwritten.  One that   *)
(* is takes its replicas along, or leaves the list of its primary.          *)
SvReplicate(g, regions, force) ==
  LET secret == svSecret[g]
      taken == {x \in regions : SvKnown(x) /\ svSecret[x].serial # secret.serial}
      orphans == UNION {SvReplicated(svSecret[x], x) : x \in taken}
      leaving(y) == {x \in taken : SvIsReplica(svSecret[x]) /\ svSecret[x].primary = y
                                     /\ svSecret[x].serial = svSecret[y].serial}
  IN
  /\ SvMutable(g) /\ regions # {} /\ g \notin regions
  /\ taken # {} => force
  /\ svSecret' = [x \in SvRegions |->
       CASE x = g -> [secret EXCEPT !.replicas = @ \cup regions]
         [] x \in regions -> SvReplicaOf(secret, g)
         [] x \notin regions \cup {g} /\ x \in orphans -> SvAbsent
         [] OTHER -> [svSecret[x] EXCEPT !.replicas = @ \ leaving(x)]]
  /\ UNCHANGED <<svCreates, svEdits>>

SvPurged(g) ==
  [x \in SvRegions |-> IF x = g \/ x \in SvReplicated(svSecret[g], g) THEN SvAbsent ELSE svSecret[x]]

(* DeleteSecret at once, also of one already scheduled for deletion.        *)
SvForceDelete(g) ==
  /\ SvKnown(g) /\ ~SvIsReplica(svSecret[g])
  /\ svSecret' = SvPurged(g)
  /\ UNCHANGED <<svCreates, svEdits>>

(* DeleteSecret with a recovery window (that it runs out does nothing), and *)
(* RestoreSecret.                                                           *)
SvSchedule(g) ==
  /\ SvMutable(g)
  /\ svSecret' = SvStored(g, [svSecret[g] EXCEPT !.deleted = TRUE])
  /\ UNCHANGED <<svCreates, svEdits>>

SvRestore(g) ==
  /\ SvKnown(g) /\ svSecret[g].deleted /\ ~SvIsReplica(svSecret[g])
  /\ svSecret' = SvStored(g, [svSecret[g] EXCEPT !.deleted = FALSE])
  /\ UNCHANGED <<svCreates, svEdits>>

SvNext ==
  \E g \in SvRegions :
    \/ \E v \in SvVersions : SvCreate(g, v) \/ SvUpdate(g, v) \/ SvRotate(g, v)
    \/ \E v \in SvVersions, labels \in SUBSET SvLabels : labels # {} /\ SvPut(g, v, labels)
    \/ \E label \in SvLabels, from, to \in SvVersions \cup {"none"} : SvUpdateStage(g, label, from, to)
    \/ \E regions \in SUBSET SvRegions, force \in BOOLEAN : SvReplicate(g, regions, force)
    \/ SvForceDelete(g) \/ SvSchedule(g) \/ SvRestore(g)

SvSpec == SvInit /\ [][SvNext]_svVars

-----------------------------------------------------------------------------
(* Types; and AWSCURRENT is on one version at most, or readers that ask for *)
(* it get the first of two (secretsmanager.py:151).                         *)
SvTypeOK ==
  /\ svCreates \in 0..SvMaxCreates /\ svEdits \in 0..SvMaxEdits
  /\ \A g \in SvRegions : LET r == svSecret[g] IN
       /\ r.serial \in 0..svCreates /\ r.deleted \in BOOLEAN
       /\ r.replicas \subseteq SvRegions \ {g} /\ r.primary \in SvRegions \cup {"none"}
       /\ DOMAIN r.stages \subseteq SvVersions
       /\ \A v \in DOMAIN r.stages : r.stages[v] \subseteq SvLabels
       /\ Cardinality(SvHolders(r.stages, "AWSCURRENT")) <= 1

(* However secrets of one name replicate into and overwrite each other, a   *)
(* replica's primary is on record, lists it and equals it: no operation can *)
(* reach a replica but through its primary, so another would stay for ever. *)
(* And a region a primary lists holds its replica.                          *)
SvReplicasFollow ==
  \A g \in SvRegions :
    /\ SvIsReplica(svSecret[g]) =>
         LET p == svSecret[svSecret[g].primary] IN
         /\ ~SvIsReplica(p) /\ p.serial = svSecret[g].serial /\ g \in p.replicas
         /\ svSecret[g] = SvReplicaOf(p, svSecret[g].primary)
    /\ svSecret[g].replicas = SvReplicated(svSecret[g], g)

(* A version that hands AWSCURRENT to another becomes AWSPREVIOUS in the    *)
(* same step, in the record and in each of its replicas: a rotation can be  *)
(* taken back (secretsmanager.py:304).                                      *)
SvDemotes ==
  [][\A g \in SvRegions, v, w \in SvVersions :
       /\ svSecret'[g].serial = svSecret[g].serial /\ v # w
       /\ v \in SvHolders(svSecret[g].stages, "AWSCURRENT")
       /\ w \in SvHolders(svSecret'[g].stages, "AWSCURRENT")
       => v \in SvHolders(svSecret'[g].stages, "AWSPREVIOUS")]_svVars
=============================================================================
