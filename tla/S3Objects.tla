------------------------------- MODULE S3Objects -------------------------------
(***************************************************************************)
(* One key of a bucket with S3_PERSIST=1: its versions and delete markers, *)
(* the current-object record that reads without a version id use, object   *)
(* lock, and the three places its bytes and history have on disk.  Each    *)
(* handler runs on the event loop without a break, so each is an action.   *)
(* What is hard is that six stores must agree after any sequence of them,  *)
(* and that a restart rebuilds what clients saw from the disk alone.       *)
(*                                                                         *)
(* Writes are numbered: the number stands for the ETag and the bytes of    *)
(* what is written and for the version id it is given; 0 is the id "null"  *)
(* (None where tags and locks are kept), no bytes, and a delete marker's   *)
(* content.  Tags, ACLs, replication and failing disks are left out.       *)
(* SoMaxWrites, SoMaxLocks and SoMaxRestarts bound a behaviour.            *)
(***************************************************************************)
EXTENDS Naturals, Sequences, Lists

CONSTANTS SoMaxWrites, SoMaxLocks, SoMaxRestarts

ASSUME SoAssumption == {SoMaxWrites, SoMaxLocks, SoMaxRestarts} \subseteq Nat

VARIABLES
  soBucket,   \* versioning: "", "Enabled" or "Suspended"; lockable
  soCurrent,  \* bucket["objects"]: the record, or SoNothing
  soVersions, \* _object_versions: the history, oldest first
  soDisk,     \* data file, its .meta.json, and the .versions file of each id
  soLocks,    \* _object_retention and _object_legal_hold, by id
  soCount,    \* writes, lock operations and restarts so far
  soRefused   \* history: a PutObject was refused after it had replaced
              \* the record (s3.py:5129)

soVars == <<soBucket, soCurrent, soVersions, soDisk, soLocks, soCount, soRefused>>

SoIds == 0..SoMaxWrites
SoModes == {"GOVERNANCE", "COMPLIANCE"}
SoFree == [mode |-> "none", live |-> FALSE]
SoNothing == [vid |-> 0, content |-> 0, body |-> 0]
SoNoSidecar == [marker |-> FALSE, vid |-> 0, content |-> 0, versions |-> <<>>]

SoEnabled == soBucket.versioning = "Enabled"
SoVersioned == soBucket.versioning # ""
SoNow == soCount.writes + 1
SoListed(versions) == {versions[i].vid : i \in DOMAIN versions}
SoWithout(versions, v) == Picked(versions, {i \in DOMAIN versions : versions[i].vid # v})
SoIsMarker(entry) == entry.content = 0

SoInit ==
  /\ soBucket = [versioning |-> "", lockable |-> FALSE]
  /\ soCurrent = SoNothing /\ soVersions = <<>>
  /\ soDisk = [data |-> 0, sidecar |-> SoNoSidecar, files |-> [v \in SoIds |-> 0]]
  /\ soLocks = [retained |-> [v \in SoIds |-> SoFree], held |-> {}]
  /\ soCount = [writes |-> 0, locks |-> 0, restarts |-> 0]
  /\ soRefused = FALSE

-----------------------------------------------------------------------------
(* _read_body: a record that was persisted has its bytes in the data file.  *)
SoBytes(record) == IF record.body # 0 THEN record.body ELSE soDisk.data

(* _version_body: the id's own file, else the current object's; 0 if        *)
(* neither has it.                                                          *)
SoVersionBytes(entry, files) ==
  IF files[entry.vid] # 0 THEN files[entry.vid]
  ELSE IF soCurrent # SoNothing /\ soCurrent.vid = entry.vid THEN SoBytes(soCurrent) ELSE 0

(* Faulty: only an object with an id of its own gets a file.                *)
SoDisplacedIds ==
  LET files == IF SoEnabled THEN soDisk.files ELSE [soDisk.files EXCEPT ![0] = 0]
  IN  IF soCurrent = SoNothing \/ soCurrent.vid = 0 THEN files
      ELSE [files EXCEPT ![soCurrent.vid] = SoBytes(soCurrent)]

(* The .versions files once the current object is displaced by a write or a *)
(* marker: its bytes get a file, unless what comes replaces it.             *)
SoDisplaced ==
  LET files == IF SoEnabled THEN soDisk.files ELSE [soDisk.files EXCEPT ![0] = 0]
  IN  IF soCurrent = SoNothing \/ (~SoEnabled /\ soCurrent.vid = 0) THEN files
      ELSE [files EXCEPT ![soCurrent.vid] = SoBytes(soCurrent)]

(* Faulty: an object of before versioning is not kept as the null version.  *)
SoStackedIds(entry) == Append(IF SoEnabled THEN soVersions ELSE SoWithout(soVersions, 0), entry)

(* The history with a new entry on top.  Enabled, an object that was there  *)
(* before versioning stays as the null version; suspended, the entry is the *)
(* null version and replaces the last.                                      *)
SoStacked(entry) ==
  LET preserved == SoEnabled /\ soCurrent # SoNothing /\ soCurrent.vid = 0 /\ 0 \notin SoListed(soVersions)
  IN  Append(IF ~SoEnabled THEN SoWithout(soVersions, 0)
             ELSE IF preserved THEN Append(soVersions, [vid |-> 0, content |-> soCurrent.content])
             ELSE soVersions, entry)

(* What a write that is stored as `content' with these bytes does.          *)
SoWrite(content, bytes) ==
  LET v == IF SoEnabled THEN SoNow ELSE 0
      versions == IF SoVersioned THEN SoStacked([vid |-> v, content |-> content]) ELSE soVersions
  IN
  /\ soCount.writes < SoMaxWrites
  /\ soVersions' = versions
  /\ soCurrent' = [vid |-> v, content |-> content, body |-> 0]
  /\ soDisk' = [data |-> bytes,
                sidecar |-> [marker |-> FALSE, vid |-> v, content |-> content, versions |-> versions],
                files |-> IF SoVersioned THEN SoDisplaced ELSE soDisk.files]

SoLock(v, retention, hold) ==
  [retained |-> IF retention = SoFree THEN soLocks.retained ELSE [soLocks.retained EXCEPT ![v] = retention],
   held |-> IF hold THEN soLocks.held \cup {v} ELSE soLocks.held]

(* PutObject, with lock headers or a bucket's default retention (mode), the *)
(* upload form, and CompleteMultipartUpload, which applies neither.         *)
SoPut(mode, hold) ==
  LET retention == IF mode = "none" THEN SoFree ELSE [mode |-> mode, live |-> TRUE]
      locks == mode # "none" \/ hold
  IN
  /\ locks => soBucket.lockable /\ soCount.locks < SoMaxLocks
  /\ SoWrite(SoNow, SoNow)
  /\ soLocks' = SoLock(IF SoEnabled THEN SoNow ELSE 0, retention, hold)
  /\ soCount' = [soCount EXCEPT !.writes = SoNow, !.locks = IF locks THEN @ + 1 ELSE @]
  /\ UNCHANGED <<soBucket, soRefused>>

(* PutObject with more than ten tags: the record is replaced before the     *)
(* error returns, its history and its files are not.                        *)
SoPutRefused ==
  /\ soCount.writes < SoMaxWrites
  /\ soCurrent' = [vid |-> 0, content |-> SoNow, body |-> SoNow]
  /\ soCount' = [soCount EXCEPT !.writes = SoNow]
  /\ soRefused' = TRUE
  /\ UNCHANGED <<soBucket, soVersions, soDisk, soLocks>>

(* CopyObject onto the key itself, from the current object or from a        *)
(* version (how an old one is restored); it takes the source's lock along,  *)
(* which a null version named by its id does not find.                      *)
SoCopy(source, bytes, lock) ==
  /\ source # SoNothing /\ ~SoIsMarker(source) /\ bytes # 0
  /\ SoWrite(source.content, bytes)
  /\ soLocks' = IF soBucket.lockable THEN SoLock(IF SoEnabled THEN SoNow ELSE 0, lock.retention, lock.hold)
                ELSE soLocks
  /\ soCount' = [soCount EXCEPT !.writes = SoNow]
  /\ UNCHANGED <<soBucket, soRefused>>

SoLockOf(v) == [retention |-> soLocks.retained[v], hold |-> v \in soLocks.held]
SoCopyCurrent == SoCopy(soCurrent, SoBytes(soCurrent), SoLockOf(soCurrent.vid))
SoCopyVersion(i) ==
  /\ i \in DOMAIN soVersions
  /\ LET v == soVersions[i] IN
     SoCopy(v, SoVersionBytes(v, soDisk.files),
            IF v.vid = 0 THEN [retention |-> SoFree, hold |-> FALSE] ELSE SoLockOf(v.vid))

-----------------------------------------------------------------------------
(* DeleteObject without a version id: a marker on top; without versioning   *)
(* the object goes, with its files and locks.                               *)
SoUnlocked(v) == [retained |-> [soLocks.retained EXCEPT ![v] = SoFree], held |-> soLocks.held \ {v}]
SoErased == [soDisk EXCEPT !.data = 0, !.sidecar = SoNoSidecar]

SoDelete ==
  LET m == IF SoEnabled THEN SoNow ELSE 0
      versions == SoStacked([vid |-> m, content |-> 0])
  IN
  /\ SoEnabled => soCount.writes < SoMaxWrites
  /\ soCurrent' = SoNothing
  /\ IF SoVersioned
     THEN /\ soVersions' = versions
          /\ soDisk' = [soDisk EXCEPT !.files = SoDisplaced,
               !.sidecar = [marker |-> TRUE, vid |-> m, content |-> 0, versions |-> versions]]
          /\ UNCHANGED soLocks
     ELSE soDisk' = SoErased /\ soLocks' = SoUnlocked(0) /\ UNCHANGED soVersions
  /\ soCount' = [soCount EXCEPT !.writes = IF SoEnabled THEN SoNow ELSE @]
  /\ UNCHANGED <<soBucket, soRefused>>

(* _check_object_lock.                                                      *)
SoProtected(v, bypass) ==
  \/ v \in soLocks.held
  \/ soLocks.retained[v].live /\ (soLocks.retained[v].mode = "COMPLIANCE" \/ ~bypass)

(* What the newest surviving entry, if any, makes of the key once v is gone *)
(* from its history: nothing is left, a marker hides it, or a version is    *)
(* current again, rewritten from its bytes.                                 *)
SoReconciled(versions, files) ==
  LET last == versions[Len(versions)]
      bytes == SoVersionBytes(last, files)
      sidecar == [marker |-> SoIsMarker(last), vid |-> last.vid, content |-> last.content, versions |-> versions]
  IN
  IF versions = <<>> THEN soCurrent' = SoNothing /\ soDisk' = [SoErased EXCEPT !.files = files]
  ELSE /\ soCurrent' = IF SoIsMarker(last) THEN SoNothing
                       ELSE [vid |-> last.vid, content |-> last.content, body |-> 0]
       /\ soDisk' = [data |-> IF SoIsMarker(last) \/ bytes = 0 THEN soDisk.data ELSE bytes,
                     sidecar |-> sidecar, files |-> files]

(* DeleteObject and DeleteObjects with a version id.  The locks of the null *)
(* version are looked up under None and dropped under "null", which keeps   *)
(* them, unless the last of the key goes.                                   *)
SoDeleteVersion(v, bypass) ==
  LET versions == SoWithout(soVersions, v) IN
  /\ ~SoProtected(v, bypass)
  /\ IF v \in SoListed(soVersions)
     THEN /\ soVersions' = versions
          /\ SoReconciled(versions, [soDisk.files EXCEPT ![v] = 0])
          /\ soLocks' = IF versions # <<>> /\ v = 0 THEN soLocks
                        ELSE IF versions # <<>> \/ v = 0 THEN SoUnlocked(v)
                        ELSE [retained |-> [soLocks.retained EXCEPT ![v] = SoFree, ![0] = SoFree],
                              held |-> soLocks.held \ {v, 0}]
     ELSE /\ v = 0 /\ soCurrent # SoNothing /\ soCurrent.vid = 0
          /\ soCurrent' = SoNothing /\ soDisk' = SoErased /\ soLocks' = SoUnlocked(0)
          /\ UNCHANGED soVersions
  /\ UNCHANGED <<soBucket, soCount, soRefused>>

-----------------------------------------------------------------------------
(* PutBucketVersioning asks nothing of object lock; the lock configuration  *)
(* asks for versioning.                                                     *)
SoSetVersioning(status) ==
  /\ soBucket' = [soBucket EXCEPT !.versioning = status]
  /\ UNCHANGED <<soCurrent, soVersions, soDisk, soLocks, soCount, soRefused>>

SoSetLockable ==
  /\ SoEnabled
  /\ soBucket' = [soBucket EXCEPT !.lockable = TRUE]
  /\ UNCHANGED <<soCurrent, soVersions, soDisk, soLocks, soCount, soRefused>>

(* PutObjectRetention of a version, or of "null" whether it is there or     *)
(* not: a governance retention is shortened or weakened only with bypass, a *)
(* compliance retention never (to a date that has passed, if not live).     *)
SoPutRetention(v, mode, live, bypass) ==
  LET old == soLocks.retained[v]
      weaker == (old.live /\ ~live) \/ (old.mode = "COMPLIANCE" /\ mode = "GOVERNANCE")
  IN
  /\ soBucket.lockable /\ soCount.locks < SoMaxLocks /\ v \in SoListed(soVersions) \cup {0}
  /\ weaker => old.mode = "GOVERNANCE" /\ bypass
  /\ soLocks' = [soLocks EXCEPT !.retained[v] = [mode |-> mode, live |-> live]]
  /\ soCount' = [soCount EXCEPT !.locks = @ + 1]
  /\ UNCHANGED <<soBucket, soCurrent, soVersions, soDisk, soRefused>>

SoPutHold(v, on) ==
  /\ soBucket.lockable /\ soCount.locks < SoMaxLocks /\ v \in SoListed(soVersions) \cup {0}
  /\ soLocks' = [soLocks EXCEPT !.held = IF on THEN @ \cup {v} ELSE @ \ {v}]
  /\ soCount' = [soCount EXCEPT !.locks = @ + 1]
  /\ UNCHANGED <<soBucket, soCurrent, soVersions, soDisk, soRefused>>

(* A retention's date passes.                                               *)
SoExpire(v) ==
  /\ soLocks.retained[v].live
  /\ soLocks' = [soLocks EXCEPT !.retained[v].live = FALSE]
  /\ UNCHANGED <<soBucket, soCurrent, soVersions, soDisk, soCount, soRefused>>

(* What _load_persisted_bucket makes of the files: a sidecar of a marker    *)
(* hides the data file, without a data file any other is ignored, and a     *)
(* version comes back only if its bytes do.                                 *)
SoLoaded ==
  LET side == soDisk.sidecar
      hidden == side.marker \/ soDisk.data = 0
      known == IF soDisk.data = 0 /\ ~side.marker THEN <<>> ELSE side.versions
      there(x) == SoIsMarker(x) \/ (~hidden /\ x.vid = side.vid) \/ soDisk.files[x.vid] # 0
  IN  [current |-> IF hidden THEN SoNothing ELSE [vid |-> side.vid, content |-> side.content, body |-> 0],
       versions |-> Picked(known, {i \in DOMAIN known : there(known[i])})]

(* A restart with PERSIST_STATE=1 brings back the bucket's settings; the    *)
(* locks of objects are in no file.                                         *)
SoRestart ==
  /\ soCount.restarts < SoMaxRestarts
  /\ soCurrent' = SoLoaded.current /\ soVersions' = SoLoaded.versions
  /\ soLocks' = [retained |-> [v \in SoIds |-> SoFree], held |-> {}]
  /\ soCount' = [soCount EXCEPT !.restarts = @ + 1]
  /\ UNCHANGED <<soBucket, soDisk, soRefused>>

SoNext ==
  \/ \E mode \in SoModes \cup {"none"}, hold \in BOOLEAN : SoPut(mode, hold)
  \/ SoPutRefused \/ SoCopyCurrent \/ SoDelete \/ SoSetLockable \/ SoRestart
  \/ \E i \in 1..Len(soVersions) : SoCopyVersion(i)
  \/ \E status \in {"Enabled", "Suspended"} : SoSetVersioning(status)
  \/ \E v \in SoIds, bypass \in BOOLEAN :
       \/ SoDeleteVersion(v, bypass) \/ SoExpire(v) \/ SoPutHold(v, bypass)
       \/ \E mode \in SoModes, live \in BOOLEAN : SoPutRetention(v, mode, live, bypass)

SoSpec == SoInit /\ [][SoNext]_soVars

-----------------------------------------------------------------------------
(* Types; ids are in the history once, the null version included; only      *)
(* what is there to lock is locked, and the null id.                        *)
SoTypeOK ==
  /\ soBucket.versioning \in {"", "Enabled", "Suspended"} /\ soBucket.lockable \in BOOLEAN
  /\ {soCurrent.vid, soCurrent.content, soCurrent.body, soDisk.data} \subseteq SoIds
  /\ \A i, j \in DOMAIN soVersions : soVersions[i].vid = soVersions[j].vid => i = j
  /\ soDisk.files \in [SoIds -> SoIds]
  /\ \A v \in SoIds \ ({0} \cup SoListed(soVersions)) :
       soLocks.retained[v] = SoFree /\ v \notin soLocks.held

(* Reads with and without a version id agree: the current object is the     *)
(* newest entry of the history, or hidden when that is a marker; and every  *)
(* listed version can be read, with the bytes it was written with, through  *)
(* whichever of the stores holds them (s3.py:6064).                         *)
SoViewsAgree ==
  soRefused \/
  /\ soVersions # <<>> =>
       LET last == soVersions[Len(soVersions)] IN
       IF SoIsMarker(last) THEN soCurrent = SoNothing
       ELSE soCurrent # SoNothing /\ soCurrent.vid = last.vid /\ soCurrent.content = last.content
  /\ soCurrent # SoNothing => SoBytes(soCurrent) = soCurrent.content
  /\ \A i \in DOMAIN soVersions : ~SoIsMarker(soVersions[i]) =>
       SoVersionBytes(soVersions[i], soDisk.files) = soVersions[i].content

(* A restart at any time brings back the current object and the history     *)
(* that clients saw, markers included: nothing deleted reappears and no     *)
(* version is dropped (s3.py:9512, 9540).                                   *)
SoSurvives == soRefused \/ SoLoaded = [current |-> soCurrent, versions |-> soVersions]

(* Memory and disk tell one story, before and after a restart: the types    *)
(* and both properties above.                                               *)
SoStoresAgree == SoTypeOK /\ SoViewsAgree /\ SoSurvives

(* With versioning enabled no write, copy or delete marker loses anything:  *)
(* what could be read, by id or as the current object, is in the history    *)
(* after it, the object of before versioning included (s3.py:6087).         *)
SoKeepsAll ==
  [][~soRefused /\ SoEnabled /\ soCount'.writes # soCount.writes =>
       LET contents == {soVersions[i].content : i \in DOMAIN soVersions} \cup {soCurrent.content}
       IN  contents \ {0} \subseteq {soVersions'[i].content : i \in DOMAIN soVersions'} \/ soRefused']_soVars

(* A version with an id of its own that is on hold or under compliance      *)
(* stays in the history, whatever is written, deleted, restored or switched *)
(* around it; and its retention ends by its date only, or with the process. *)
SoLocksHold ==
  [][~soRefused => \A v \in SoIds \ {0} :
       LET strict == soLocks.retained[v].live /\ soLocks.retained[v].mode = "COMPLIANCE" IN
       v \in SoListed(soVersions) /\ (v \in soLocks.held \/ strict) =>
         /\ v \in SoListed(soVersions')
         /\ strict => soLocks'.retained[v].mode = "COMPLIANCE" \/ soCount'.restarts # soCount.restarts]_soVars

(* Nothing is lost that versioning or a lock keeps: both above.             *)
SoKeeps == SoKeepsAll /\ SoLocksHold
=============================================================================
