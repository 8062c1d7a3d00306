--------------------------- MODULE S3ObjectsProofs ---------------------------
(***************************************************************************)
(* What S3Objects promises for any number of writes, lock operations and   *)
(* restarts: the stores agree, a restart brings back what clients saw, and *)
(* neither versioning nor a lock loses what it keeps.                      *)
(***************************************************************************)
EXTENDS S3Objects, ListsProofs

(* The shapes of what the invariant speaks of.                              *)
SoEntry == [vid : SoIds, content : SoIds]
SoRetention == [mode : SoModes \cup {"none"}, live : BOOLEAN]
SoSidecars == [marker : BOOLEAN, vid : SoIds, content : SoIds, versions : Seq(SoEntry)]
SoShapes ==
  /\ soBucket \in [versioning : {"", "Enabled", "Suspended"}, lockable : BOOLEAN]
  /\ soCurrent \in [vid : SoIds, content : SoIds, body : SoIds]
  /\ soVersions \in Seq(SoEntry)
  /\ soDisk \in [data : SoIds, sidecar : SoSidecars, files : [SoIds -> SoIds]]
  /\ soLocks \in [retained : [SoIds -> SoRetention], held : SUBSET SoIds]
  /\ soCount \in [writes : SoIds, locks : Nat, restarts : Nat]
  /\ soRefused \in BOOLEAN

(* A history names an id once, and none that is yet to be given.            *)
SoHistory(h, writes) ==
  /\ h \in Seq(SoEntry)
  /\ \A i, j \in DOMAIN h : h[i].vid = h[j].vid => i = j
  /\ \A i \in DOMAIN h : h[i].vid <= writes
SoHistories ==
  /\ SoHistory(soVersions, soCount.writes) /\ SoHistory(soDisk.sidecar.versions, soCount.writes)
  /\ \A v \in SoIds \ ({0} \cup SoListed(soVersions)) :
       soLocks.retained[v] = SoFree /\ v \notin soLocks.held

(* The newest entry of a history.                                           *)
SoNewest(h) == h[Len(h)]
(* What clients see of the key: the current record against the history.     *)
SoTop ==
  /\ soBucket.versioning = "" => soVersions = <<>>
  /\ soCurrent.content = 0 => soCurrent = SoNothing
  /\ soCurrent.body = 0
  /\ soVersions = <<>> => soCurrent.vid = 0
  /\ soVersions # <<>> =>
       /\ SoNewest(soVersions).content = soCurrent.content
       /\ soCurrent # SoNothing => SoNewest(soVersions).vid = soCurrent.vid

(* What the disk has of the current object, or of the marker that hides it. *)
SoSaved ==
  IF soCurrent # SoNothing
  THEN /\ soDisk.data = soCurrent.content
       /\ soDisk.sidecar = [marker |-> FALSE, vid |-> soCurrent.vid, content |-> soCurrent.content,
                            versions |-> soVersions]
  ELSE IF soVersions = <<>> THEN soDisk.data = 0 /\ soDisk.sidecar = SoNoSidecar
  ELSE soDisk.sidecar = [marker |-> TRUE, vid |-> SoNewest(soVersions).vid, content |-> 0, versions |-> soVersions]

(* The bytes of an older version are in its file; those of the current one  *)
(* may be there too, from when another one hid it.                          *)
SoFiled ==
  /\ \A v \in SoIds : v > soCount.writes => soDisk.files[v] = 0
  /\ \A i \in DOMAIN soVersions : ~SoIsMarker(soVersions[i]) =>
       \/ soDisk.files[soVersions[i].vid] = soVersions[i].content
       \/ soDisk.files[soVersions[i].vid] = 0 /\ soCurrent # SoNothing /\ soCurrent.vid = soVersions[i].vid

SoAgreed == SoTop /\ SoSaved /\ SoFiled
SoInv == SoShapes /\ SoHistories /\ (~soRefused => SoAgreed)

-----------------------------------------------------------------------------
LEMMA SoNumbers == 0 \in SoIds /\ SoMaxWrites \in Nat /\ \A v \in SoIds : v \in Nat
BY SoAssumption DEF SoIds

LEMMA SoConstants ==
  /\ SoNothing \in [vid : SoIds, content : SoIds, body : SoIds] /\ SoFree \in SoRetention
  /\ SoNoSidecar \in SoSidecars /\ SoNoSidecar.versions = <<>> /\ <<>> \in Seq(SoEntry)
BY SoNumbers DEF SoNothing, SoFree, SoRetention, SoNoSidecar, SoSidecars

(* The next number is one that can be given.                                *)
LEMMA SoNext1 ==
  ASSUME SoShapes, soCount.writes < SoMaxWrites
  PROVE  SoNow \in SoIds /\ SoNow # 0 /\ soCount.writes \in SoIds /\ soCount.writes < SoNow
<1>1. soCount.writes \in SoIds BY DEF SoShapes
<1> QED BY <1>1, SoAssumption DEF SoIds, SoNow

(* What is picked of a history is one.                                      *)
LEMMA SoPickedIs ==
  ASSUME NEW h, NEW n, SoHistory(h, n), NEW K \in SUBSET DOMAIN h
  PROVE  SoHistory(Picked(h, K), n)
<1> DEFINE w == Picked(h, K)
<1>1. h \in Seq(SoEntry) BY DEF SoHistory
<1>2. w \in Seq(SoEntry) /\ \E e : Leads(e, h, K) BY <1>1, PickedIs
<1>3. PICK e : Leads(e, h, K) BY <1>2
<1>4. /\ e \in [DOMAIN w -> K] /\ \A i \in DOMAIN w : w[i] = h[e[i]]
      /\ \A i, j \in DOMAIN w : i < j => e[i] < e[j]
  BY <1>3 DEF Leads
<1> HIDE DEF w
<1>5. \A i \in DOMAIN w : e[i] \in DOMAIN h /\ w[i] = h[e[i]] BY <1>4
<1>6. \A i \in DOMAIN w : i \in Int /\ e[i] \in Int
  <2>1. DOMAIN h \subseteq Int /\ DOMAIN w \subseteq Int BY <1>1, <1>2
  <2> QED BY <1>5, <2>1
<1>7. \A i, j \in DOMAIN w : w[i].vid = w[j].vid => i = j
  <2> SUFFICES ASSUME NEW i \in DOMAIN w, NEW j \in DOMAIN w, w[i].vid = w[j].vid PROVE i = j OBVIOUS
  <2>1. e[i] = e[j]
    <3>1. \A k, l \in DOMAIN h : h[k].vid = h[l].vid => k = l BY DEF SoHistory
    <3>2. e[i] \in DOMAIN h /\ e[j] \in DOMAIN h /\ h[e[i]].vid = h[e[j]].vid BY <1>5
    <3> QED BY <3>1, <3>2
  <2>2. ~(i < j) /\ ~(j < i) BY <1>4, <1>6, <2>1
  <2> QED BY <1>6, <2>2
<1>8. \A i \in DOMAIN w : w[i].vid <= n BY <1>5 DEF SoHistory
<1>9. SoHistory(w, n) BY <1>2, <1>7, <1>8 DEF SoHistory
<1> QED BY <1>9 DEF w

(* A history without an id: the other entries, and the newest of them all   *)
(* unless it was that one.                                                  *)
LEMMA SoWithoutIs ==
  ASSUME NEW h, NEW n, SoHistory(h, n), NEW v
  PROVE  LET w == SoWithout(h, v) IN
         /\ SoHistory(w, n)
         /\ \A i \in DOMAIN w : w[i].vid # v /\ \E k \in DOMAIN h : w[i] = h[k]
         /\ \A k \in DOMAIN h : h[k].vid # v => \E i \in DOMAIN w : w[i] = h[k]
         /\ h # <<>> /\ SoNewest(h).vid # v => w # <<>> /\ SoNewest(w) = SoNewest(h)
<1> DEFINE K == {i \in DOMAIN h : h[i].vid # v}
           w == Picked(h, K)
<1>1. h \in Seq(SoEntry) /\ K \in SUBSET DOMAIN h BY DEF SoHistory
<1>2. \A k \in K : k \in DOMAIN h /\ h[k].vid # v OBVIOUS
<1>3. \A k \in DOMAIN h : h[k].vid # v => k \in K OBVIOUS
<1>4. w = SoWithout(h, v) BY DEF SoWithout
<1> HIDE DEF K
<1>5. w \in Seq(SoEntry) /\ SoHistory(w, n) /\ \E e : Leads(e, h, K) BY <1>1, PickedIs, SoPickedIs
<1>6. PICK e : Leads(e, h, K) BY <1>5
<1>7. /\ e \in [DOMAIN w -> K] /\ \A i \in DOMAIN w : w[i] = h[e[i]]
      /\ \A i, j \in DOMAIN w : i < j => e[i] < e[j]
      /\ \A k \in K : \E i \in DOMAIN w : e[i] = k
  BY <1>6 DEF Leads
<1> HIDE DEF w
<1>8. \A i \in DOMAIN w : e[i] \in DOMAIN h /\ w[i] = h[e[i]] /\ w[i].vid # v BY <1>2, <1>7
<1>9. \A k \in DOMAIN h : h[k].vid # v => \E i \in DOMAIN w : w[i] = h[k] BY <1>3, <1>7
<1>10. ASSUME h # <<>>, SoNewest(h).vid # v
       PROVE  w # <<>> /\ SoNewest(w) = SoNewest(h)
  <2>1. Len(h) \in DOMAIN h /\ DOMAIN h = 1..Len(h) /\ Len(h) \in Nat BY <1>1, <1>10
  <2>2. Len(h) \in K BY <1>3, <1>10, <2>1 DEF SoNewest
  <2>3. PICK i \in DOMAIN w : e[i] = Len(h) BY <1>7, <2>2
  <2>4. DOMAIN w = 1..Len(w) /\ Len(w) \in Nat /\ i \in 1..Len(w) BY <1>5, <2>3
  <2>5. i = Len(w)
    <3>1. Len(w) \in DOMAIN w /\ e[Len(w)] \in 1..Len(h) BY <1>8, <2>1, <2>4
    <3>2. ~(i < Len(w)) BY <1>7, <2>1, <2>3, <3>1
    <3> QED BY <2>4, <3>2
  <2>6. w[Len(w)] = h[Len(h)] BY <1>7, <2>3, <2>5
  <2> QED BY <1>5, <2>4, <2>6 DEF SoNewest
<1> QED BY <1>4, <1>5, <1>8, <1>9, <1>10

(* An entry on top.                                                         *)
LEMMA SoAppended ==
  ASSUME NEW h, NEW n \in Nat, SoHistory(h, n), NEW m \in Nat, n <= m,
         NEW x \in SoEntry, x.vid \notin SoListed(h), x.vid <= m
  PROVE  LET w == Append(h, x) IN
         /\ SoHistory(w, m) /\ w # <<>> /\ SoNewest(w) = x
         /\ \A i \in DOMAIN w : w[i] = x \/ (i \in DOMAIN h /\ w[i] = h[i])
         /\ \A i \in DOMAIN h : i \in DOMAIN w /\ w[i] = h[i]
         /\ Len(w) \in DOMAIN w /\ w[Len(w)] = x
<1> DEFINE w == Append(h, x)
<1>1. h \in Seq(SoEntry) /\ Len(h) \in Nat /\ DOMAIN h = 1..Len(h) BY DEF SoHistory
<1>2. /\ w \in Seq(SoEntry) /\ Len(w) = Len(h) + 1 /\ DOMAIN w = 1..(Len(h) + 1)
      /\ w[Len(h) + 1] = x /\ \A i \in DOMAIN h : w[i] = h[i]
  BY <1>1
<1> HIDE DEF w
<1>3. \A i \in DOMAIN w : (i = Len(h) + 1 /\ w[i] = x) \/ (i \in DOMAIN h /\ w[i] = h[i])
  BY <1>1, <1>2
<1>4. \A i \in DOMAIN h : h[i].vid # x.vid BY DEF SoListed
<1>5. \A i, j \in DOMAIN w : w[i].vid = w[j].vid => i = j
  BY <1>3, <1>4 DEF SoHistory
<1>6. \A i \in DOMAIN w : w[i].vid <= m
  <2> TAKE i \in DOMAIN w
  <2>1. CASE w[i] = x BY <2>1
  <2>2. CASE i \in DOMAIN h /\ w[i] = h[i]
    <3>1. h[i] \in SoEntry BY <1>1, <2>2
    <3>2. h[i].vid \in Nat BY <3>1, SoNumbers DEF SoEntry
    <3> QED BY <2>2, <3>2, SoNumbers DEF SoHistory, SoEntry
  <2> QED BY <1>3, <2>1, <2>2
<1>7. SoHistory(w, m) BY <1>2, <1>5, <1>6 DEF SoHistory
<1>8. w # <<>> /\ SoNewest(w) = x /\ Len(w) \in DOMAIN w /\ \A i \in DOMAIN h : i \in DOMAIN w
  BY <1>1, <1>2 DEF SoNewest
<1>9. w = Append(h, x) BY DEF w
<1> QED BY <1>2, <1>3, <1>7, <1>8, <1>9

(* The next entry: enabled, one of the next number; suspended, the null     *)
(* version, in place of the last.                                           *)
SoComes(x, m) ==
  /\ x \in SoEntry /\ m \in Nat /\ soCount.writes <= m
  /\ SoEnabled => x.vid = SoNow /\ m = SoNow
  /\ ~SoEnabled => x.vid = 0
SoPreserved == [vid |-> 0, content |-> soCurrent.content]
SoUnlisted == SoEnabled /\ soCurrent # SoNothing /\ soCurrent.vid = 0 /\ 0 \notin SoListed(soVersions)

(* What stays of the history under it, and what is in a history.            *)
SoStays(y) == \E k \in DOMAIN soVersions : y = soVersions[k] /\ (SoEnabled \/ y.vid # 0)
SoHas(h, y) == \E i \in DOMAIN h : h[i] = y

LEMMA SoStackedIs ==
  ASSUME SoShapes, SoHistory(soVersions, soCount.writes), NEW x, NEW m, SoComes(x, m)
  PROVE  LET s == SoStacked(x) IN
         /\ SoHistory(s, m) /\ s # <<>> /\ SoNewest(s) = x /\ SoHas(s, x)
         /\ \A y : SoHas(s, y) => y = x \/ SoStays(y) \/ (SoUnlisted /\ y = SoPreserved)
         /\ \A y : SoStays(y) => SoHas(s, y)
         /\ SoUnlisted => SoHas(s, SoPreserved)
<1> DEFINE n == soCount.writes
           h == IF ~SoEnabled THEN SoWithout(soVersions, 0)
                ELSE IF SoUnlisted THEN Append(soVersions, SoPreserved) ELSE soVersions
           s == SoStacked(x)
           Below == /\ SoHistory(h, n) /\ x.vid <= m /\ x.vid \notin SoListed(h)
                    /\ \A y : SoHas(h, y) => SoStays(y) \/ (SoUnlisted /\ y = SoPreserved)
                    /\ \A y : SoStays(y) => SoHas(h, y)
                    /\ SoUnlisted => SoHas(h, SoPreserved)
<1>1. s = Append(h, x) BY DEF SoStacked, SoUnlisted, SoPreserved
<1>2. n \in Nat /\ n <= m /\ m \in Nat /\ x \in SoEntry /\ x.vid \in Nat
  BY SoNumbers DEF SoShapes, SoComes, SoEntry
<1>3. Below
  <2>1. CASE ~SoEnabled
    <3>1. h = SoWithout(soVersions, 0) /\ x.vid = 0 BY <2>1 DEF SoComes
    <3> HIDE DEF h
    <3>2. /\ SoHistory(h, n) /\ \A i \in DOMAIN h : h[i].vid # 0 /\ \E k \in DOMAIN soVersions : h[i] = soVersions[k]
          /\ \A k \in DOMAIN soVersions : soVersions[k].vid # 0 => \E i \in DOMAIN h : h[i] = soVersions[k]
      BY <3>1, SoWithoutIs
    <3>3. x.vid \notin SoListed(h) BY <3>1, <3>2 DEF SoListed
    <3>4. ~SoUnlisted BY <2>1 DEF SoUnlisted
    <3>5. \A y : SoHas(h, y) => SoStays(y) BY <3>2 DEF SoHas, SoStays
    <3>6. \A y : SoStays(y) => SoHas(h, y) BY <2>1, <3>2 DEF SoHas, SoStays
    <3>7. x.vid <= m BY <1>2, <3>1
    <3> QED BY <3>2, <3>3, <3>4, <3>5, <3>6, <3>7
  <2>2. CASE SoEnabled /\ ~SoUnlisted
    <3>1. h = soVersions /\ x.vid = SoNow /\ m = SoNow BY <2>2 DEF SoComes
    <3> HIDE DEF h
    <3>2. \A i \in DOMAIN soVersions : soVersions[i].vid <= n BY DEF SoHistory
    <3>3. x.vid \notin SoListed(h) BY <1>2, <3>1, <3>2 DEF SoListed, SoNow
    <3>4. \A y : SoHas(h, y) <=> SoStays(y) BY <2>2, <3>1 DEF SoHas, SoStays
    <3>5. SoHistory(h, n) /\ x.vid <= m BY <1>2, <3>1
    <3> QED BY <2>2, <3>3, <3>4, <3>5
  <2>3. CASE SoEnabled /\ SoUnlisted
    <3>1. h = Append(soVersions, SoPreserved) /\ x.vid = SoNow /\ m = SoNow BY <2>3 DEF SoComes
    <3> HIDE DEF h
    <3>2. SoPreserved \in SoEntry /\ SoPreserved.vid = 0 /\ 0 \notin SoListed(soVersions)
      BY <2>3, SoNumbers DEF SoPreserved, SoEntry, SoShapes, SoUnlisted
    <3>3. 0 <= n /\ n <= n BY <1>2
    <3>4. /\ SoHistory(h, n)
          /\ \A i \in DOMAIN h : h[i] = SoPreserved \/ (i \in DOMAIN soVersions /\ h[i] = soVersions[i])
          /\ \A i \in DOMAIN soVersions : i \in DOMAIN h /\ h[i] = soVersions[i]
          /\ Len(h) \in DOMAIN h /\ h[Len(h)] = SoPreserved
      BY <1>2, <3>1, <3>2, <3>3, SoAppended
    <3>5. \A i \in DOMAIN h : h[i].vid <= n BY <3>4 DEF SoHistory
    <3>6. x.vid \notin SoListed(h) BY <1>2, <3>1, <3>5 DEF SoListed, SoNow
    <3>7. \A y : SoHas(h, y) => SoStays(y) \/ y = SoPreserved BY <2>3, <3>4 DEF SoHas, SoStays
    <3>8. \A y : SoStays(y) => SoHas(h, y) BY <3>4 DEF SoHas, SoStays
    <3>9. SoHas(h, SoPreserved) BY <3>4 DEF SoHas
    <3>10. x.vid <= m BY <1>2, <3>1
    <3> QED BY <2>3, <3>4, <3>6, <3>7, <3>8, <3>9, <3>10
  <2> QED BY <2>1, <2>2, <2>3
<1>4. SoHistory(h, n) /\ x.vid <= m /\ x.vid \notin SoListed(h) BY <1>3
<1>5. /\ \A y : SoHas(h, y) => SoStays(y) \/ (SoUnlisted /\ y = SoPreserved)
      /\ \A y : SoStays(y) => SoHas(h, y)
      /\ SoUnlisted => SoHas(h, SoPreserved)
  BY <1>3
<1> HIDE DEF h, s
<1>6. /\ SoHistory(s, m) /\ s # <<>> /\ SoNewest(s) = x
      /\ \A i \in DOMAIN s : s[i] = x \/ (i \in DOMAIN h /\ s[i] = h[i])
      /\ \A i \in DOMAIN h : i \in DOMAIN s /\ s[i] = h[i]
      /\ Len(s) \in DOMAIN s /\ s[Len(s)] = x
  BY <1>1, <1>2, <1>4, SoAppended
<1>7. \A y : SoHas(s, y) => y = x \/ SoHas(h, y) BY <1>6 DEF SoHas
<1>8. SoHas(s, x) /\ \A y : SoHas(h, y) => SoHas(s, y) BY <1>6 DEF SoHas
<1> QED BY <1>5, <1>6, <1>7, <1>8 DEF s

(* The current object is the newest entry, and no other has its id.         *)
LEMMA SoTopIs ==
  ASSUME SoShapes, SoHistories, SoAgreed
  PROVE  /\ soCurrent.vid \in SoIds /\ soCurrent.vid <= soCount.writes
         /\ soCurrent # SoNothing => SoBytes(soCurrent) = soCurrent.content /\ soCurrent.content # 0
         /\ SoBytes(soCurrent) \in SoIds
         /\ soCurrent # SoNothing => \A y : SoHas(soVersions, y) /\ y.vid = soCurrent.vid => y.content = soCurrent.content
         /\ soVersions # <<>> => SoHas(soVersions, SoNewest(soVersions)) /\ SoNewest(soVersions) \in SoEntry
<1>1. /\ soCurrent.vid \in SoIds /\ soCurrent.content \in SoIds /\ soCurrent.body \in SoIds
      /\ soDisk.data \in SoIds /\ soVersions \in Seq(SoEntry) /\ soCount.writes \in SoIds
  BY DEF SoShapes
<1>2. soCurrent # SoNothing => SoBytes(soCurrent) = soCurrent.content /\ soCurrent.content # 0
  BY DEF SoAgreed, SoTop, SoSaved, SoBytes
<1>3. SoBytes(soCurrent) \in SoIds BY <1>1 DEF SoBytes
<1>4. soVersions # <<>> => /\ Len(soVersions) \in DOMAIN soVersions /\ SoNewest(soVersions) \in SoEntry
                           /\ SoHas(soVersions, SoNewest(soVersions))
  BY <1>1 DEF SoNewest, SoHas
<1>5. soCurrent.vid <= soCount.writes
  <2>0. soCount.writes \in Nat /\ 0 <= soCount.writes BY <1>1, SoNumbers
  <2>1. CASE soVersions = <<>>
    <3>1. soCurrent.vid = 0 BY <2>1 DEF SoAgreed, SoTop
    <3> QED BY <2>0, <3>1
  <2>2. CASE soCurrent = SoNothing BY <2>0, <2>2 DEF SoNothing
  <2>3. CASE soVersions # <<>> /\ soCurrent # SoNothing
    <3>1. soCurrent.vid = soVersions[Len(soVersions)].vid BY <2>3 DEF SoAgreed, SoTop, SoNewest
    <3> QED BY <1>4, <2>3, <3>1 DEF SoHistories, SoHistory
  <2> QED BY <2>1, <2>2, <2>3
<1>6. ASSUME soCurrent # SoNothing, NEW y, SoHas(soVersions, y), y.vid = soCurrent.vid
      PROVE  y.content = soCurrent.content
  <2>1. PICK i \in DOMAIN soVersions : soVersions[i] = y BY <1>6 DEF SoHas
  <2>2. soVersions # <<>> BY <2>1
  <2>3. /\ soVersions[Len(soVersions)].vid = soCurrent.vid
        /\ soVersions[Len(soVersions)].content = soCurrent.content
    BY <1>6, <2>2 DEF SoAgreed, SoTop, SoNewest
  <2>4. i = Len(soVersions) BY <1>4, <1>6, <2>1, <2>2, <2>3 DEF SoHistories, SoHistory
  <2> QED BY <2>1, <2>3, <2>4
<1> QED BY <1>1, <1>2, <1>3, <1>4, <1>5, <1>6

(* What is filed, said of entries.                                          *)
SoFiledAs(y) ==
  \/ soDisk.files[y.vid] = y.content
  \/ soDisk.files[y.vid] = 0 /\ soCurrent # SoNothing /\ soCurrent.vid = y.vid
LEMMA SoFiledIs ==
  SoFiled <=> /\ \A v \in SoIds : v > soCount.writes => soDisk.files[v] = 0
              /\ \A y : SoHas(soVersions, y) /\ y.content # 0 => SoFiledAs(y)
BY DEF SoFiled, SoHas, SoFiledAs, SoIsMarker

(* The files after an entry has come on top.                                *)
LEMMA SoDisplacedIs ==
  ASSUME SoShapes, SoHistories
  PROVE  SoBytes(soCurrent) \in SoIds /\ SoDisplaced \in [SoIds -> SoIds]
<1>1. SoBytes(soCurrent) \in SoIds /\ soDisk.files \in [SoIds -> SoIds] BY DEF SoShapes, SoBytes
<1>2. soCurrent.vid \in SoIds BY DEF SoShapes
<1> QED BY <1>1, <1>2, SoNumbers DEF SoDisplaced

LEMMA SoDisplacedFiled ==
  ASSUME SoShapes, SoHistories, SoAgreed, NEW x, NEW m \in SoIds, SoComes(x, m), soCount'.writes = m,
         soVersions' = SoStacked(x), soDisk'.files = SoDisplaced,
         x.content # 0 => soCurrent' # SoNothing /\ soCurrent'.vid = x.vid
  PROVE  SoFiled'
<1> DEFINE files == IF SoEnabled THEN soDisk.files ELSE [soDisk.files EXCEPT ![0] = 0]
           c == soCurrent.vid
<1>1. /\ soDisk.files \in [SoIds -> SoIds] /\ c \in SoIds /\ soCount.writes \in SoIds
      /\ soCount.writes \in Nat /\ m \in Nat /\ c \in Nat
  BY SoNumbers DEF SoShapes
<1>2. /\ c <= soCount.writes /\ soCount.writes <= m /\ x \in SoEntry /\ x.vid \in SoIds /\ x.content \in SoIds
      /\ (SoEnabled /\ x.vid = soCount.writes + 1 /\ m = soCount.writes + 1) \/ (~SoEnabled /\ x.vid = 0)
  BY SoTopIs DEF SoComes, SoNow, SoEntry
<1>3. /\ \A v \in SoIds : v > soCount.writes => soDisk.files[v] = 0
      /\ \A y : SoHas(soVersions, y) /\ y.content # 0 => SoFiledAs(y)
  BY SoFiledIs DEF SoAgreed
<1>4. \A v \in SoIds : files[v] = IF ~SoEnabled /\ v = 0 THEN 0 ELSE soDisk.files[v]
  BY <1>1, SoNumbers
<1>5. files \in [SoIds -> SoIds] BY <1>1, SoNumbers
<1>6. soDisk'.files = IF soCurrent = SoNothing \/ (~SoEnabled /\ c = 0) THEN files
                      ELSE [files EXCEPT ![c] = SoBytes(soCurrent)]
  BY DEF SoDisplaced
<1> HIDE DEF files
<1>7. \A v \in SoIds : soDisk'.files[v] = IF soCurrent = SoNothing \/ (~SoEnabled /\ c = 0) \/ v # c THEN files[v]
                                         ELSE SoBytes(soCurrent)
  BY <1>1, <1>5, <1>6
<1> HIDE DEF c
<1>8. \A v \in SoIds : v > m => soDisk'.files[v] = 0
  <2> SUFFICES ASSUME NEW v \in SoIds, v > m PROVE soDisk'.files[v] = 0 OBVIOUS
  <2>1. v \in Nat /\ v > soCount.writes /\ v # c BY <1>1, <1>2, SoNumbers
  <2> QED BY <1>3, <1>4, <1>7, <2>1
<1>9. ASSUME NEW y, SoHas(soVersions', y), y.content # 0
      PROVE  SoFiledAs(y)'
  <2>1. y = x \/ SoStays(y) \/ (SoUnlisted /\ y = SoPreserved)
    BY <1>9, SoStackedIs DEF SoHistories
  <2>2. CASE y = x
    <3>1. soDisk'.files[x.vid] = 0
      <4>1. CASE SoEnabled
        <5>1. x.vid # c /\ x.vid > soCount.writes BY <1>1, <1>2, <4>1
        <5> QED BY <1>2, <1>3, <1>4, <1>7, <4>1, <5>1
      <4>2. CASE ~SoEnabled
        <5>1. x.vid = 0 BY <1>2, <4>2
        <5> QED BY <1>2, <1>4, <1>7, <4>2, <5>1
      <4> QED BY <4>1, <4>2
    <3> QED BY <1>9, <2>2, <3>1 DEF SoFiledAs
  <2>3. CASE SoStays(y)
    <3>1. /\ SoHas(soVersions, y) /\ y \in SoEntry /\ y.vid \in SoIds /\ y.content \in SoIds
          /\ SoEnabled \/ y.vid # 0
      <4>1. PICK k \in DOMAIN soVersions : y = soVersions[k] /\ (SoEnabled \/ y.vid # 0) BY <2>3 DEF SoStays
      <4>0. soVersions \in Seq(SoEntry) BY DEF SoShapes
      <4>2. soVersions[k] \in SoEntry BY <4>0
      <4> QED BY <4>1, <4>2 DEF SoHas, SoEntry
    <3>2. SoFiledAs(y) BY <1>3, <1>9, <3>1
    <3>3. files[y.vid] = soDisk.files[y.vid] BY <1>4, <3>1
    <3>4. CASE soCurrent # SoNothing /\ y.vid = c
      <4>1. SoBytes(soCurrent) = y.content BY <3>1, <3>4, SoTopIs DEF c
      <4>2. soDisk'.files[y.vid] = y.content BY <1>7, <3>1, <3>4, <4>1
      <4> QED BY <4>2 DEF SoFiledAs
    <3>5. CASE soCurrent = SoNothing \/ y.vid # c
      <4>1. soDisk.files[y.vid] = y.content BY <3>2, <3>5 DEF SoFiledAs, c
      <4>2. soDisk'.files[y.vid] = y.content BY <1>7, <3>1, <3>3, <3>5, <4>1
      <4> QED BY <4>2 DEF SoFiledAs
    <3> QED BY <3>4, <3>5
  <2>4. CASE SoUnlisted /\ y = SoPreserved
    <3>1. c = 0 /\ soCurrent # SoNothing /\ SoEnabled /\ y.vid = 0 /\ y.content = soCurrent.content
      BY <2>4 DEF SoUnlisted, SoPreserved, c
    <3>2. soDisk'.files[0] = SoBytes(soCurrent) BY <1>7, <3>1, SoNumbers
    <3> QED BY <3>1, <3>2, SoTopIs DEF SoFiledAs
  <2> QED BY <2>1, <2>2, <2>3, <2>4
<1>10. SoFiled' <=> /\ \A v \in SoIds : v > soCount'.writes => soDisk'.files[v] = 0
                    /\ \A y : SoHas(soVersions', y) /\ y.content # 0 => SoFiledAs(y)'
  BY DEF SoFiled, SoHas, SoFiledAs, SoIsMarker
<1> QED BY <1>8, <1>9, <1>10

(* A lock set on the id a write was given.                                  *)
SoLocksKept(v) ==
  /\ soLocks' \in [retained : [SoIds -> SoRetention], held : SUBSET SoIds]
  /\ \A u \in SoIds \ {v} : soLocks'.retained[u] = soLocks.retained[u]
  /\ \A u \in SoIds \ {v} : u \in soLocks'.held <=> u \in soLocks.held
LEMMA SoLockIs ==
  ASSUME SoShapes, NEW v \in SoIds, NEW retention \in SoRetention, NEW hold \in BOOLEAN,
         soLocks' = SoLock(v, retention, hold)
  PROVE  SoLocksKept(v)
<1>1. soLocks.retained \in [SoIds -> SoRetention] /\ soLocks.held \subseteq SoIds BY DEF SoShapes
<1>2. /\ soLocks'.retained = IF retention = SoFree THEN soLocks.retained ELSE [soLocks.retained EXCEPT ![v] = retention]
      /\ soLocks'.held = IF hold THEN soLocks.held \cup {v} ELSE soLocks.held
      /\ soLocks' = [retained |-> soLocks'.retained, held |-> soLocks'.held]
  BY DEF SoLock
<1>3. soLocks'.retained \in [SoIds -> SoRetention] /\ soLocks'.held \subseteq SoIds BY <1>1, <1>2
<1>4. soLocks' \in [retained : [SoIds -> SoRetention], held : SUBSET SoIds] BY <1>2, <1>3
<1>5. \A u \in SoIds \ {v} : soLocks'.retained[u] = soLocks.retained[u] BY <1>1, <1>2
<1>6. \A u \in SoIds \ {v} : u \in soLocks'.held <=> u \in soLocks.held BY <1>2
<1> QED BY <1>4, <1>5, <1>6 DEF SoLocksKept

(* What is on top of the history stays lockable, and the rest as it was.    *)
LEMMA SoStackedLocks ==
  ASSUME SoShapes, SoHistories, NEW x, NEW m, SoComes(x, m), soVersions' = SoStacked(x), SoLocksKept(x.vid)
  PROVE  \A v \in SoIds \ ({0} \cup SoListed(soVersions')) : soLocks'.retained[v] = SoFree /\ v \notin soLocks'.held
<1> SUFFICES ASSUME NEW v \in SoIds, v # 0, v \notin SoListed(soVersions')
             PROVE  soLocks'.retained[v] = SoFree /\ v \notin soLocks'.held
  OBVIOUS
<1>1. \A y : (y = x \/ SoStays(y)) => SoHas(soVersions', y) BY SoStackedIs DEF SoHistories
<1>2. \A y : SoHas(soVersions', y) => y.vid # v BY DEF SoHas, SoListed
<1>3. v # x.vid BY <1>1, <1>2
<1>4. v \notin SoListed(soVersions)
  <2> SUFFICES ASSUME v \in SoListed(soVersions) PROVE FALSE OBVIOUS
  <2>1. PICK k \in DOMAIN soVersions : soVersions[k].vid = v BY DEF SoListed
  <2>2. SoStays(soVersions[k]) BY <2>1 DEF SoStays
  <2> QED BY <1>1, <1>2, <2>1, <2>2
<1>5. soLocks.retained[v] = SoFree /\ v \notin soLocks.held BY <1>4 DEF SoHistories
<1> QED BY <1>3, <1>5 DEF SoLocksKept

(* A write: PutObject, an upload, a copy.                                   *)
LEMMA SoWriteInv ==
  ASSUME SoInv, NEW content \in SoIds, NEW bytes \in SoIds, SoWrite(content, bytes),
         ~soRefused => content # 0 /\ bytes = content,
         soCount' \in [writes : SoIds, locks : Nat, restarts : Nat], soCount'.writes = SoNow,
         SoLocksKept(IF SoEnabled THEN SoNow ELSE 0), UNCHANGED <<soBucket, soRefused>>
  PROVE  SoInv'
<1> DEFINE v == IF SoEnabled THEN SoNow ELSE 0
           x == [vid |-> v, content |-> content]
           m == SoNow
<1>0. SoShapes /\ SoHistories /\ (~soRefused => SoAgreed) BY DEF SoInv
<1>1. m \in SoIds /\ m # 0 /\ m \in Nat /\ soCount.writes \in Nat /\ soCount.writes < m /\ soCount.writes <= m
  <2>1. soCount.writes < SoMaxWrites BY DEF SoWrite
  <2>2. soCount.writes \in SoIds /\ m \in SoIds /\ m # 0 /\ soCount.writes < m BY <1>0, <2>1, SoNext1
  <2>3. soCount.writes \in Nat /\ m \in Nat BY <2>2, SoNumbers
  <2> HIDE DEF m
  <2> QED BY <2>2, <2>3
<1>2. v \in SoIds /\ x \in SoEntry /\ x.vid = v /\ x.content = content BY <1>1, SoNumbers DEF SoEntry
<1>3. SoComes(x, m) BY <1>1, <1>2 DEF SoComes
<1>4. /\ soVersions' = IF SoVersioned THEN SoStacked(x) ELSE soVersions
      /\ soCurrent' = [vid |-> v, content |-> content, body |-> 0]
      /\ soDisk' = [data |-> bytes, sidecar |-> soDisk'.sidecar, files |-> soDisk'.files]
      /\ soDisk'.sidecar = [marker |-> FALSE, vid |-> v, content |-> content, versions |-> soVersions']
      /\ soDisk'.files = IF SoVersioned THEN SoDisplaced ELSE soDisk.files
      /\ UNCHANGED <<soBucket, soRefused>> /\ soCount'.writes = m
      /\ soCount' \in [writes : SoIds, locks : Nat, restarts : Nat] /\ SoLocksKept(v)
  BY DEF SoWrite
<1> HIDE DEF v, x, m
<1>5. SoHistory(soVersions', m) /\ (SoVersioned => soVersions' # <<>> /\ SoNewest(soVersions') = x)
  <2>1. CASE SoVersioned BY <1>0, <1>3, <1>4, <2>1, SoStackedIs DEF SoHistories
  <2>2. CASE ~SoVersioned
    <3>1. SoHistory(soVersions, soCount.writes) /\ soVersions' = soVersions BY <1>0, <1>4, <2>2 DEF SoHistories
    <3>2. \A i \in DOMAIN soVersions : soVersions[i].vid \in Nat
      <4> TAKE i \in DOMAIN soVersions
      <4>1. soVersions \in Seq(SoEntry) BY <3>1 DEF SoHistory
      <4>2. soVersions[i] \in SoEntry BY <4>1
      <4> QED BY <4>2, SoNumbers DEF SoEntry
    <3> QED BY <1>1, <2>2, <3>1, <3>2 DEF SoHistory
  <2> QED BY <2>1, <2>2
<1>6. SoShapes'
  <2>1. soVersions' \in Seq(SoEntry) BY <1>5 DEF SoHistory
  <2>2. soDisk'.sidecar \in SoSidecars BY <1>2, <1>4, <2>1 DEF SoSidecars
  <2>3. soDisk'.files \in [SoIds -> SoIds] BY <1>0, <1>4, SoDisplacedIs DEF SoShapes
  <2>4. soCurrent' \in [vid : SoIds, content : SoIds, body : SoIds] BY <1>2, <1>4, SoNumbers
  <2>5. soDisk' \in [data : SoIds, sidecar : SoSidecars, files : [SoIds -> SoIds]]
    <3>1. soDisk' = [data |-> bytes, sidecar |-> soDisk'.sidecar, files |-> soDisk'.files] BY <1>4
    <3> QED BY <2>2, <2>3, <3>1
  <2> QED BY <1>0, <1>4, <2>1, <2>4, <2>5 DEF SoShapes, SoLocksKept
<1>7. SoHistories'
  <2>1. \A u \in SoIds \ ({0} \cup SoListed(soVersions')) : soLocks'.retained[u] = SoFree /\ u \notin soLocks'.held
    <3>1. CASE SoVersioned BY <1>0, <1>2, <1>3, <1>4, <3>1, SoStackedLocks
    <3>2. CASE ~SoVersioned
      <4>1. v = 0 /\ soVersions' = soVersions BY <1>4, <3>2 DEF v, SoVersioned, SoEnabled
      <4>2. SoLocksKept(0) BY <1>4, <4>1
      <4> QED BY <1>0, <4>1, <4>2 DEF SoHistories, SoLocksKept
    <3> QED BY <3>1, <3>2
  <2>2. soDisk'.sidecar.versions = soVersions' BY <1>4
  <2> QED BY <1>4, <1>5, <2>1, <2>2 DEF SoHistories
<1>8. ASSUME ~soRefused PROVE SoAgreed'
  <2>1. SoAgreed /\ content # 0 /\ bytes = content BY <1>0, <1>8
  <2>2. soCurrent' # SoNothing BY <1>4, <2>1 DEF SoNothing
  <2>3. ~SoVersioned => v = 0 /\ soVersions' = <<>> /\ soVersions = <<>>
    BY <1>4, <2>1 DEF v, SoVersioned, SoEnabled, SoAgreed, SoTop
  <2>4. SoTop'
    <3>1. soBucket'.versioning = "" => soVersions' = <<>> BY <1>4, <2>3 DEF SoVersioned
    <3>2. soVersions' = <<>> => soCurrent'.vid = 0 BY <1>4, <1>5, <2>3
    <3>3. soVersions' # <<>> => SoNewest(soVersions') = x BY <1>5, <2>3
    <3>4. SoNewest(soVersions)' = SoNewest(soVersions') BY DEF SoNewest
    <3> QED BY <1>2, <1>4, <2>1, <3>1, <3>2, <3>3, <3>4 DEF SoTop
  <2>5. SoSaved' BY <1>4, <2>1, <2>2 DEF SoSaved
  <2>6. SoFiled'
    <3>1. CASE SoVersioned
      <4>1. soCurrent'.vid = x.vid BY <1>2, <1>4
      <4> QED BY <1>0, <1>1, <1>3, <1>4, <2>1, <2>2, <3>1, <4>1, SoDisplacedFiled
    <3>2. CASE ~SoVersioned
      <4>1. \A u \in SoIds : u > m => u > soCount.writes BY <1>1, SoNumbers
      <4> QED BY <1>4, <2>1, <2>3, <3>2, <4>1 DEF SoFiled, SoAgreed
    <3> QED BY <3>1, <3>2
  <2> QED BY <2>4, <2>5, <2>6 DEF SoAgreed
<1> QED BY <1>4, <1>6, <1>7, <1>8 DEF SoInv

-----------------------------------------------------------------------------
LEMMA SoHistoryGrows ==
  ASSUME NEW h, NEW n \in Nat, SoHistory(h, n), NEW m \in Nat, n <= m
  PROVE  SoHistory(h, m)
<1>1. \A i \in DOMAIN h : h[i].vid \in Nat
  <2> TAKE i \in DOMAIN h
  <2>1. h \in Seq(SoEntry) BY DEF SoHistory
  <2>2. h[i] \in SoEntry BY <2>1
  <2> QED BY <2>2, SoNumbers DEF SoEntry
<1> QED BY <1>1 DEF SoHistory

LEMMA SoNoHistory == ASSUME NEW n PROVE SoHistory(<<>>, n)
BY SoConstants DEF SoHistory

LEMMA SoNoEntries == DOMAIN <<>> = {}
<1> DEFINE h == <<>>
<1>1. h \in Seq(SoEntry) /\ Len(h) = 0 OBVIOUS
<1> HIDE DEF h
<1>2. DOMAIN h = 1..Len(h) BY <1>1
<1>3. DOMAIN h = {} BY <1>1, <1>2
<1> QED BY <1>3 DEF h

LEMMA SoInitInv == SoInit => SoInv
<1> SUFFICES ASSUME SoInit PROVE SoInv OBVIOUS
<1> USE DEF SoInit
<1>1. soVersions = <<>> /\ soDisk.sidecar.versions = <<>> /\ soCount.writes = 0 BY SoConstants
<1>2. SoShapes
  <2>1. soLocks \in [retained : [SoIds -> SoRetention], held : SUBSET SoIds] BY SoConstants
  <2>2. soDisk \in [data : SoIds, sidecar : SoSidecars, files : [SoIds -> SoIds]] BY SoNumbers, SoConstants
  <2> QED BY <2>1, <2>2, SoNumbers, SoConstants DEF SoShapes
<1>3. SoHistories BY <1>1, SoNoHistory DEF SoHistories
<1>4. SoTop /\ SoSaved BY <1>1 DEF SoTop, SoSaved, SoNothing
<1>5. SoFiled
  <2>1. soDisk.files = [v \in SoIds |-> 0] OBVIOUS
  <2>2. DOMAIN soVersions = {} BY <1>1, SoNoEntries
  <2> QED BY <2>1, <2>2 DEF SoFiled
<1> QED BY <1>2, <1>3, <1>4, <1>5 DEF SoInv, SoAgreed

LEMMA SoPutInv ==
  ASSUME SoInv, NEW mode \in SoModes \cup {"none"}, NEW hold \in BOOLEAN, SoPut(mode, hold)
  PROVE  SoInv'
<1> DEFINE retention == IF mode = "none" THEN SoFree ELSE [mode |-> mode, live |-> TRUE]
           v == IF SoEnabled THEN SoNow ELSE 0
<1>1. SoShapes /\ soCount.writes < SoMaxWrites BY DEF SoInv, SoPut, SoWrite
<1>2. SoNow \in SoIds /\ SoNow # 0 /\ v \in SoIds BY <1>1, SoNext1, SoNumbers
<1>3. retention \in SoRetention BY SoConstants DEF SoRetention
<1>4. soLocks' = SoLock(v, retention, hold) BY DEF SoPut
<1> HIDE DEF retention, v
<1>5. SoLocksKept(v) BY <1>1, <1>2, <1>3, <1>4, SoLockIs
<1>6. soCount' \in [writes : SoIds, locks : Nat, restarts : Nat] /\ soCount'.writes = SoNow
  <2>1. soCount \in [writes : SoIds, locks : Nat, restarts : Nat] BY <1>1 DEF SoShapes
  <2>2. PICK locks \in {soCount.locks, soCount.locks + 1} :
          soCount' = [soCount EXCEPT !.writes = SoNow, !.locks = locks]
    BY DEF SoPut
  <2>3. locks \in Nat BY <2>1
  <2> QED BY <1>2, <2>1, <2>2, <2>3
<1>7. SoWrite(SoNow, SoNow) /\ UNCHANGED <<soBucket, soRefused>> BY DEF SoPut
<1> QED BY <1>2, <1>5, <1>6, <1>7, SoWriteInv DEF v

LEMMA SoPutRefusedInv == ASSUME SoInv, SoPutRefused PROVE SoInv'
<1> USE DEF SoPutRefused
<1>1. SoShapes /\ SoHistories BY DEF SoInv
<1>2. SoNow \in SoIds /\ soCount.writes \in SoIds /\ soCount.writes < SoNow BY <1>1, SoNext1
<1>3. soCount'.writes = SoNow /\ soCount' \in [writes : SoIds, locks : Nat, restarts : Nat]
  BY <1>1, <1>2 DEF SoShapes
<1>4. soCurrent' \in [vid : SoIds, content : SoIds, body : SoIds] BY <1>2, SoNumbers
<1>5. SoShapes' BY <1>1, <1>3, <1>4 DEF SoShapes
<1>6. SoHistory(soVersions, SoNow) /\ SoHistory(soDisk.sidecar.versions, SoNow)
  <2>1. soCount.writes \in Nat /\ SoNow \in Nat /\ soCount.writes <= SoNow BY <1>2, SoNumbers
  <2> HIDE DEF SoPutRefused
  <2> QED BY <1>1, <2>1, SoHistoryGrows DEF SoHistories
<1>7. SoHistories' BY <1>1, <1>3, <1>6 DEF SoHistories, SoListed
<1> QED BY <1>5, <1>7 DEF SoInv

(* The bytes a version is read with.                                        *)
LEMMA SoVersionBytesIs ==
  ASSUME SoShapes, SoHistories, NEW i \in DOMAIN soVersions
  PROVE  /\ soVersions[i] \in SoEntry /\ SoVersionBytes(soVersions[i], soDisk.files) \in SoIds
         /\ SoAgreed /\ soVersions[i].content # 0 =>
              SoVersionBytes(soVersions[i], soDisk.files) = soVersions[i].content
<1> DEFINE y == soVersions[i]
<1>1. soVersions \in Seq(SoEntry) /\ soDisk.files \in [SoIds -> SoIds] /\ SoBytes(soCurrent) \in SoIds
  BY SoDisplacedIs DEF SoShapes
<1>2. y \in SoEntry /\ SoHas(soVersions, y) BY <1>1 DEF SoHas
<1> HIDE DEF y
<1>3. y.vid \in SoIds BY <1>2 DEF SoEntry
<1>4. SoVersionBytes(y, soDisk.files) \in SoIds BY <1>1, <1>3, SoNumbers DEF SoVersionBytes
<1>5. ASSUME SoAgreed, y.content # 0 PROVE SoVersionBytes(y, soDisk.files) = y.content
  <2>1. SoFiledAs(y) BY <1>2, <1>5, SoFiledIs DEF SoAgreed
  <2>2. soCurrent # SoNothing /\ soCurrent.vid = y.vid => SoBytes(soCurrent) = y.content
    BY <1>2, <1>5, SoTopIs
  <2> QED BY <1>5, <2>1, <2>2 DEF SoFiledAs, SoVersionBytes
<1> QED BY <1>2, <1>4, <1>5 DEF y

LEMMA SoCopyInv ==
  ASSUME SoInv, NEW source, source.content \in SoIds, NEW bytes \in SoIds, NEW lock,
         lock.retention \in SoRetention, lock.hold \in BOOLEAN,
         ~soRefused => bytes = source.content, SoCopy(source, bytes, lock)
  PROVE  SoInv'
<1> DEFINE v == IF SoEnabled THEN SoNow ELSE 0
<1>1. SoShapes /\ soCount.writes < SoMaxWrites BY DEF SoInv, SoCopy, SoWrite
<1>2. SoNow \in SoIds /\ v \in SoIds BY <1>1, SoNext1, SoNumbers
<1>3. soLocks' = SoLock(v, lock.retention, lock.hold) \/ soLocks' = soLocks BY DEF SoCopy
<1> HIDE DEF v
<1>4. SoLocksKept(v)
  <2>1. CASE soLocks' = soLocks BY <1>1, <2>1 DEF SoLocksKept, SoShapes
  <2>2. CASE soLocks' = SoLock(v, lock.retention, lock.hold) BY <1>1, <1>2, <2>2, SoLockIs
  <2> QED BY <1>3, <2>1, <2>2
<1>5. soCount' \in [writes : SoIds, locks : Nat, restarts : Nat] /\ soCount'.writes = SoNow
  <2>1. soCount \in [writes : SoIds, locks : Nat, restarts : Nat] BY <1>1 DEF SoShapes
  <2> QED BY <1>2, <2>1 DEF SoCopy
<1>6. /\ SoWrite(source.content, bytes) /\ UNCHANGED <<soBucket, soRefused>> /\ source.content # 0
  BY DEF SoCopy, SoIsMarker
<1> QED BY <1>4, <1>5, <1>6, SoWriteInv DEF v

LEMMA SoLockOfIs ==
  ASSUME SoShapes, NEW v \in SoIds
  PROVE  SoLockOf(v).retention \in SoRetention /\ SoLockOf(v).hold \in BOOLEAN
<1>1. SoLockOf(v).retention \in SoRetention BY DEF SoLockOf, SoShapes
<1>2. SoLockOf(v).hold = (v \in soLocks.held) BY DEF SoLockOf
<1>3. (v \in soLocks.held) \in BOOLEAN OBVIOUS
<1> QED BY <1>1, <1>2, <1>3

LEMMA SoCopyCurrentInv == ASSUME SoInv, SoCopyCurrent PROVE SoInv'
<1> DEFINE lock == SoLockOf(soCurrent.vid)
<1>1. SoShapes /\ SoHistories /\ (~soRefused => SoAgreed) BY DEF SoInv
<1>2. SoCopy(soCurrent, SoBytes(soCurrent), lock) BY DEF SoCopyCurrent
<1>3. lock.retention \in SoRetention /\ lock.hold \in BOOLEAN /\ soCurrent.content \in SoIds
  <2>1. soCurrent.vid \in SoIds /\ soCurrent.content \in SoIds BY <1>1 DEF SoShapes
  <2> QED BY <1>1, <2>1, SoLockOfIs
<1> HIDE DEF lock
<1>4. soCurrent # SoNothing BY <1>2 DEF SoCopy
<1>5. SoBytes(soCurrent) \in SoIds /\ (~soRefused => SoBytes(soCurrent) = soCurrent.content)
  BY <1>1, <1>4, SoTopIs, SoDisplacedIs
<1> QED BY <1>2, <1>3, <1>5, SoCopyInv

LEMMA SoCopyVersionInv == ASSUME SoInv, NEW i, SoCopyVersion(i) PROVE SoInv'
<1> DEFINE y == soVersions[i]
           bytes == SoVersionBytes(y, soDisk.files)
           lock == IF y.vid = 0 THEN [retention |-> SoFree, hold |-> FALSE] ELSE SoLockOf(y.vid)
<1>1. SoShapes /\ SoHistories /\ (~soRefused => SoAgreed) BY DEF SoInv
<1>2. i \in DOMAIN soVersions /\ SoCopy(y, bytes, lock) BY DEF SoCopyVersion
<1>3. y \in SoEntry /\ bytes \in SoIds /\ (SoAgreed /\ y.content # 0 => bytes = y.content)
  BY <1>1, <1>2, SoVersionBytesIs
<1>4. lock.retention \in SoRetention /\ lock.hold \in BOOLEAN
  <2>1. y.vid \in SoIds BY <1>3 DEF SoEntry
  <2> HIDE DEF y
  <2>2. SoLockOf(y.vid).retention \in SoRetention /\ SoLockOf(y.vid).hold \in BOOLEAN BY <1>1, <2>1, SoLockOfIs
  <2>3. CASE y.vid = 0 BY <2>3, SoConstants
  <2>4. CASE y.vid # 0 BY <2>2, <2>4
  <2> QED BY <2>3, <2>4
<1> HIDE DEF y, bytes, lock
<1>5. y.content # 0 BY <1>2 DEF SoCopy, SoIsMarker
<1>6. y.content \in SoIds BY <1>3 DEF SoEntry
<1> QED BY <1>1, <1>2, <1>3, <1>4, <1>5, <1>6, SoCopyInv

(* Locks let go: those of u, and perhaps of another.                        *)
LEMMA SoUnlockedIs ==
  ASSUME SoShapes, NEW v \in SoIds
  PROVE  /\ SoUnlocked(v) \in [retained : [SoIds -> SoRetention], held : SUBSET SoIds]
         /\ \A u \in SoIds : SoUnlocked(v).retained[u] = IF u = v THEN SoFree ELSE soLocks.retained[u]
         /\ \A u : u \in SoUnlocked(v).held <=> u # v /\ u \in soLocks.held
<1>1. soLocks.retained \in [SoIds -> SoRetention] /\ soLocks.held \subseteq SoIds BY DEF SoShapes
<1> QED BY <1>1, SoConstants DEF SoUnlocked

LEMMA SoErasedIs ==
  ASSUME SoShapes
  PROVE  /\ SoErased \in [data : SoIds, sidecar : SoSidecars, files : [SoIds -> SoIds]]
         /\ SoErased.data = 0 /\ SoErased.sidecar = SoNoSidecar /\ SoErased.files = soDisk.files
BY SoNumbers, SoConstants DEF SoErased, SoShapes

(* A delete marker, or without versioning the end of the object.            *)
LEMMA SoMarkerInv == ASSUME SoInv, SoVersioned, SoDelete PROVE SoInv'
<1> DEFINE v == IF SoEnabled THEN SoNow ELSE 0
           x == [vid |-> v, content |-> 0]
           m == soCount'.writes
<1>0. SoShapes /\ SoHistories /\ (~soRefused => SoAgreed) BY DEF SoInv
<1>1. /\ soVersions' = SoStacked(x) /\ soCurrent' = SoNothing /\ soLocks' = soLocks
      /\ soDisk' = [soDisk EXCEPT !.files = SoDisplaced,
                      !.sidecar = [marker |-> TRUE, vid |-> v, content |-> 0, versions |-> SoStacked(x)]]
      /\ soCount' = [soCount EXCEPT !.writes = IF SoEnabled THEN SoNow ELSE @]
      /\ UNCHANGED <<soBucket, soRefused>>
  BY DEF SoDelete
<1>2. /\ soCount' \in [writes : SoIds, locks : Nat, restarts : Nat] /\ m \in SoIds /\ m \in Nat
      /\ m = (IF SoEnabled THEN SoNow ELSE soCount.writes) /\ soCount.writes <= m /\ v \in SoIds
  <2>1. soCount \in [writes : SoIds, locks : Nat, restarts : Nat] /\ soCount.writes \in Nat
    BY <1>0, SoNumbers DEF SoShapes
  <2>2. CASE SoEnabled
    <3>1. soCount.writes < SoMaxWrites BY <2>2 DEF SoDelete
    <3>2. SoNow \in SoIds /\ SoNow \in Nat /\ soCount.writes < SoNow BY <1>0, <3>1, SoNext1, SoNumbers
    <3>3. m = SoNow /\ v = SoNow /\ soCount' = [soCount EXCEPT !.writes = SoNow] BY <1>1, <2>1, <2>2
    <3> HIDE DEF m, v
    <3> QED BY <2>1, <2>2, <3>2, <3>3
  <2>3. CASE ~SoEnabled
    <3>1. soCount' = soCount /\ v = 0 BY <1>1, <2>1, <2>3
    <3> QED BY <2>1, <2>3, <3>1, SoNumbers
  <2> QED BY <2>2, <2>3
<1>3. x \in SoEntry /\ x.vid = v /\ x.content = 0 BY <1>2, SoNumbers DEF SoEntry
<1> HIDE DEF m
<1>4. SoComes(x, m) BY <1>2, <1>3 DEF SoComes, v
<1> HIDE DEF v, x
<1>5. SoHistory(soVersions', m) /\ soVersions' # <<>> /\ SoNewest(soVersions') = x
  BY <1>0, <1>1, <1>4, SoStackedIs DEF SoHistories
<1>6. soDisk'.sidecar = [marker |-> TRUE, vid |-> v, content |-> 0, versions |-> soVersions']
      /\ soDisk'.files = SoDisplaced
      /\ soDisk' \in [data : SoIds, sidecar : SoSidecars, files : [SoIds -> SoIds]]
  <2>1. soDisk \in [data : SoIds, sidecar : SoSidecars, files : [SoIds -> SoIds]] BY <1>0 DEF SoShapes
  <2>2. soDisk'.sidecar = [marker |-> TRUE, vid |-> v, content |-> 0, versions |-> soVersions']
        /\ soDisk'.files = SoDisplaced
    BY <1>1, <2>1
  <2>3. soDisk'.sidecar \in SoSidecars BY <1>2, <1>5, <2>2, SoNumbers DEF SoSidecars, SoHistory
  <2>4. soDisk'.files \in [SoIds -> SoIds] BY <1>0, <2>2, SoDisplacedIs
  <2>5. soDisk' = [soDisk EXCEPT !.files = soDisk'.files, !.sidecar = soDisk'.sidecar] BY <1>1, <2>2
  <2> QED BY <2>1, <2>2, <2>3, <2>4, <2>5
<1>7. SoShapes' BY <1>0, <1>1, <1>2, <1>5, <1>6, SoConstants DEF SoShapes, SoHistory
<1>8. SoHistories'
  <2>1. SoLocksKept(x.vid) BY <1>0, <1>1 DEF SoLocksKept, SoShapes
  <2>2. \A u \in SoIds \ ({0} \cup SoListed(soVersions')) : soLocks'.retained[u] = SoFree /\ u \notin soLocks'.held
    BY <1>0, <1>1, <1>4, <2>1, SoStackedLocks
  <2>3. soDisk'.sidecar.versions = soVersions' BY <1>6
  <2> QED BY <1>5, <2>2, <2>3 DEF SoHistories, m
<1>9. ASSUME ~soRefused PROVE SoAgreed'
  <2>1. SoAgreed BY <1>0, <1>9
  <2>2. soVersions' # <<>> /\ SoNewest(soVersions)' = x BY <1>5 DEF SoNewest
  <2>3. SoTop'
    <3>1. soBucket'.versioning # "" BY <1>1 DEF SoVersioned
    <3>2. soCurrent'.content = 0 /\ soCurrent'.body = 0 /\ soCurrent' = SoNothing BY <1>1 DEF SoNothing
    <3> QED BY <1>3, <2>2, <3>1, <3>2 DEF SoTop
  <2>4. SoSaved' BY <1>1, <1>3, <1>6, <2>2 DEF SoSaved
  <2>5. SoFiled' BY <1>0, <1>1, <1>2, <1>3, <1>4, <1>6, <2>1, SoDisplacedFiled DEF m
  <2> QED BY <2>3, <2>4, <2>5 DEF SoAgreed
<1> QED BY <1>1, <1>7, <1>8, <1>9 DEF SoInv

(* The object of a key without versions goes.                               *)
LEMMA SoGoneInv ==
  ASSUME SoInv, soCurrent' = SoNothing, soDisk' = SoErased, soLocks' = SoUnlocked(0),
         UNCHANGED <<soBucket, soVersions, soCount, soRefused>>, SoAgreed => soVersions = <<>>
  PROVE  SoInv'
<1>0. SoShapes /\ SoHistories /\ (~soRefused => SoAgreed) BY DEF SoInv
<1>1. /\ soDisk' \in [data : SoIds, sidecar : SoSidecars, files : [SoIds -> SoIds]]
      /\ soDisk'.data = 0 /\ soDisk'.sidecar = SoNoSidecar /\ soDisk'.files = soDisk.files
  BY <1>0, SoErasedIs
<1>2. /\ soLocks' \in [retained : [SoIds -> SoRetention], held : SUBSET SoIds]
      /\ \A u \in SoIds : soLocks'.retained[u] = IF u = 0 THEN SoFree ELSE soLocks.retained[u]
      /\ \A u : u \in soLocks'.held <=> u # 0 /\ u \in soLocks.held
  BY <1>0, SoNumbers, SoUnlockedIs
<1>3. SoShapes' BY <1>0, <1>1, <1>2, SoConstants DEF SoShapes
<1>4. SoHistories'
  <2>1. SoHistory(soDisk'.sidecar.versions, soCount'.writes) BY <1>1, SoConstants, SoNoHistory
  <2> QED BY <1>0, <1>2, <2>1 DEF SoHistories, SoListed
<1>5. ASSUME ~soRefused PROVE SoAgreed'
  <2>1. SoAgreed /\ soVersions' = <<>> /\ soVersions = <<>> BY <1>0, <1>5
  <2>2. SoTop' BY <2>1 DEF SoTop, SoNothing
  <2>3. SoSaved' BY <1>1, <2>1 DEF SoSaved
  <2>4. SoFiled' BY <1>1, <2>1 DEF SoAgreed, SoFiled
  <2> QED BY <2>2, <2>3, <2>4 DEF SoAgreed
<1> QED BY <1>3, <1>4, <1>5 DEF SoInv

LEMMA SoDeleteInv == ASSUME SoInv, SoDelete PROVE SoInv'
<1>1. CASE SoVersioned BY <1>1, SoMarkerInv
<1>2. CASE ~SoVersioned
  <2>1. soCount \in [writes : SoIds, locks : Nat, restarts : Nat] /\ ~SoEnabled
    BY <1>2 DEF SoInv, SoShapes, SoVersioned, SoEnabled
  <2>2. soCount' = soCount BY <2>1 DEF SoDelete
  <2>3. /\ soCurrent' = SoNothing /\ soDisk' = SoErased /\ soLocks' = SoUnlocked(0)
        /\ UNCHANGED <<soBucket, soVersions, soRefused>>
    BY <1>2 DEF SoDelete
  <2>4. SoAgreed => soVersions = <<>> BY <1>2 DEF SoVersioned, SoAgreed, SoTop
  <2> QED BY <2>2, <2>3, <2>4, SoGoneInv
<1> QED BY <1>1, <1>2

(* A version goes: what the newest that is left makes of the key.           *)
LEMMA SoReconciledInv ==
  ASSUME SoInv, NEW v \in SoIds, soVersions' = SoWithout(soVersions, v),
         SoReconciled(soVersions', [soDisk.files EXCEPT ![v] = 0]),
         soLocks' \in [retained : [SoIds -> SoRetention], held : SUBSET SoIds],
         v # 0 => soLocks'.retained[v] = SoFree /\ v \notin soLocks'.held,
         \A u \in SoIds \ {0, v} : soLocks'.retained[u] = soLocks.retained[u] /\ (u \in soLocks'.held => u \in soLocks.held),
         UNCHANGED <<soBucket, soCount, soRefused>>
  PROVE  SoInv'
<1> DEFINE w == soVersions'
           files == [soDisk.files EXCEPT ![v] = 0]
           last == w[Len(w)]
           bytes == SoVersionBytes(last, files)
<1>0. SoShapes /\ SoHistories /\ (~soRefused => SoAgreed) BY DEF SoInv
<1>1. /\ SoHistory(w, soCount.writes)
      /\ \A i \in DOMAIN w : w[i].vid # v /\ \E k \in DOMAIN soVersions : w[i] = soVersions[k]
      /\ \A k \in DOMAIN soVersions : soVersions[k].vid # v => \E i \in DOMAIN w : w[i] = soVersions[k]
      /\ soVersions # <<>> /\ SoNewest(soVersions).vid # v => w # <<>> /\ SoNewest(w) = SoNewest(soVersions)
  BY <1>0, SoWithoutIs DEF SoHistories
<1>2. /\ soDisk.files \in [SoIds -> SoIds] /\ soDisk.data \in SoIds /\ files \in [SoIds -> SoIds]
      /\ \A u \in SoIds : files[u] = IF u = v THEN 0 ELSE soDisk.files[u]
  BY <1>0, SoNumbers DEF SoShapes
<1>3. \A y : SoHas(w, y) => y \in SoEntry /\ y.vid \in SoIds /\ y.content \in SoIds /\ y.vid # v /\ SoHas(soVersions, y)
  <2>1. w \in Seq(SoEntry) BY <1>1 DEF SoHistory
  <2> SUFFICES ASSUME NEW y, SoHas(w, y)
               PROVE  y \in SoEntry /\ y.vid \in SoIds /\ y.content \in SoIds /\ y.vid # v /\ SoHas(soVersions, y)
    OBVIOUS
  <2>2. PICK i \in DOMAIN w : w[i] = y BY DEF SoHas
  <2>3. y.vid # v /\ SoHas(soVersions, y) BY <1>1, <2>2 DEF SoHas
  <2>4. y \in SoEntry BY <2>1, <2>2
  <2> QED BY <2>3, <2>4 DEF SoEntry
<1>4. w # <<>> => SoHas(w, last) /\ last = SoNewest(w)
  <2>1. w \in Seq(SoEntry) BY <1>1 DEF SoHistory
  <2>2. w # <<>> => Len(w) \in DOMAIN w BY <2>1
  <2> QED BY <2>2 DEF SoHas, SoNewest
<1>5. SoBytes(soCurrent) \in SoIds BY <1>0, SoDisplacedIs
<1>6. w = <<>> => soCurrent' = SoNothing /\ soDisk' = [SoErased EXCEPT !.files = files]
  BY DEF SoReconciled
<1>7. w # <<>> =>
        /\ soCurrent' = IF last.content = 0 THEN SoNothing ELSE [vid |-> last.vid, content |-> last.content, body |-> 0]
        /\ soDisk' = [data |-> IF last.content = 0 \/ bytes = 0 THEN soDisk.data ELSE bytes,
                      sidecar |-> [marker |-> SoIsMarker(last), vid |-> last.vid, content |-> last.content, versions |-> w],
                      files |-> files]
  BY DEF SoReconciled, SoIsMarker
<1>8. w # <<>> => bytes \in SoIds BY <1>2, <1>3, <1>4, <1>5, SoNumbers DEF SoVersionBytes
<1> HIDE DEF w, files, last, bytes
<1>9. SoShapes'
  <2>1. soCurrent' \in [vid : SoIds, content : SoIds, body : SoIds]
    <3>1. CASE w = <<>> BY <1>6, <3>1, SoConstants
    <3>2. CASE w # <<>>
      <4>1. last.vid \in SoIds /\ last.content \in SoIds BY <1>3, <1>4, <3>2
      <4> QED BY <1>7, <3>2, <4>1, SoConstants, SoNumbers
    <3> QED BY <3>1, <3>2
  <2>2. soDisk' \in [data : SoIds, sidecar : SoSidecars, files : [SoIds -> SoIds]]
    <3>1. CASE w = <<>> BY <1>0, <1>2, <1>6, <3>1, SoErasedIs
    <3>2. CASE w # <<>>
      <4>1. last.vid \in SoIds /\ last.content \in SoIds BY <1>3, <1>4, <3>2
      <4>2. SoIsMarker(last) \in BOOLEAN BY DEF SoIsMarker
      <4>3. w \in Seq(SoEntry) BY <1>1 DEF SoHistory
      <4>4. soDisk'.sidecar \in SoSidecars /\ soDisk'.data \in SoIds /\ soDisk'.files \in [SoIds -> SoIds]
            /\ soDisk' = [data |-> soDisk'.data, sidecar |-> soDisk'.sidecar, files |-> soDisk'.files]
        BY <1>2, <1>7, <1>8, <3>2, <4>1, <4>2, <4>3 DEF SoSidecars
      <4> QED BY <4>4
    <3> QED BY <3>1, <3>2
  <2>3. soVersions' \in Seq(SoEntry) BY <1>1 DEF SoHistory, w
  <2> QED BY <1>0, <2>1, <2>2, <2>3 DEF SoShapes
<1>10. SoHistories'
  <2>1. SoHistory(soDisk'.sidecar.versions, soCount.writes)
    <3>1. CASE w = <<>>
      <4>1. soDisk'.sidecar = SoNoSidecar BY <1>0, <1>2, <1>6, <3>1, SoErasedIs
      <4> QED BY <4>1, SoConstants, SoNoHistory
    <3>2. CASE w # <<>> BY <1>1, <1>7, <3>2
    <3> QED BY <3>1, <3>2
  <2>2. \A u \in SoIds \ ({0} \cup SoListed(w)) : soLocks'.retained[u] = SoFree /\ u \notin soLocks'.held
    <3> SUFFICES ASSUME NEW u \in SoIds, u # 0, u # v, u \notin SoListed(w)
                 PROVE  soLocks'.retained[u] = SoFree /\ u \notin soLocks'.held
      OBVIOUS
    <3>1. u \notin SoListed(soVersions)
      <4> SUFFICES ASSUME NEW k \in DOMAIN soVersions, soVersions[k].vid = u PROVE FALSE BY DEF SoListed
      <4>1. \E i \in DOMAIN w : w[i] = soVersions[k] BY <1>1
      <4> QED BY <4>1 DEF SoListed
    <3> QED BY <1>0, <3>1 DEF SoHistories
  <2> QED BY <1>1, <2>1, <2>2 DEF SoHistories, w
<1>11. ASSUME ~soRefused PROVE SoAgreed'
  <2>0. SoAgreed BY <1>0, <1>11
  <2>1. \A y : SoHas(w, y) /\ y.content # 0 => SoFiledAs(y) BY <1>3, <2>0, SoFiledIs DEF SoAgreed
  (* Of what is left, only the newest is read through the current record.   *)
  <2>2. \A y : SoHas(w, y) /\ soCurrent # SoNothing /\ soCurrent.vid = y.vid => w # <<>> /\ last = SoNewest(soVersions) /\ last.vid = y.vid
    <3> SUFFICES ASSUME NEW y, SoHas(w, y), soCurrent # SoNothing, soCurrent.vid = y.vid
                 PROVE  w # <<>> /\ last = SoNewest(soVersions) /\ last.vid = y.vid
      OBVIOUS
    <3>1. SoHas(soVersions, y) /\ y.vid # v BY <1>3
    <3>2. soVersions # <<>> BY <3>1, SoNoEntries DEF SoHas
    <3>3. SoNewest(soVersions).vid = y.vid BY <2>0, <3>2 DEF SoAgreed, SoTop
    <3> QED BY <1>1, <1>4, <3>1, <3>2, <3>3
  <2>3. w # <<>> /\ last.content # 0 => bytes = last.content
    <3> SUFFICES ASSUME w # <<>>, last.content # 0 PROVE bytes = last.content OBVIOUS
    <3>1. SoHas(w, last) /\ last.vid \in SoIds /\ last.vid # v /\ SoHas(soVersions, last) BY <1>3, <1>4
    <3>2. SoFiledAs(last) /\ files[last.vid] = soDisk.files[last.vid] BY <1>2, <2>1, <3>1
    <3>3. soCurrent # SoNothing /\ soCurrent.vid = last.vid => SoBytes(soCurrent) = last.content
      BY <1>0, <2>0, <3>1, SoTopIs
    <3> QED BY <3>2, <3>3 DEF SoFiledAs, SoVersionBytes, bytes
  <2>4. SoTop'
    <3>1. soBucket'.versioning = "" => w = <<>>
      <4>1. soBucket'.versioning = "" => soVersions = <<>> BY <2>0 DEF SoAgreed, SoTop
      <4>2. w # <<>> => soVersions # <<>> BY <1>3, <1>4, SoNoEntries DEF SoHas
      <4> QED BY <4>1, <4>2
    <3>2. CASE w = <<>> BY <1>6, <3>1, <3>2 DEF SoTop, SoNothing, w
    <3>3. CASE w # <<>>
      <4>1. SoNewest(soVersions)' = last BY <1>4, <3>3 DEF w, SoNewest
      <4>2. CASE last.content = 0
        <5>1. soCurrent' = SoNothing /\ soCurrent'.content = 0 /\ soCurrent'.body = 0
          BY <1>7, <3>3, <4>2 DEF SoNothing
        <5> QED BY <3>1, <3>3, <4>1, <4>2, <5>1 DEF SoTop, w
      <4>3. CASE last.content # 0
        <5>1. soCurrent'.vid = last.vid /\ soCurrent'.content = last.content /\ soCurrent'.body = 0
          BY <1>7, <3>3, <4>3
        <5> QED BY <3>1, <3>3, <4>1, <4>3, <5>1 DEF SoTop, w
      <4> QED BY <4>2, <4>3
    <3> QED BY <3>2, <3>3
  <2>5. SoSaved'
    <3>1. CASE w = <<>>
      <4>1. soDisk'.sidecar = SoNoSidecar /\ soDisk'.data = 0 BY <1>0, <1>2, <1>6, <3>1, SoErasedIs
      <4> QED BY <1>6, <3>1, <4>1 DEF SoSaved, w
    <3>2. CASE w # <<>>
      <4>1. SoNewest(soVersions)' = last BY <1>4, <3>2 DEF w, SoNewest
      <4>2. CASE last.content = 0
        <5>1. SoIsMarker(last) = TRUE BY <4>2 DEF SoIsMarker
        <5>2. soCurrent' = SoNothing BY <1>7, <3>2, <4>2
        <5>3. soDisk'.sidecar = [marker |-> TRUE, vid |-> last.vid, content |-> 0, versions |-> w]
          <6>1. soDisk'.sidecar = [marker |-> SoIsMarker(last), vid |-> last.vid, content |-> last.content, versions |-> w]
            BY <1>7, <3>2
          <6> QED BY <4>2, <5>1, <6>1
        <5> QED BY <3>2, <4>1, <5>2, <5>3 DEF SoSaved, w
      <4>3. CASE last.content # 0
        <5>1. soCurrent' # SoNothing BY <1>7, <3>2, <4>3 DEF SoNothing
        <5>2. soDisk'.data = last.content BY <1>7, <2>3, <3>2, <4>3
        <5>3. SoIsMarker(last) = FALSE BY <4>3 DEF SoIsMarker
        <5>4. /\ soDisk'.sidecar = [marker |-> FALSE, vid |-> last.vid, content |-> last.content, versions |-> w]
              /\ soCurrent'.vid = last.vid /\ soCurrent'.content = last.content
          BY <1>7, <3>2, <4>3, <5>3
        <5> QED BY <5>1, <5>2, <5>4 DEF SoSaved, w
      <4> QED BY <4>2, <4>3
    <3> QED BY <3>1, <3>2
  <2>6. soDisk'.files = files
    <3>1. CASE w = <<>> BY <1>0, <1>6, <3>1, SoErasedIs
    <3>2. CASE w # <<>> BY <1>7, <3>2
    <3> QED BY <3>1, <3>2
  <2>7. \A u \in SoIds : u > soCount'.writes => soDisk'.files[u] = 0 BY <1>2, <2>0, <2>6 DEF SoAgreed, SoFiled
  <2>8. ASSUME NEW y, SoHas(w, y), y.content # 0 PROVE SoFiledAs(y)'
    <3>1. SoFiledAs(y) /\ y.vid \in SoIds /\ y.vid # v /\ soDisk'.files[y.vid] = soDisk.files[y.vid]
      BY <1>2, <1>3, <2>1, <2>6, <2>8
    <3>2. CASE soDisk.files[y.vid] = y.content BY <3>1, <3>2 DEF SoFiledAs
    <3>3. CASE soDisk.files[y.vid] = 0 /\ soCurrent # SoNothing /\ soCurrent.vid = y.vid
      <4>1. w # <<>> /\ last = SoNewest(soVersions) /\ last.vid = y.vid BY <2>2, <2>8, <3>3
      <4>2. last.content = soCurrent.content /\ soCurrent.content # 0
        <5>1. soVersions # <<>> BY <1>3, <2>8, SoNoEntries DEF SoHas
        <5> QED BY <2>0, <3>3, <4>1, <5>1 DEF SoAgreed, SoTop
      <4>3. soCurrent' # SoNothing /\ soCurrent'.vid = y.vid BY <1>7, <4>1, <4>2 DEF SoNothing
      <4> QED BY <3>1, <3>3, <4>3 DEF SoFiledAs
    <3> QED BY <3>1, <3>2, <3>3 DEF SoFiledAs
  <2>9. SoFiled' <=> /\ \A u \in SoIds : u > soCount'.writes => soDisk'.files[u] = 0
                     /\ \A y : SoHas(soVersions', y) /\ y.content # 0 => SoFiledAs(y)'
    BY DEF SoFiled, SoHas, SoFiledAs, SoIsMarker
  <2>10. SoFiled' BY <2>7, <2>8, <2>9 DEF w
  <2> QED BY <2>4, <2>5, <2>10 DEF SoAgreed
<1> QED BY <1>9, <1>10, <1>11 DEF SoInv

LEMMA SoDeleteVersionInv ==
  ASSUME SoInv, NEW v \in SoIds, NEW bypass \in BOOLEAN, SoDeleteVersion(v, bypass)
  PROVE  SoInv'
<1>0. SoShapes /\ SoHistories BY DEF SoInv
<1>1. CASE v \in SoListed(soVersions)
  <2> DEFINE both == [retained |-> [soLocks.retained EXCEPT ![v] = SoFree, ![0] = SoFree], held |-> soLocks.held \ {v, 0}]
  <2>1. /\ soVersions' = SoWithout(soVersions, v) /\ SoReconciled(soVersions', [soDisk.files EXCEPT ![v] = 0])
        /\ UNCHANGED <<soBucket, soCount, soRefused>>
        /\ soLocks' = SoUnlocked(v) \/ (v = 0 /\ soLocks' = soLocks) \/ soLocks' = both
    BY <1>1 DEF SoDeleteVersion
  <2> HIDE DEF both
  <2>2. /\ soLocks' \in [retained : [SoIds -> SoRetention], held : SUBSET SoIds]
        /\ v # 0 => soLocks'.retained[v] = SoFree /\ v \notin soLocks'.held
        /\ \A u \in SoIds \ {0, v} :
             soLocks'.retained[u] = soLocks.retained[u] /\ (u \in soLocks'.held => u \in soLocks.held)
    <3>1. CASE soLocks' = SoUnlocked(v) BY <1>0, <3>1, SoUnlockedIs
    <3>2. CASE v = 0 /\ soLocks' = soLocks BY <1>0, <3>2 DEF SoShapes
    <3>3. CASE soLocks' = both
      <4>1. soLocks.retained \in [SoIds -> SoRetention] /\ soLocks.held \subseteq SoIds BY <1>0 DEF SoShapes
      <4> QED BY <3>3, <4>1, SoConstants, SoNumbers DEF both
    <3> QED BY <2>1, <3>1, <3>2, <3>3
  <2> QED BY <2>1, <2>2, SoReconciledInv
<1>2. CASE v \notin SoListed(soVersions)
  <2>1. /\ v = 0 /\ soCurrent # SoNothing /\ soCurrent.vid = 0
        /\ soCurrent' = SoNothing /\ soDisk' = SoErased /\ soLocks' = SoUnlocked(0)
        /\ UNCHANGED <<soBucket, soVersions, soCount, soRefused>>
    BY <1>2 DEF SoDeleteVersion
  <2>2. SoAgreed => soVersions = <<>>
    <3> SUFFICES ASSUME SoAgreed, soVersions # <<>> PROVE FALSE OBVIOUS
    <3>1. SoHas(soVersions, SoNewest(soVersions)) BY <1>0, SoTopIs
    <3>2. SoNewest(soVersions).vid = 0 BY <2>1 DEF SoAgreed, SoTop
    <3> QED BY <1>2, <2>1, <3>1, <3>2 DEF SoHas, SoListed
  <2> QED BY <2>1, <2>2, SoGoneInv
<1> QED BY <1>1, <1>2

-----------------------------------------------------------------------------
(* Only the locks of an id that may be locked change.                       *)
LEMMA SoLocksOnly ==
  ASSUME SoInv, NEW v \in SoIds, v \in SoListed(soVersions) \cup {0}, SoLocksKept(v),
         soCount' \in [writes : SoIds, locks : Nat, restarts : Nat], soCount'.writes = soCount.writes,
         UNCHANGED <<soBucket, soCurrent, soVersions, soDisk, soRefused>>
  PROVE  SoInv'
<1>0. SoShapes /\ SoHistories /\ (~soRefused => SoAgreed) BY DEF SoInv
<1>1. SoShapes' BY <1>0 DEF SoShapes, SoLocksKept
<1>2. SoHistories' BY <1>0 DEF SoHistories, SoLocksKept, SoListed
<1>3. SoAgreed => SoAgreed'
  <2>1. SoTop => SoTop' BY DEF SoTop, SoNewest
  <2>2. SoSaved => SoSaved' BY DEF SoSaved, SoNewest
  <2>3. SoFiled => SoFiled' BY DEF SoFiled, SoIsMarker
  <2> QED BY <2>1, <2>2, <2>3 DEF SoAgreed
<1> QED BY <1>0, <1>1, <1>2, <1>3 DEF SoInv

LEMMA SoBucketInv ==
  ASSUME SoInv, soBucket' \in [versioning : {"", "Enabled", "Suspended"}, lockable : BOOLEAN],
         soBucket'.versioning = "" => soBucket.versioning = "",
         UNCHANGED <<soCurrent, soVersions, soDisk, soLocks, soCount, soRefused>>
  PROVE  SoInv'
<1>0. SoShapes /\ SoHistories /\ (~soRefused => SoAgreed) BY DEF SoInv
<1>1. SoShapes' BY <1>0 DEF SoShapes
<1>2. SoHistories' BY <1>0 DEF SoHistories, SoListed
<1>3. SoAgreed => SoAgreed'
  <2>1. SoTop => SoTop' BY DEF SoTop, SoNewest
  <2>2. SoSaved => SoSaved' BY DEF SoSaved, SoNewest
  <2>3. SoFiled => SoFiled' BY DEF SoFiled, SoIsMarker
  <2> QED BY <2>1, <2>2, <2>3 DEF SoAgreed
<1> QED BY <1>0, <1>1, <1>2, <1>3 DEF SoInv

LEMMA SoSetVersioningInv ==
  ASSUME SoInv, NEW status \in {"Enabled", "Suspended"}, SoSetVersioning(status) PROVE SoInv'
<1>1. soBucket \in [versioning : {"", "Enabled", "Suspended"}, lockable : BOOLEAN] BY DEF SoInv, SoShapes
<1>2. /\ soBucket' \in [versioning : {"", "Enabled", "Suspended"}, lockable : BOOLEAN]
      /\ soBucket'.versioning # ""
      /\ UNCHANGED <<soCurrent, soVersions, soDisk, soLocks, soCount, soRefused>>
  BY <1>1 DEF SoSetVersioning
<1> QED BY <1>2, SoBucketInv

LEMMA SoSetLockableInv == ASSUME SoInv, SoSetLockable PROVE SoInv'
<1>1. soBucket \in [versioning : {"", "Enabled", "Suspended"}, lockable : BOOLEAN] BY DEF SoInv, SoShapes
<1>2. /\ soBucket' \in [versioning : {"", "Enabled", "Suspended"}, lockable : BOOLEAN]
      /\ soBucket'.versioning = soBucket.versioning
      /\ UNCHANGED <<soCurrent, soVersions, soDisk, soLocks, soCount, soRefused>>
  BY <1>1 DEF SoSetLockable
<1> QED BY <1>2, SoBucketInv

LEMMA SoPutRetentionInv ==
  ASSUME SoInv, NEW v \in SoIds, NEW mode \in SoModes, NEW live \in BOOLEAN, NEW bypass \in BOOLEAN,
         SoPutRetention(v, mode, live, bypass)
  PROVE  SoInv'
<1>1. /\ soLocks \in [retained : [SoIds -> SoRetention], held : SUBSET SoIds]
      /\ soCount \in [writes : SoIds, locks : Nat, restarts : Nat]
  BY DEF SoInv, SoShapes
<1>2. [mode |-> mode, live |-> live] \in SoRetention BY DEF SoRetention
<1>3. SoLocksKept(v) BY <1>1, <1>2 DEF SoPutRetention, SoLocksKept
<1>4. /\ soCount' \in [writes : SoIds, locks : Nat, restarts : Nat] /\ soCount'.writes = soCount.writes
      /\ UNCHANGED <<soBucket, soCurrent, soVersions, soDisk, soRefused>>
      /\ v \in SoListed(soVersions) \cup {0}
  BY <1>1 DEF SoPutRetention
<1> QED BY <1>3, <1>4, SoLocksOnly

LEMMA SoPutHoldInv ==
  ASSUME SoInv, NEW v \in SoIds, NEW on \in BOOLEAN, SoPutHold(v, on)
  PROVE  SoInv'
<1>1. /\ soLocks \in [retained : [SoIds -> SoRetention], held : SUBSET SoIds]
      /\ soCount \in [writes : SoIds, locks : Nat, restarts : Nat]
  BY DEF SoInv, SoShapes
<1>2. PICK held \in {soLocks.held \cup {v}, soLocks.held \ {v}} : soLocks' = [soLocks EXCEPT !.held = held]
  BY DEF SoPutHold
<1>3. SoLocksKept(v) BY <1>1, <1>2 DEF SoLocksKept
<1>4. /\ soCount' \in [writes : SoIds, locks : Nat, restarts : Nat] /\ soCount'.writes = soCount.writes
      /\ UNCHANGED <<soBucket, soCurrent, soVersions, soDisk, soRefused>>
      /\ v \in SoListed(soVersions) \cup {0}
  BY <1>1 DEF SoPutHold
<1> QED BY <1>3, <1>4, SoLocksOnly

LEMMA SoExpireInv == ASSUME SoInv, NEW v \in SoIds, SoExpire(v) PROVE SoInv'
<1>1. /\ soLocks \in [retained : [SoIds -> SoRetention], held : SUBSET SoIds]
      /\ soCount \in [writes : SoIds, locks : Nat, restarts : Nat]
  BY DEF SoInv, SoShapes
<1>2. v \in SoListed(soVersions) \cup {0} BY DEF SoInv, SoHistories, SoExpire, SoFree
<1>3. SoLocksKept(v) BY <1>1 DEF SoExpire, SoLocksKept, SoRetention
<1>4. UNCHANGED <<soBucket, soCurrent, soVersions, soDisk, soCount, soRefused>> BY DEF SoExpire
<1> QED BY <1>1, <1>2, <1>3, <1>4, SoLocksOnly

(* What the disk gives back is what was there.                              *)
LEMMA SoLoadedSame ==
  ASSUME SoInv, ~soRefused
  PROVE  SoLoaded = [current |-> soCurrent, versions |-> soVersions]
<1> DEFINE hidden == soDisk.sidecar.marker \/ soDisk.data = 0
           known == IF soDisk.data = 0 /\ ~soDisk.sidecar.marker THEN <<>> ELSE soDisk.sidecar.versions
           there(y) == SoIsMarker(y) \/ (~hidden /\ y.vid = soDisk.sidecar.vid) \/ soDisk.files[y.vid] # 0
           K == {i \in DOMAIN known : there(known[i])}
<1>0. SoShapes /\ SoHistories /\ SoAgreed BY DEF SoInv
<1>1. SoLoaded = [current |-> IF hidden THEN SoNothing
                              ELSE [vid |-> soDisk.sidecar.vid, content |-> soDisk.sidecar.content, body |-> 0],
                  versions |-> Picked(known, K)]
  BY DEF SoLoaded
<1>2. known = soVersions /\ (hidden <=> soCurrent = SoNothing)
  <2>1. CASE soCurrent # SoNothing
    <3>1. soDisk.data # 0 BY <1>0, <2>1, SoTopIs DEF SoAgreed, SoSaved
    <3>2. soDisk.sidecar.marker = FALSE /\ soDisk.sidecar.versions = soVersions
      BY <1>0, <2>1 DEF SoAgreed, SoSaved
    <3> QED BY <2>1, <3>1, <3>2
  <2>2. CASE soCurrent = SoNothing /\ soVersions = <<>> BY <1>0, <2>2 DEF SoAgreed, SoSaved, SoNoSidecar
  <2>3. CASE soCurrent = SoNothing /\ soVersions # <<>>
    <3>1. soDisk.sidecar.marker = TRUE /\ soDisk.sidecar.versions = soVersions
      BY <1>0, <2>3 DEF SoAgreed, SoSaved
    <3> QED BY <2>3, <3>1
  <2> QED BY <2>1, <2>2, <2>3
<1>3. ASSUME NEW i \in DOMAIN soVersions PROVE there(soVersions[i])
  <2>1. CASE SoIsMarker(soVersions[i]) BY <2>1
  <2>2. CASE ~SoIsMarker(soVersions[i])
    <3>1. \/ soDisk.files[soVersions[i].vid] = soVersions[i].content
          \/ soDisk.files[soVersions[i].vid] = 0 /\ soCurrent # SoNothing /\ soCurrent.vid = soVersions[i].vid
      BY <1>0, <2>2 DEF SoAgreed, SoFiled
    <3>2. CASE soDisk.files[soVersions[i].vid] # 0 BY <3>2
    <3>3. CASE soCurrent # SoNothing /\ soCurrent.vid = soVersions[i].vid
      <4>1. soDisk.sidecar.vid = soCurrent.vid BY <1>0, <3>3 DEF SoAgreed, SoSaved
      <4> QED BY <1>2, <3>3, <4>1
    <3> QED BY <2>2, <3>1, <3>2, <3>3 DEF SoIsMarker
  <2> QED BY <2>1, <2>2
<1>4. Picked(known, K) = soVersions
  <2>1. K = DOMAIN soVersions BY <1>2, <1>3
  <2>2. soVersions \in Seq(SoEntry) BY <1>0 DEF SoShapes
  <2> HIDE DEF known, K
  <2> QED BY <1>2, <2>1, <2>2, PickedAll
<1> HIDE DEF known, K
<1>5. soCurrent # SoNothing =>
        soCurrent = [vid |-> soDisk.sidecar.vid, content |-> soDisk.sidecar.content, body |-> 0]
  <2> SUFFICES ASSUME soCurrent # SoNothing
               PROVE  soCurrent = [vid |-> soDisk.sidecar.vid, content |-> soDisk.sidecar.content, body |-> 0]
    OBVIOUS
  <2>1. soDisk.sidecar.vid = soCurrent.vid /\ soDisk.sidecar.content = soCurrent.content /\ soCurrent.body = 0
    <3>1. SoSaved /\ SoTop BY <1>0 DEF SoAgreed
    <3>2. soDisk.sidecar.vid = soCurrent.vid /\ soDisk.sidecar.content = soCurrent.content BY <3>1 DEF SoSaved
    <3>3. soCurrent.body = 0 BY <3>1 DEF SoTop
    <3> QED BY <3>2, <3>3
  <2>2. soCurrent \in [vid : SoIds, content : SoIds, body : SoIds] BY <1>0 DEF SoShapes
  <2> QED BY <2>1, <2>2
<1> HIDE DEF hidden
<1> QED BY <1>1, <1>2, <1>4, <1>5

LEMMA SoLoadedIs ==
  ASSUME SoInv
  PROVE  /\ SoLoaded.current \in [vid : SoIds, content : SoIds, body : SoIds]
         /\ SoHistory(SoLoaded.versions, soCount.writes)
<1> DEFINE known == IF soDisk.data = 0 /\ ~soDisk.sidecar.marker THEN <<>> ELSE soDisk.sidecar.versions
<1>0. SoShapes /\ SoHistories BY DEF SoInv
<1>1. /\ soDisk.sidecar.vid \in SoIds /\ soDisk.sidecar.content \in SoIds
      /\ SoHistory(soDisk.sidecar.versions, soCount.writes)
  BY <1>0 DEF SoShapes, SoSidecars, SoHistories
<1>2. SoLoaded.current \in {SoNothing, [vid |-> soDisk.sidecar.vid, content |-> soDisk.sidecar.content, body |-> 0]}
  BY DEF SoLoaded
<1>3. SoLoaded.current \in [vid : SoIds, content : SoIds, body : SoIds] BY <1>1, <1>2, SoConstants, SoNumbers
<1>4. SoHistory(known, soCount.writes) BY <1>1, SoNoHistory
<1>5. \E K \in SUBSET DOMAIN known : SoLoaded.versions = Picked(known, K) BY DEF SoLoaded
<1> HIDE DEF known
<1> QED BY <1>3, <1>4, <1>5, SoPickedIs

LEMMA SoRestartInv == ASSUME SoInv, SoRestart PROVE SoInv'
<1>0. SoShapes /\ SoHistories /\ (~soRefused => SoAgreed) BY DEF SoInv
<1>1. /\ soCurrent' = SoLoaded.current /\ soVersions' = SoLoaded.versions
      /\ soLocks' = [retained |-> [v \in SoIds |-> SoFree], held |-> {}]
      /\ UNCHANGED <<soBucket, soDisk, soRefused>>
  BY DEF SoRestart
<1>2. soCount' \in [writes : SoIds, locks : Nat, restarts : Nat] /\ soCount'.writes = soCount.writes
  <2>1. soCount \in [writes : SoIds, locks : Nat, restarts : Nat] BY <1>0 DEF SoShapes
  <2>2. soCount' = [soCount EXCEPT !.restarts = @ + 1] BY DEF SoRestart
  <2> QED BY <2>1, <2>2
<1>3. /\ soCurrent' \in [vid : SoIds, content : SoIds, body : SoIds] /\ SoHistory(soVersions', soCount.writes)
  BY <1>1, SoLoadedIs
<1>4. soLocks' \in [retained : [SoIds -> SoRetention], held : SUBSET SoIds] BY <1>1, SoConstants
<1>5. SoShapes' BY <1>0, <1>1, <1>2, <1>3, <1>4 DEF SoShapes, SoHistory
<1>6. SoHistories' BY <1>0, <1>1, <1>2, <1>3 DEF SoHistories
<1>7. ASSUME ~soRefused PROVE SoAgreed'
  <2>1. soCurrent' = soCurrent /\ soVersions' = soVersions BY <1>1, <1>7, SoLoadedSame
  <2>2. SoTop' BY <1>0, <1>1, <1>7, <2>1 DEF SoAgreed, SoTop, SoNewest
  <2>3. SoSaved' BY <1>0, <1>1, <1>7, <2>1 DEF SoAgreed, SoSaved, SoNewest
  <2>4. SoFiled' BY <1>0, <1>1, <1>2, <1>7, <2>1 DEF SoAgreed, SoFiled, SoIsMarker
  <2> QED BY <2>2, <2>3, <2>4 DEF SoAgreed
<1> QED BY <1>1, <1>5, <1>6, <1>7 DEF SoInv

LEMMA SoStepInv == ASSUME SoInv, [SoNext]_soVars PROVE SoInv'
<1>1. CASE \E mode \in SoModes \cup {"none"}, hold \in BOOLEAN : SoPut(mode, hold) BY <1>1, SoPutInv
<1>2. CASE SoPutRefused BY <1>2, SoPutRefusedInv
<1>3. CASE SoCopyCurrent BY <1>3, SoCopyCurrentInv
<1>4. CASE SoDelete BY <1>4, SoDeleteInv
<1>5. CASE SoSetLockable BY <1>5, SoSetLockableInv
<1>6. CASE SoRestart BY <1>6, SoRestartInv
<1>7. CASE \E i \in 1..Len(soVersions) : SoCopyVersion(i) BY <1>7, SoCopyVersionInv
<1>8. CASE \E status \in {"Enabled", "Suspended"} : SoSetVersioning(status) BY <1>8, SoSetVersioningInv
<1>9. CASE \E v \in SoIds, bypass \in BOOLEAN :
             \/ SoDeleteVersion(v, bypass) \/ SoExpire(v) \/ SoPutHold(v, bypass)
             \/ \E mode \in SoModes, live \in BOOLEAN : SoPutRetention(v, mode, live, bypass)
  <2> PICK v \in SoIds, bypass \in BOOLEAN :
             \/ SoDeleteVersion(v, bypass) \/ SoExpire(v) \/ SoPutHold(v, bypass)
             \/ \E mode \in SoModes, live \in BOOLEAN : SoPutRetention(v, mode, live, bypass)
    BY <1>9
  <2> QED BY SoDeleteVersionInv, SoExpireInv, SoPutHoldInv, SoPutRetentionInv
<1>10. CASE UNCHANGED soVars
  <2>1. UNCHANGED <<soBucket, soCurrent, soVersions, soDisk, soLocks, soCount, soRefused>> BY <1>10 DEF soVars
  <2>2. soBucket' \in [versioning : {"", "Enabled", "Suspended"}, lockable : BOOLEAN]
    BY <2>1 DEF SoInv, SoShapes
  <2> QED BY <2>1, <2>2, SoBucketInv
<1> QED BY <1>1, <1>2, <1>3, <1>4, <1>5, <1>6, <1>7, <1>8, <1>9, <1>10 DEF SoNext

LEMMA SoInvSays == ASSUME SoInv PROVE SoStoresAgree
<1>0. SoShapes /\ SoHistories /\ (~soRefused => SoAgreed) BY DEF SoInv
<1>1. SoTypeOK
  <2>1. {soCurrent.vid, soCurrent.content, soCurrent.body, soDisk.data} \subseteq SoIds /\ soDisk.files \in [SoIds -> SoIds]
    BY <1>0 DEF SoShapes
  <2>2. soBucket.versioning \in {"", "Enabled", "Suspended"} /\ soBucket.lockable \in BOOLEAN BY <1>0 DEF SoShapes
  <2> QED BY <1>0, <2>1, <2>2 DEF SoTypeOK, SoHistories, SoHistory
<1>2. SoViewsAgree
  <2> SUFFICES ASSUME ~soRefused
               PROVE  /\ soVersions # <<>> =>
                           LET last == soVersions[Len(soVersions)] IN
                           IF SoIsMarker(last) THEN soCurrent = SoNothing
                           ELSE soCurrent # SoNothing /\ soCurrent.vid = last.vid /\ soCurrent.content = last.content
                      /\ soCurrent # SoNothing => SoBytes(soCurrent) = soCurrent.content
                      /\ \A i \in DOMAIN soVersions : ~SoIsMarker(soVersions[i]) =>
                           SoVersionBytes(soVersions[i], soDisk.files) = soVersions[i].content
    BY DEF SoViewsAgree
  <2>1. SoAgreed /\ SoTop BY <1>0 DEF SoAgreed
  <2>2. soVersions # <<>> =>
          LET last == soVersions[Len(soVersions)] IN
          IF SoIsMarker(last) THEN soCurrent = SoNothing
          ELSE soCurrent # SoNothing /\ soCurrent.vid = last.vid /\ soCurrent.content = last.content
    <3> DEFINE last == soVersions[Len(soVersions)]
    <3>1. soVersions # <<>> => last.content = soCurrent.content /\ (soCurrent # SoNothing => last.vid = soCurrent.vid)
      BY <2>1 DEF SoTop, SoNewest
    <3>2. (soCurrent.content = 0 => soCurrent = SoNothing) /\ (soCurrent = SoNothing => soCurrent.content = 0)
      <4>1. soCurrent.content = 0 => soCurrent = SoNothing BY <2>1 DEF SoTop
      <4>2. SoNothing.content = 0 BY DEF SoNothing
      <4> QED BY <4>1, <4>2
    <3>3. SoIsMarker(last) <=> last.content = 0 BY DEF SoIsMarker
    <3> HIDE DEF last
    <3>4. soVersions # <<>> => IF SoIsMarker(last) THEN soCurrent = SoNothing
                               ELSE soCurrent # SoNothing /\ soCurrent.vid = last.vid /\ soCurrent.content = last.content
      BY <3>1, <3>2, <3>3
    <3> QED BY <3>4 DEF last
  <2>3. soCurrent # SoNothing => SoBytes(soCurrent) = soCurrent.content BY <1>0, <2>1, SoTopIs
  <2>4. \A i \in DOMAIN soVersions : ~SoIsMarker(soVersions[i]) =>
          SoVersionBytes(soVersions[i], soDisk.files) = soVersions[i].content
    BY <1>0, <2>1, SoVersionBytesIs DEF SoIsMarker
  <2> QED BY <2>2, <2>3, <2>4
<1>3. SoSurvives BY SoLoadedSame DEF SoSurvives
<1> QED BY <1>1, <1>2, <1>3 DEF SoStoresAgree

(* The record that reads use, the history, the data file, the sidecar and   *)
(* the version files of a key tell one story after any sequence of writes,  *)
(* copies, deletes, restores, switches of versioning and restarts, and the  *)
(* disk alone gives back what clients saw (s3.py:6064, 9512).               *)
THEOREM StoresAgree == SoSpec => []SoStoresAgree
<1>1. SoInit => SoInv BY SoInitInv
<1>2. SoInv /\ [SoNext]_soVars => SoInv' BY SoStepInv
<1>3. SoInv => SoStoresAgree BY SoInvSays
<1> QED BY <1>1, <1>2, <1>3, PTL DEF SoSpec

-----------------------------------------------------------------------------
(* What an entry on top keeps, enabled: everything that could be read.      *)
SoContents == {soVersions[i].content : i \in DOMAIN soVersions} \cup {soCurrent.content}
LEMMA SoStackedKeeps ==
  ASSUME SoShapes, SoHistories, SoAgreed, SoEnabled, NEW x, NEW m, SoComes(x, m), soVersions' = SoStacked(x)
  PROVE  SoContents \ {0} \subseteq {soVersions'[i].content : i \in DOMAIN soVersions'}
<1> SUFFICES ASSUME NEW c \in SoContents, c # 0 PROVE \E y : SoHas(soVersions', y) /\ y.content = c
  BY DEF SoHas
<1>1. /\ \A y : SoStays(y) => SoHas(soVersions', y)
      /\ SoUnlisted => SoHas(soVersions', SoPreserved)
  BY SoStackedIs DEF SoHistories
<1>2. \A y : SoHas(soVersions, y) => SoHas(soVersions', y) BY <1>1 DEF SoHas, SoStays
<1>3. CASE \E i \in DOMAIN soVersions : c = soVersions[i].content BY <1>2, <1>3 DEF SoHas
<1>4. CASE c = soCurrent.content
  <2>1. CASE soVersions # <<>>
    <3>1. SoHas(soVersions, SoNewest(soVersions)) BY <2>1, SoTopIs
    <3>2. SoNewest(soVersions).content = c BY <1>4, <2>1 DEF SoAgreed, SoTop
    <3> QED BY <1>2, <3>1, <3>2
  <2>2. CASE soVersions = <<>>
    <3>1. soCurrent # SoNothing /\ soCurrent.vid = 0 BY <1>4, <2>2 DEF SoAgreed, SoTop, SoNothing
    <3>2. 0 \notin SoListed(soVersions) BY <2>2, SoNoEntries DEF SoListed
    <3>3. SoUnlisted BY <3>1, <3>2 DEF SoUnlisted
    <3> QED BY <1>1, <1>4, <3>3 DEF SoPreserved
  <2> QED BY <2>1, <2>2
<1> QED BY <1>3, <1>4 DEF SoContents

(* A write or a marker stacks an entry, if anything at all.                 *)
LEMMA SoWriteStacks ==
  ASSUME SoShapes, NEW content \in SoIds, NEW bytes, SoWrite(content, bytes)
  PROVE  /\ SoNow \in SoIds /\ SoNow # 0 /\ soCount.writes < SoNow
         /\ ~SoVersioned => soVersions' = soVersions
         /\ SoVersioned => \E x, m : SoComes(x, m) /\ soVersions' = SoStacked(x)
<1>1. SoNow \in SoIds /\ SoNow # 0 /\ soCount.writes < SoNow /\ soCount.writes \in SoIds
  BY SoNext1 DEF SoWrite
<1>2. SoNow \in Nat /\ soCount.writes \in Nat BY <1>1, SoNumbers
<1> DEFINE v == IF SoEnabled THEN SoNow ELSE 0
           x == [vid |-> v, content |-> content]
<1>3. soVersions' = IF SoVersioned THEN SoStacked(x) ELSE soVersions BY DEF SoWrite
<1>4. x \in SoEntry /\ x.vid = v BY <1>1, SoNumbers DEF SoEntry
<1> HIDE DEF x
<1>5. soCount.writes <= SoNow BY <1>1, <1>2 DEF SoNow
<1>6. SoComes(x, SoNow) BY <1>2, <1>4, <1>5 DEF SoComes
<1> QED BY <1>1, <1>3, <1>6

LEMMA SoMarkerStacks ==
  ASSUME SoShapes, SoDelete
  PROVE  /\ ~SoVersioned => soVersions' = soVersions /\ soLocks' = SoUnlocked(0)
         /\ SoVersioned => /\ \E x, m : SoComes(x, m) /\ soVersions' = SoStacked(x)
                           /\ soLocks' = soLocks
<1>1. soCount.writes \in SoIds /\ soCount.writes \in Nat BY SoNumbers DEF SoShapes
<1>2. SoEnabled => SoNow \in SoIds /\ SoNow \in Nat /\ soCount.writes < SoNow BY SoNext1, SoNumbers DEF SoDelete
<1> DEFINE v == IF SoEnabled THEN SoNow ELSE 0
           x == [vid |-> v, content |-> 0]
           m == IF SoEnabled THEN SoNow ELSE soCount.writes
<1>3. /\ SoVersioned => soVersions' = SoStacked(x) /\ soLocks' = soLocks
      /\ ~SoVersioned => soVersions' = soVersions /\ soLocks' = SoUnlocked(0)
  BY DEF SoDelete
<1>4. x \in SoEntry /\ x.vid = v BY <1>2, SoNumbers DEF SoEntry
<1> HIDE DEF x
<1>5. SoEnabled => soCount.writes <= SoNow BY <1>1, <1>2 DEF SoNow
<1>6. SoComes(x, m) BY <1>1, <1>2, <1>4, <1>5 DEF SoComes
<1> QED BY <1>3, <1>6

SoKeepsAllStep ==
  ~soRefused /\ SoEnabled /\ soCount'.writes # soCount.writes =>
    LET contents == {soVersions[i].content : i \in DOMAIN soVersions} \cup {soCurrent.content}
    IN  contents \ {0} \subseteq {soVersions'[i].content : i \in DOMAIN soVersions'} \/ soRefused'

LEMMA SoKeepsAllHolds == ASSUME SoInv, [SoNext]_soVars PROVE SoKeepsAllStep
<1> SUFFICES ASSUME ~soRefused, SoEnabled, soCount'.writes # soCount.writes
             PROVE  SoContents \ {0} \subseteq {soVersions'[i].content : i \in DOMAIN soVersions'} \/ soRefused'
  BY DEF SoKeepsAllStep, SoContents
<1>0. SoShapes /\ SoHistories /\ SoAgreed /\ SoVersioned BY DEF SoInv, SoVersioned, SoEnabled
<1>1. ASSUME \E x, m : SoComes(x, m) /\ soVersions' = SoStacked(x)
      PROVE  SoContents \ {0} \subseteq {soVersions'[i].content : i \in DOMAIN soVersions'}
  BY <1>0, <1>1, SoStackedKeeps
<1>2. ASSUME NEW mode, NEW hold, SoPut(mode, hold) PROVE \E x, m : SoComes(x, m) /\ soVersions' = SoStacked(x)
  <2>1. SoWrite(SoNow, SoNow) BY <1>2 DEF SoPut
  <2>2. SoNow \in SoIds BY <1>0, <2>1, SoNext1 DEF SoWrite
  <2> QED BY <1>0, <2>1, <2>2, SoWriteStacks
<1>3. ASSUME NEW source, NEW bytes, NEW lock, source.content \in SoIds, SoCopy(source, bytes, lock)
      PROVE  \E x, m : SoComes(x, m) /\ soVersions' = SoStacked(x)
  <2>1. SoWrite(source.content, bytes) BY <1>3 DEF SoCopy
  <2> QED BY <1>0, <1>3, <2>1, SoWriteStacks
<1>4. CASE SoCopyCurrent
  <2>1. soCurrent.content \in SoIds BY <1>0 DEF SoShapes
  <2> QED BY <1>1, <1>3, <1>4, <2>1 DEF SoCopyCurrent
<1>5. ASSUME NEW i, SoCopyVersion(i) PROVE \E x, m : SoComes(x, m) /\ soVersions' = SoStacked(x)
  <2>1. i \in DOMAIN soVersions BY <1>5 DEF SoCopyVersion
  <2>2. soVersions[i].content \in SoIds BY <1>0, <2>1, SoVersionBytesIs DEF SoEntry
  <2>3. \E bytes, lock : SoCopy(soVersions[i], bytes, lock) BY <1>5 DEF SoCopyVersion
  <2> QED BY <1>3, <2>2, <2>3
<1>6. CASE SoDelete BY <1>0, <1>1, <1>6, SoMarkerStacks
<1>7. CASE SoPutRefused BY <1>7 DEF SoPutRefused
<1>8. soCount \in [writes : SoIds, locks : Nat, restarts : Nat] BY <1>0 DEF SoShapes
<1>9. ~SoSetLockable /\ ~\E status \in {"Enabled", "Suspended"} : SoSetVersioning(status)
  BY DEF SoSetLockable, SoSetVersioning
<1>10. ~SoRestart BY <1>8 DEF SoRestart
<1>11. \A v \in SoIds, bypass \in BOOLEAN : ~SoDeleteVersion(v, bypass) /\ ~SoExpire(v)
  BY DEF SoDeleteVersion, SoExpire
<1>12. \A v \in SoIds, bypass \in BOOLEAN : ~SoPutHold(v, bypass) BY <1>8 DEF SoPutHold
<1>13. \A v \in SoIds, bypass \in BOOLEAN, mode \in SoModes, live \in BOOLEAN : ~SoPutRetention(v, mode, live, bypass)
  BY <1>8 DEF SoPutRetention
<1>14. ~UNCHANGED soVars BY DEF soVars
<1> QED BY <1>1, <1>2, <1>4, <1>5, <1>6, <1>7, <1>9, <1>10, <1>11, <1>12, <1>13, <1>14 DEF SoNext

(* What an id of its own that is on hold or under compliance may count on.  *)
SoStrict(v) == soLocks.retained[v].live /\ soLocks.retained[v].mode = "COMPLIANCE"
SoBound(v) == v \in SoListed(soVersions) /\ (v \in soLocks.held \/ SoStrict(v))
SoStillBound(v) ==
  /\ v \in SoListed(soVersions')
  /\ SoStrict(v) => soLocks'.retained[v].mode = "COMPLIANCE" \/ soCount'.restarts # soCount.restarts

SoLocksHoldStep ==
  ~soRefused => \A v \in SoIds \ {0} :
    LET strict == soLocks.retained[v].live /\ soLocks.retained[v].mode = "COMPLIANCE" IN
    v \in SoListed(soVersions) /\ (v \in soLocks.held \/ strict) =>
      /\ v \in SoListed(soVersions')
      /\ strict => soLocks'.retained[v].mode = "COMPLIANCE" \/ soCount'.restarts # soCount.restarts

(* Under an entry on top every id but the null one is still listed.         *)
LEMMA SoStackedLists ==
  ASSUME SoShapes, SoHistories, NEW v, v # 0, v \in SoListed(soVersions),
         soVersions' = soVersions \/ \E x, m : SoComes(x, m) /\ soVersions' = SoStacked(x)
  PROVE  v \in SoListed(soVersions')
<1>1. CASE soVersions' = soVersions BY <1>1
<1>2. CASE \E x, m : SoComes(x, m) /\ soVersions' = SoStacked(x)
  <2>1. \A y : SoStays(y) => SoHas(soVersions', y) BY <1>2, SoStackedIs DEF SoHistories
  <2>2. PICK k \in DOMAIN soVersions : soVersions[k].vid = v BY DEF SoListed
  <2>3. SoHas(soVersions', soVersions[k]) BY <2>1, <2>2 DEF SoStays
  <2> QED BY <2>2, <2>3 DEF SoHas, SoListed
<1> QED BY <1>1, <1>2

(* A write numbers itself anew, so it locks no id that is listed.           *)
LEMMA SoWriteHolds ==
  ASSUME SoShapes, SoHistories, NEW v \in SoIds, v # 0, SoBound(v), NEW content \in SoIds, NEW bytes,
         SoWrite(content, bytes), NEW retention \in SoRetention, NEW hold \in BOOLEAN,
         soLocks' = soLocks \/ soLocks' = SoLock(IF SoEnabled THEN SoNow ELSE 0, retention, hold)
  PROVE  SoStillBound(v)
<1> DEFINE u == IF SoEnabled THEN SoNow ELSE 0
<1>1. /\ SoNow \in SoIds /\ soCount.writes < SoNow /\ u \in SoIds
      /\ soVersions' = soVersions \/ \E x, m : SoComes(x, m) /\ soVersions' = SoStacked(x)
  BY SoWriteStacks, SoNumbers
<1>2. v \in SoListed(soVersions) BY DEF SoBound
<1>3. v <= soCount.writes BY <1>2 DEF SoListed, SoHistories, SoHistory
<1>4. v # u
  <2>1. soCount.writes \in Nat /\ SoNow \in Nat /\ v \in Nat BY <1>1, SoNumbers DEF SoShapes
  <2> QED BY <1>1, <1>3, <2>1
<1> HIDE DEF u
<1>5. v \in SoListed(soVersions') BY <1>1, <1>2, SoStackedLists
<1>6. soLocks'.retained[v] = soLocks.retained[v]
  <2>1. CASE soLocks' = soLocks BY <2>1
  <2>2. CASE soLocks' = SoLock(u, retention, hold)
    <3>1. SoLocksKept(u) BY <1>1, <2>2, SoLockIs
    <3> QED BY <1>4, <3>1 DEF SoLocksKept
  <2> QED BY <2>1, <2>2 DEF u
<1> QED BY <1>5, <1>6 DEF SoStillBound, SoStrict

LEMMA SoCopyHolds ==
  ASSUME SoShapes, SoHistories, NEW v \in SoIds, v # 0, SoBound(v), NEW source, source.content \in SoIds,
         NEW bytes, NEW lock, lock.retention \in SoRetention, lock.hold \in BOOLEAN, SoCopy(source, bytes, lock)
  PROVE  SoStillBound(v)
<1>1. /\ SoWrite(source.content, bytes)
      /\ soLocks' = soLocks \/ soLocks' = SoLock(IF SoEnabled THEN SoNow ELSE 0, lock.retention, lock.hold)
  BY DEF SoCopy
<1> QED BY <1>1, SoWriteHolds

LEMMA SoLocksHolds == ASSUME SoInv, [SoNext]_soVars PROVE SoLocksHoldStep
<1> SUFFICES ASSUME ~soRefused, NEW v \in SoIds, v # 0, SoBound(v) PROVE SoStillBound(v)
  BY DEF SoLocksHoldStep, SoBound, SoStillBound, SoStrict
<1>0. SoShapes /\ SoHistories BY DEF SoInv
<1>1. /\ soLocks \in [retained : [SoIds -> SoRetention], held : SUBSET SoIds]
      /\ soCount \in [writes : SoIds, locks : Nat, restarts : Nat] /\ soVersions \in Seq(SoEntry)
  BY <1>0 DEF SoShapes
<1>2. v \in SoListed(soVersions) BY DEF SoBound
<1>3. ASSUME NEW mode \in SoModes \cup {"none"}, NEW hold \in BOOLEAN, SoPut(mode, hold) PROVE SoStillBound(v)
  <2> DEFINE retention == IF mode = "none" THEN SoFree ELSE [mode |-> mode, live |-> TRUE]
  <2>1. SoWrite(SoNow, SoNow) /\ soLocks' = SoLock(IF SoEnabled THEN SoNow ELSE 0, retention, hold) BY <1>3 DEF SoPut
  <2>2. SoNow \in SoIds BY <1>0, <2>1, SoNext1 DEF SoWrite
  <2>3. retention \in SoRetention BY SoConstants DEF SoRetention
  <2> HIDE DEF retention
  <2> QED BY <1>0, <2>1, <2>2, <2>3, SoWriteHolds
<1>4. CASE SoCopyCurrent
  <2> DEFINE lock == SoLockOf(soCurrent.vid)
  <2>1. soCurrent.content \in SoIds /\ soCurrent.vid \in SoIds BY <1>0 DEF SoShapes
  <2>2. lock.retention \in SoRetention /\ lock.hold \in BOOLEAN BY <1>0, <2>1, SoLockOfIs
  <2>3. SoCopy(soCurrent, SoBytes(soCurrent), lock) BY <1>4 DEF SoCopyCurrent
  <2> HIDE DEF lock
  <2> QED BY <1>0, <2>1, <2>2, <2>3, SoCopyHolds
<1>5. ASSUME NEW i, SoCopyVersion(i) PROVE SoStillBound(v)
  <2> DEFINE y == soVersions[i]
             lock == IF y.vid = 0 THEN [retention |-> SoFree, hold |-> FALSE] ELSE SoLockOf(y.vid)
  <2>1. i \in DOMAIN soVersions /\ SoCopy(y, SoVersionBytes(y, soDisk.files), lock) BY <1>5 DEF SoCopyVersion
  <2>2. y.vid \in SoIds /\ y.content \in SoIds BY <1>0, <2>1, SoVersionBytesIs DEF SoEntry
  <2>3. lock.retention \in SoRetention /\ lock.hold \in BOOLEAN
    <3> HIDE DEF y
    <3>1. CASE y.vid = 0 BY <3>1, SoConstants
    <3>2. CASE y.vid # 0 BY <1>0, <2>2, <3>2, SoLockOfIs
    <3> QED BY <3>1, <3>2
  <2> HIDE DEF y, lock
  <2> QED BY <1>0, <2>1, <2>2, <2>3, SoCopyHolds
<1>6. CASE SoDelete
  <2>1. v \in SoListed(soVersions') BY <1>0, <1>2, <1>6, SoMarkerStacks, SoStackedLists
  <2>2. soLocks'.retained[v] = soLocks.retained[v]
    BY <1>0, <1>6, SoMarkerStacks, SoUnlockedIs, SoNumbers
  <2> QED BY <2>1, <2>2 DEF SoStillBound, SoStrict
<1>7. ASSUME NEW u \in SoIds, NEW bypass \in BOOLEAN, SoDeleteVersion(u, bypass) PROVE SoStillBound(v)
  <2>1. u # v BY <1>7 DEF SoDeleteVersion, SoProtected, SoBound, SoStrict
  <2>2. v \in SoListed(soVersions') /\ soLocks'.retained[v] = soLocks.retained[v]
    <3>1. CASE u \in SoListed(soVersions)
      <4>1. soVersions' = SoWithout(soVersions, u) BY <1>7, <3>1 DEF SoDeleteVersion
      <4>2. PICK k \in DOMAIN soVersions : soVersions[k].vid = v BY <1>2 DEF SoListed
      <4>3. /\ SoHistory(soVersions', soCount.writes)
            /\ \E i \in DOMAIN soVersions' : soVersions'[i] = soVersions[k]
        BY <1>0, <2>1, <4>1, <4>2, SoWithoutIs DEF SoHistories
      <4>4. v \in SoListed(soVersions') BY <4>2, <4>3 DEF SoListed
      <4>5. soVersions' # <<>> BY <4>3, SoNoEntries
      <4>6. soLocks' = soLocks \/ soLocks' = SoUnlocked(u) BY <1>7, <3>1, <4>1, <4>5 DEF SoDeleteVersion
      <4> QED BY <1>0, <2>1, <4>4, <4>6, SoUnlockedIs
    <3>2. CASE u \notin SoListed(soVersions)
      <4>1. soVersions' = soVersions /\ soLocks' = SoUnlocked(0) BY <1>7, <3>2 DEF SoDeleteVersion
      <4> QED BY <1>0, <1>2, <4>1, SoUnlockedIs, SoNumbers
    <3> QED BY <3>1, <3>2
  <2> QED BY <2>2 DEF SoStillBound, SoStrict
<1>8. ASSUME NEW u \in SoIds, NEW mode \in SoModes, NEW live \in BOOLEAN, NEW bypass \in BOOLEAN,
             SoPutRetention(u, mode, live, bypass)
      PROVE  SoStillBound(v)
  <2>1. soVersions' = soVersions /\ soLocks'.retained = [soLocks.retained EXCEPT ![u] = [mode |-> mode, live |-> live]]
    BY <1>1, <1>8 DEF SoPutRetention
  <2>2. ASSUME SoStrict(v) PROVE soLocks'.retained[v].mode = "COMPLIANCE"
    <3>1. CASE u = v
      <4>1. mode = "COMPLIANCE"
        <5>1. ~(soLocks.retained[v].mode = "COMPLIANCE" /\ mode = "GOVERNANCE")
          BY <1>8, <2>2, <3>1 DEF SoPutRetention, SoStrict
        <5> QED BY <2>2, <5>1 DEF SoStrict, SoModes
      <4> QED BY <1>1, <2>1, <3>1, <4>1
    <3>2. CASE u # v BY <1>1, <2>1, <2>2, <3>2 DEF SoStrict
    <3> QED BY <3>1, <3>2
  <2> QED BY <1>2, <2>1, <2>2 DEF SoStillBound
<1>9. ASSUME NEW u \in SoIds, NEW on \in BOOLEAN, SoPutHold(u, on) PROVE SoStillBound(v)
  <2>1. soVersions' = soVersions /\ soLocks'.retained = soLocks.retained BY <1>1, <1>9 DEF SoPutHold
  <2> QED BY <1>2, <2>1 DEF SoStillBound, SoStrict
<1>10. ASSUME NEW u \in SoIds, SoExpire(u) PROVE SoStillBound(v)
  <2>1. soVersions' = soVersions /\ soLocks'.retained = [soLocks.retained EXCEPT ![u].live = FALSE]
    BY <1>1, <1>10 DEF SoExpire
  <2>2. soLocks'.retained[v].mode = soLocks.retained[v].mode BY <1>1, <2>1 DEF SoRetention
  <2> QED BY <1>2, <2>1, <2>2 DEF SoStillBound, SoStrict
<1>11. CASE SoRestart
  <2>1. soVersions' = soVersions BY <1>11, SoLoadedSame DEF SoRestart
  <2>2. soCount'.restarts # soCount.restarts
    <3>1. soCount' = [soCount EXCEPT !.restarts = @ + 1] BY <1>11 DEF SoRestart
    <3> QED BY <1>1, <3>1
  <2> QED BY <1>2, <2>1, <2>2 DEF SoStillBound
<1>12. CASE SoPutRefused BY <1>2, <1>12 DEF SoPutRefused, SoStillBound, SoStrict
<1>13. CASE SoSetLockable BY <1>2, <1>13 DEF SoSetLockable, SoStillBound, SoStrict
<1>14. CASE \E status \in {"Enabled", "Suspended"} : SoSetVersioning(status)
  BY <1>2, <1>14 DEF SoSetVersioning, SoStillBound, SoStrict
<1>15. CASE UNCHANGED soVars BY <1>2, <1>15 DEF soVars, SoStillBound, SoStrict
<1> QED BY <1>3, <1>4, <1>5, <1>6, <1>7, <1>8, <1>9, <1>10, <1>11, <1>12, <1>13, <1>14, <1>15 DEF SoNext

(* Versioning loses nothing that could be read, the object of before it     *)
(* included, and a version that a hold or a compliance lock protects        *)
(* outlives every request (s3.py:6087).                                     *)
THEOREM NothingKeptIsLost == SoSpec => SoKeeps
<1>1. SoInit => SoInv BY SoInitInv
<1>2. SoInv /\ [SoNext]_soVars => SoInv' BY SoStepInv
<1>3. SoInv /\ [SoNext]_soVars => SoKeepsAllStep /\ SoLocksHoldStep BY SoKeepsAllHolds, SoLocksHolds
<1> QED BY <1>1, <1>2, <1>3, PTL DEF SoSpec, SoKeeps, SoKeepsAll, SoLocksHold, SoKeepsAllStep, SoLocksHoldStep
=============================================================================
