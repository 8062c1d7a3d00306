----------------------------- MODULE ListsProofs -----------------------------
(***************************************************************************)
(* What Picked makes of a list, for any list and any positions.            *)
(***************************************************************************)
EXTENDS Lists, FiniteSetTheorems, SequenceTheorems, TLAPS

(* The place of k among the positions K.                                    *)
Rank(K, k) == Cardinality({j \in K : j <= k})

LEMMA Ranks ==
  ASSUME NEW n \in Nat, NEW K \in SUBSET (1..n)
  PROVE  /\ IsFiniteSet(K) /\ Cardinality(K) \in Nat
         /\ \A k \in K : Rank(K, k) \in 1..Cardinality(K)
         /\ \A k, l \in K : k < l => Rank(K, k) < Rank(K, l)
         /\ \A i \in 1..Cardinality(K) : \E k \in K : Rank(K, k) = i
<1>0. \A k \in K : k \in Int OBVIOUS
<1>1. IsFiniteSet(K) /\ Cardinality(K) \in Nat
  <2>1. IsFiniteSet(1..n) BY FS_Interval
  <2>2. IsFiniteSet(K) BY <2>1, FS_Subset
  <2> QED BY <2>2, FS_CardinalityType
<1>2. \A k \in K : /\ IsFiniteSet({j \in K : j <= k}) /\ Rank(K, k) \in 1..Cardinality(K)
  <2> TAKE k \in K
  <2>1. {j \in K : j <= k} \in SUBSET K /\ k \in {j \in K : j <= k} OBVIOUS
  <2>2. /\ IsFiniteSet({j \in K : j <= k}) /\ Rank(K, k) <= Cardinality(K)
    BY <1>1, <2>1, FS_Subset DEF Rank
  <2>3. Rank(K, k) \in Nat /\ Rank(K, k) # 0
    BY <2>1, <2>2, FS_CardinalityType, FS_EmptySet DEF Rank
  <2> QED BY <1>1, <2>2, <2>3
<1>3. \A k \in K : Rank(K, k) \in 1..Cardinality(K) BY <1>2
<1>4. \A k \in K : Rank(K, k) \in Int BY <1>1, <1>3
<1>5. \A k, l \in K : k < l => Rank(K, k) < Rank(K, l)
  <2> SUFFICES ASSUME NEW k \in K, NEW l \in K, k < l PROVE Rank(K, k) < Rank(K, l) OBVIOUS
  <2>1. {j \in K : j <= k} \in SUBSET {j \in K : j <= l}
    <3>1. \A j \in K : j <= k => j <= l BY <1>0
    <3> QED BY <3>1
  <2>2. l \in {j \in K : j <= l} /\ l \notin {j \in K : j <= k} BY <1>0
  <2>3. Rank(K, k) <= Rank(K, l) /\ Rank(K, k) # Rank(K, l)
    BY <1>2, <2>1, <2>2, FS_Subset DEF Rank
  <2>4. Rank(K, k) \in Int /\ Rank(K, l) \in Int BY <1>4
  <2> QED BY <2>3, <2>4
<1>6. \A i \in 1..Cardinality(K) : \E k \in K : Rank(K, k) = i
  <2> DEFINE r == [k \in K |-> Rank(K, k)]
  <2>1. r \in Injection(K, 1..Cardinality(K))
    <3>1. r \in [K -> 1..Cardinality(K)] BY <1>2
    <3>2. \A k, l \in K : r[k] = r[l] => k = l
      <4> SUFFICES ASSUME NEW k \in K, NEW l \in K, Rank(K, k) = Rank(K, l) PROVE k = l OBVIOUS
      <4>1. Rank(K, k) \in Int BY <1>4
      <4>2. ~(k < l) /\ ~(l < k) BY <1>5, <4>1
      <4> QED BY <1>0, <4>2
    <3> QED BY <3>1, <3>2 DEF Injection, IsInjective
  <2>2. IsFiniteSet(1..Cardinality(K)) /\ Cardinality(1..Cardinality(K)) = Cardinality(K)
    BY <1>1, FS_Interval
  <2>3. r \in Surjection(K, 1..Cardinality(K)) BY <2>1, <2>2, FS_Injection
  <2> QED BY <2>3 DEF Surjection
<1> QED BY <1>1, <1>3, <1>5, <1>6

(* e leads from the places of what was picked to where it stood: in order,  *)
(* and to every position asked for.                                         *)
Leads(e, s, K) ==
  /\ e \in [DOMAIN Picked(s, K) -> K]
  /\ \A i \in DOMAIN Picked(s, K) : Picked(s, K)[i] = s[e[i]]
  /\ \A i, j \in DOMAIN Picked(s, K) : i < j => e[i] < e[j]
  /\ \A k \in K : \E i \in DOMAIN Picked(s, K) : e[i] = k

(* What is picked is a list of elements of s.                               *)
LEMMA PickedIs ==
  ASSUME NEW S, NEW s \in Seq(S), NEW K \in SUBSET DOMAIN s
  PROVE  Picked(s, K) \in Seq(S) /\ \E e : Leads(e, s, K)
<1> DEFINE n == Cardinality(K)
           e == [i \in 1..n |-> CHOOSE k \in K : Rank(K, k) = i]
<1>1. Len(s) \in Nat /\ K \in SUBSET (1..Len(s)) OBVIOUS
<1>2. /\ n \in Nat
      /\ \A k \in K : Rank(K, k) \in 1..n
      /\ \A k, l \in K : k < l => Rank(K, k) < Rank(K, l)
      /\ \A i \in 1..n : \E k \in K : Rank(K, k) = i
  BY <1>1, Ranks
<1>3. \A i \in 1..n : e[i] \in K /\ Rank(K, e[i]) = i BY <1>2
<1>4. Picked(s, K) = [i \in 1..n |-> s[e[i]]] BY DEF Picked, Rank
<1> HIDE DEF n, e
<1>5. e \in [1..n -> K] BY <1>3 DEF e
<1>6. \A k, l \in K : k < l \/ k = l \/ l < k BY <1>1
<1>7. \A i, j \in 1..n : i < j => e[i] < e[j]
  <2> SUFFICES ASSUME NEW i \in 1..n, NEW j \in 1..n, i < j PROVE e[i] < e[j] OBVIOUS
  <2>1. Rank(K, e[i]) = i /\ Rank(K, e[j]) = j /\ e[i] \in K /\ e[j] \in K BY <1>3
  <2>2. ~(e[j] < e[i]) /\ e[i] # e[j]
    <3>1. e[j] < e[i] => j < i BY <1>2, <2>1
    <3> QED BY <1>2, <2>1, <3>1
  <2> QED BY <1>6, <2>1, <2>2
<1>8. \A k \in K : \E i \in 1..n : e[i] = k
  <2> TAKE k \in K
  <2>1. Rank(K, k) \in 1..n BY <1>2
  <2>2. /\ e[Rank(K, k)] \in K /\ Rank(K, e[Rank(K, k)]) = Rank(K, k) BY <1>3, <2>1
  <2>3. e[Rank(K, k)] = k
    <3>1. ~(e[Rank(K, k)] < k) /\ ~(k < e[Rank(K, k)]) BY <1>2, <2>1, <2>2
    <3> QED BY <1>6, <2>2, <3>1
  <2> QED BY <2>1, <2>3
<1>9. Picked(s, K) \in Seq(S) /\ DOMAIN Picked(s, K) = 1..n /\ \A i \in 1..n : Picked(s, K)[i] = s[e[i]]
  <2>1. \A i \in 1..n : s[e[i]] \in S BY <1>3
  <2>2. [i \in 1..n |-> s[e[i]]] \in Seq(S) BY <1>2, <2>1
  <2> QED BY <1>4, <2>2
<1>10. Leads(e, s, K) BY <1>5, <1>7, <1>8, <1>9 DEF Leads
<1> QED BY <1>9, <1>10

(* Everything is asked for: nothing changes.                                *)
LEMMA PickedAll ==
  ASSUME NEW S, NEW s \in Seq(S)
  PROVE  Picked(s, DOMAIN s) = s
<1> DEFINE n == Len(s)
<1>1. n \in Nat /\ DOMAIN s = 1..n /\ s \in [1..n -> S] OBVIOUS
<1>2. Cardinality(1..n) = n BY <1>1, FS_Interval
<1>3. \A k \in 1..n : Rank(1..n, k) = k
  <2> TAKE k \in 1..n
  <2>1. {j \in 1..n : j <= k} = 1..k BY <1>1
  <2>2. Cardinality(1..k) = k BY FS_Interval
  <2> QED BY <2>1, <2>2 DEF Rank
<1>4. \A i \in 1..n : (CHOOSE k \in 1..n : Rank(1..n, k) = i) = i BY <1>3
<1>5. Picked(s, 1..n) = [i \in 1..n |-> s[i]]
  <2>1. Picked(s, 1..n) = [i \in 1..Cardinality(1..n) |-> s[CHOOSE k \in 1..n : Rank(1..n, k) = i]]
    BY DEF Picked, Rank
  <2>2. Picked(s, 1..n) = [i \in 1..n |-> s[CHOOSE k \in 1..n : Rank(1..n, k) = i]] BY <1>2, <2>1
  <2> HIDE DEF n
  <2> QED BY <1>4, <2>2
<1> QED BY <1>1, <1>5

(* Never more than there is.                                                *)
LEMMA PickedShorter ==
  ASSUME NEW S, NEW s \in Seq(S), NEW K \in SUBSET DOMAIN s
  PROVE  Len(Picked(s, K)) <= Len(s)
<1>1. Len(s) \in Nat /\ K \in SUBSET (1..Len(s)) OBVIOUS
<1>a. \A n \in Nat : IsFiniteSet(1..n) /\ Cardinality(1..n) = n BY FS_Interval
<1>2. IsFiniteSet(1..Len(s)) /\ Cardinality(1..Len(s)) = Len(s) BY <1>1, <1>a
<1>3. Cardinality(K) <= Len(s) BY <1>1, <1>2, FS_Subset
<1>4. Cardinality(K) \in Nat BY <1>1, Ranks
<1>5. Len(Picked(s, K)) = Cardinality(K) BY <1>4 DEF Picked
<1> QED BY <1>3, <1>5

(* A part of a list.                                                        *)
LEMMA PartIs ==
  ASSUME NEW S, NEW s \in Seq(S), NEW m \in Nat \ {0}, NEW n \in Int, n <= Len(s)
  PROVE  /\ SubSeq(s, m, n) \in Seq(S)
         /\ Len(SubSeq(s, m, n)) = IF m <= n THEN n - m + 1 ELSE 0
         /\ \A i \in DOMAIN SubSeq(s, m, n) : /\ m + i - 1 \in DOMAIN s /\ m + i - 1 <= n
                                              /\ SubSeq(s, m, n)[i] = s[m + i - 1]
         /\ \A j \in DOMAIN s : m <= j /\ j <= n =>
              j - m + 1 \in DOMAIN SubSeq(s, m, n) /\ SubSeq(s, m, n)[j - m + 1] = s[j]
<1> DEFINE t == SubSeq(s, m, n)
<1>0. Len(s) \in Nat /\ DOMAIN s = 1..Len(s) OBVIOUS
<1>1. \A i \in m..n : s[i] \in S BY <1>0
<1>2. /\ t \in Seq(S) /\ Len(t) = IF m <= n THEN n - m + 1 ELSE 0
      /\ \A i \in 1..n - m + 1 : t[i] = s[m + i - 1]
  BY <1>1, SubSeqProperties
<1>3. DOMAIN t = 1..Len(t) BY <1>2
<1> HIDE DEF t
<1>4. \A i \in DOMAIN t : m + i - 1 \in DOMAIN s /\ m + i - 1 <= n /\ t[i] = s[m + i - 1]
  BY <1>0, <1>2, <1>3
<1>5. ASSUME NEW j \in DOMAIN s, m <= j, j <= n
      PROVE  j - m + 1 \in DOMAIN t /\ t[j - m + 1] = s[j]
  <2>1. j - m + 1 \in 1..n - m + 1 /\ m + (j - m + 1) - 1 = j BY <1>0, <1>5
  <2> QED BY <1>2, <1>3, <2>1
<1> QED BY <1>2, <1>4, <1>5 DEF t

(* A finite set of integers has a greatest.                                 *)
LEMMA GreatestIs ==
  ASSUME NEW S \in SUBSET Int, IsFiniteSet(S), S # {}
  PROVE  \E x \in S : \A y \in S : y <= x
<1> DEFINE Above(x) == {y \in S : y > x}
           T == {Above(x) : x \in S}
<1>1. T \subseteq FiniteSubsetsOf(S) /\ T # {}
  <2>1. ASSUME NEW x \in S PROVE Above(x) \in FiniteSubsetsOf(S)
    <3>1. Above(x) \in SUBSET S OBVIOUS
    <3>2. IsFiniteSet(Above(x)) BY <3>1, FS_Subset
    <3> QED BY <3>1, <3>2 DEF FiniteSubsetsOf
  <2> QED BY <2>1
<1>2. PICK A \in T : \A B \in T : <<B, A>> \notin StrictSubsetOrdering(S)
  <2> HIDE DEF T
  <2> QED BY <1>1, FS_StrictSubsetOrderingWellFounded, WFMin
<1>3. PICK x \in S : A = Above(x) BY <1>2
<1>4. ASSUME NEW y \in S, y > x PROVE FALSE
  <2>0. x \in Int /\ y \in Int /\ ~(y > y) /\ \A z \in S : z > y => z > x BY <1>4
  <2>1. Above(y) \subseteq Above(x) /\ y \in Above(x) /\ y \notin Above(y) BY <1>4, <2>0, Zenon
  <2>2. <<Above(y), Above(x)>> \in StrictSubsetOrdering(S) BY <2>1 DEF StrictSubsetOrdering
  <2> QED BY <1>2, <1>3, <2>2
<1> QED BY <1>4
=============================================================================
