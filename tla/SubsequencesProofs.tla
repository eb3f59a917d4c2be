-------------------------- MODULE SubsequencesProofs --------------------------
(***************************************************************************)
(* What Ascending and Subsequence return, for any finite set of numbers    *)
(* and any sequence.                                                       *)
(***************************************************************************)
EXTENDS Subsequences, SequencesExt, FiniteSetTheorems, SequenceTheorems, TLAPS

UpTo(I, i) == {j \in I : j <= i}
Place(I) == [i \in I |-> Cardinality(UpTo(I, i))]

LEMMA IntervalFacts ==
    ASSUME NEW n \in Nat
    PROVE  IsFiniteSet(1..n) /\ Cardinality(1..n) = n /\ 1..n \in SUBSET Nat
<1>1. IsFiniteSet(1..n) /\ Cardinality(1..n) = IF 1 > n THEN 0 ELSE n - 1 + 1
  BY FS_Interval
<1> QED
  BY <1>1

(* The place of an index is a number from 1 up to that of the last one, and *)
(* grows with the index.                                                    *)
LEMMA PlaceFacts ==
    ASSUME NEW I \in SUBSET Nat, IsFiniteSet(I)
    PROVE  /\ Cardinality(I) \in Nat
           /\ Place(I) \in [I -> 1..Cardinality(I)]
           /\ \A i, j \in I : i < j => Place(I)[i] < Place(I)[j]
<1>0. \A i \in I : i \in Nat
  OBVIOUS
<1>1. Cardinality(I) \in Nat
  BY FS_CardinalityType
<1>2. ASSUME NEW i \in I
      PROVE  /\ IsFiniteSet(UpTo(I, i))
             /\ Cardinality(UpTo(I, i)) \in 1..Cardinality(I)
  <2>1. UpTo(I, i) \in SUBSET I /\ i \in UpTo(I, i)
    BY DEF UpTo
  <2>2. IsFiniteSet(UpTo(I, i)) /\ Cardinality(UpTo(I, i)) <= Cardinality(I)
    BY <2>1, FS_Subset
  <2>3. Cardinality(UpTo(I, i)) \in Nat /\ Cardinality(UpTo(I, i)) # 0
    BY <2>1, <2>2, FS_CardinalityType, FS_EmptySet
  <2> QED
    BY <1>1, <2>2, <2>3
<1>3. ASSUME NEW i \in I, NEW j \in I, i < j PROVE Place(I)[i] < Place(I)[j]
  <2>0. i \in Nat /\ j \in Nat
    BY <1>0
  <2>1. j \in UpTo(I, j) /\ j \notin UpTo(I, i)
    BY <1>3, <2>0 DEF UpTo
  <2>2. UpTo(I, i) \in SUBSET UpTo(I, j)
    <3> SUFFICES ASSUME NEW x \in UpTo(I, i) PROVE x \in UpTo(I, j)
      OBVIOUS
    <3>1. x \in I /\ x <= i
      BY DEF UpTo
    <3>2. x \in Nat
      BY <1>0, <3>1
    <3> QED
      BY <1>3, <2>0, <3>1, <3>2 DEF UpTo
  <2>3. /\ Cardinality(UpTo(I, i)) <= Cardinality(UpTo(I, j))
        /\ Cardinality(UpTo(I, i)) # Cardinality(UpTo(I, j))
    BY <1>2, <2>1, <2>2, FS_Subset
  <2>4. Cardinality(UpTo(I, i)) \in Nat /\ Cardinality(UpTo(I, j)) \in Nat
    BY <1>1, <1>2
  <2> QED
    BY <2>3, <2>4 DEF Place
<1> QED
  BY <1>1, <1>2, <1>3 DEF Place

(* Every number up to the last is the place of one index. *)
LEMMA PlaceIsTaken ==
    ASSUME NEW I \in SUBSET Nat, IsFiniteSet(I), NEW k \in 1..Cardinality(I)
    PROVE  \E i \in I : Place(I)[i] = k
<1> DEFINE n == Cardinality(I)
<1>1. n \in Nat
  BY FS_CardinalityType
<1>2. Place(I) \in Injection(I, 1..n)
  <2>1. \A i, j \in I : Place(I)[i] = Place(I)[j] => i = j
    <3> SUFFICES ASSUME NEW i \in I, NEW j \in I, Place(I)[i] = Place(I)[j] PROVE i = j
      OBVIOUS
    <3>1. i \in Nat /\ j \in Nat
      OBVIOUS
    <3>2. Place(I)[i] \in Nat /\ ~(i < j) /\ ~(j < i)
      BY <1>1, PlaceFacts
    <3> QED
      BY <3>1, <3>2
  <2> QED
    BY <2>1, PlaceFacts DEF Injection, IsInjective
<1>3. IsFiniteSet(1..n) /\ Cardinality(1..n) = n
  BY <1>1, IntervalFacts
<1>4. Place(I) \in Surjection(I, 1..n)
  BY <1>2, <1>3, FS_Injection
<1> QED
  BY <1>4 DEF Surjection

(* Ascending(I) has every element of I, once and in ascending order. *)
THEOREM AscendingFacts ==
    ASSUME NEW I \in SUBSET Nat, IsFiniteSet(I)
    PROVE  /\ Cardinality(I) \in Nat
           /\ Ascending(I) \in [1..Cardinality(I) -> I]
           /\ \A j, k \in 1..Cardinality(I) : j < k => Ascending(I)[j] < Ascending(I)[k]
           /\ \A i \in I : \E k \in 1..Cardinality(I) : Ascending(I)[k] = i
<1> DEFINE n == Cardinality(I)
<1>0. \A i \in I : i \in Nat
  OBVIOUS
<1>1. n \in Nat
  BY FS_CardinalityType
<1>2. ASSUME NEW k \in 1..n
      PROVE  Ascending(I)[k] \in I /\ Place(I)[Ascending(I)[k]] = k
  <2>1. Ascending(I)[k] = CHOOSE i \in I : Cardinality({j \in I : j <= i}) = k
    BY DEF Ascending
  <2>2. \E i \in I : Cardinality({j \in I : j <= i}) = k
    BY PlaceIsTaken DEF Place, UpTo
  <2> QED
    BY <2>1, <2>2 DEF Place, UpTo
<1>3. Ascending(I) \in [1..n -> I]
  BY <1>2 DEF Ascending
<1>4. ASSUME NEW j \in 1..n, NEW k \in 1..n, j < k PROVE Ascending(I)[j] < Ascending(I)[k]
  <2> DEFINE a == Ascending(I)[j]
             b == Ascending(I)[k]
  <2>1. a \in I /\ b \in I /\ Place(I)[a] = j /\ Place(I)[b] = k
    BY <1>2
  <2>2. a \in Nat /\ b \in Nat
    BY <1>0, <2>1, Zenon
  <2>3. j \in Nat /\ k \in Nat
    BY <1>1
  <2>4. ~(b < a) /\ a # b
    BY <1>4, <2>1, <2>2, <2>3, PlaceFacts
  <2>5. a < b
    <3> HIDE DEF a, b
    <3> QED
      BY <2>2, <2>4
  <2> QED
    BY <2>5
<1>5. ASSUME NEW i \in I PROVE \E k \in 1..n : Ascending(I)[k] = i
  <2> DEFINE k == Place(I)[i]
             a == Ascending(I)[k]
  <2>1. k \in 1..n
    BY PlaceFacts
  <2>2. a \in I /\ Place(I)[a] = k
    BY <1>2, <2>1
  <2>3. i \in Nat /\ a \in Nat
    BY <1>0, <2>2, Zenon
  <2>4. ~(a < i) /\ ~(i < a)
    BY <2>2, <2>3, PlaceFacts
  <2>5. a = i
    <3> HIDE DEF a
    <3> QED
      BY <2>3, <2>4
  <2> QED
    BY <2>1, <2>5
<1> QED
  BY <1>1, <1>3, <1>4, <1>5

(* A subsequence is a sequence of what there is at the indexes, all of it   *)
(* and in its order.                                                        *)
THEOREM SubsequenceFacts ==
    ASSUME NEW S, NEW s \in Seq(S), NEW I \in SUBSET DOMAIN s
    PROVE  /\ IsFiniteSet(I) /\ Cardinality(I) <= Len(s)
           /\ Subsequence(s, I) \in Seq(S) /\ Len(Subsequence(s, I)) = Cardinality(I)
           /\ \A k \in DOMAIN Subsequence(s, I) :
                 Ascending(I)[k] \in I /\ Subsequence(s, I)[k] = s[Ascending(I)[k]]
           /\ \A i \in I : \E k \in DOMAIN Subsequence(s, I) :
                 Ascending(I)[k] = i /\ Subsequence(s, I)[k] = s[i]
<1>1. DOMAIN s = 1..Len(s) /\ Len(s) \in Nat
  OBVIOUS
<1>2. IsFiniteSet(DOMAIN s) /\ Cardinality(DOMAIN s) = Len(s)
  BY <1>1, IntervalFacts
<1>3. IsFiniteSet(I) /\ Cardinality(I) <= Len(s)
  BY <1>2, FS_Subset
<1>4. I \in SUBSET Nat
  BY <1>1
<1>5. /\ Cardinality(I) \in Nat
      /\ Ascending(I) \in [1..Cardinality(I) -> I]
      /\ \A i \in I : \E k \in 1..Cardinality(I) : Ascending(I)[k] = i
  BY <1>3, <1>4, AscendingFacts
<1>6. \A i \in DOMAIN s : s[i] \in S
  OBVIOUS
<1>7. Subsequence(s, I) \in [1..Cardinality(I) -> S]
  BY <1>5, <1>6 DEF Subsequence
<1>8. Subsequence(s, I) \in Seq(S) /\ Len(Subsequence(s, I)) = Cardinality(I)
  BY <1>5, <1>7
<1> QED
  BY <1>3, <1>5, <1>7, <1>8 DEF Subsequence

(* To take all of a sequence is to leave it as it is. *)
THEOREM WholeSubsequence ==
    ASSUME NEW S, NEW s \in Seq(S), NEW I \in SUBSET DOMAIN s, Cardinality(I) = Len(s)
    PROVE  I = DOMAIN s /\ Subsequence(s, I) = s
<1> DEFINE n == Len(s)
<1>1. n \in Nat /\ DOMAIN s = 1..n /\ s = [k \in 1..n |-> s[k]]
  BY LenProperties
<1>2. IsFiniteSet(1..n) /\ Cardinality(1..n) = n
  BY <1>1, IntervalFacts
<1>3. I = 1..n
  <2>1. I \in SUBSET (1..n) /\ Cardinality(I) = n
    BY <1>1
  <2> HIDE DEF n
  <2> QED
    BY <1>2, <2>1, FS_Subset
<1>4. ASSUME NEW k \in 1..n
      PROVE  Ascending(I)[k] = k
  <2>1. \A i \in 1..n : {j \in I : j <= i} = 1..i
    BY <1>1, <1>3
  <2>2. \A i \in 1..n : Cardinality(1..i) = i
    <3>1. \A i \in 1..n : i \in Nat
      BY <1>1
    <3> QED
      BY <3>1, IntervalFacts
  <2>3. \A i \in I : Cardinality({j \in I : j <= i}) = i
    BY <1>3, <2>1, <2>2
  <2>4. Ascending(I)[k] = CHOOSE i \in I : Cardinality({j \in I : j <= i}) = k
    BY <1>2, <1>3 DEF Ascending
  <2>5. k \in I
    BY <1>3
  <2> HIDE DEF n
  <2> QED
    BY <2>3, <2>4, <2>5
<1>5. Subsequence(s, I) = [k \in 1..n |-> s[Ascending(I)[k]]]
  BY <1>2, <1>3 DEF Subsequence
<1>6. [k \in 1..n |-> s[Ascending(I)[k]]] = [k \in 1..n |-> s[k]]
  BY <1>4
<1> QED
  BY <1>1, <1>3, <1>5, <1>6

(* A sequence without one of its elements. *)
LEMMA RemoveAtFacts ==
    ASSUME NEW S, NEW s \in Seq(S), NEW i \in 1..Len(s)
    PROVE  /\ RemoveAt(s, i) \in Seq(S)
           /\ Len(RemoveAt(s, i)) = Len(s) - 1
           /\ \A k \in 1..Len(s) - 1 :
                 RemoveAt(s, i)[k] = IF k < i THEN s[k] ELSE s[k + 1]
<1> DEFINE n == Len(s)
           l == SubSeq(s, 1, i - 1)
           r == SubSeq(s, i + 1, n)
<1>1. n \in Nat /\ \A k \in 1..n : s[k] \in S
  BY LenProperties, ElementOfSeq
<1>2. l \in Seq(S) /\ Len(l) = i - 1 /\ \A k \in 1..i - 1 : l[k] = s[k]
  BY <1>1, SubSeqProperties
<1>3. r \in Seq(S) /\ Len(r) = n - i /\ \A k \in 1..n - i : r[k] = s[i + k]
  BY <1>1, SubSeqProperties
<1>4. /\ l \o r \in Seq(S) /\ Len(l \o r) = n - 1
      /\ \A k \in 1..n - 1 : (l \o r)[k] = IF k <= i - 1 THEN l[k] ELSE r[k - (i - 1)]
  <2>1. /\ l \o r \in Seq(S) /\ Len(l \o r) = Len(l) + Len(r)
        /\ \A k \in 1..Len(l) + Len(r) :
              (l \o r)[k] = IF k <= Len(l) THEN l[k] ELSE r[k - Len(l)]
    <3> HIDE DEF l, r
    <3> QED
      BY <1>2, <1>3, ConcatProperties
  <2>2. Len(l) + Len(r) = n - 1
    <3> HIDE DEF n, l, r
    <3> QED
      BY <1>1, <1>2, <1>3
  <2> QED
    BY <1>2, <2>1, <2>2
<1>5. RemoveAt(s, i) = l \o r
  BY DEF RemoveAt
<1>6. ASSUME NEW k \in 1..n - 1
      PROVE  (l \o r)[k] = IF k < i THEN s[k] ELSE s[k + 1]
  <2>0. i \in Nat /\ k \in Nat /\ k <= n - 1
    BY <1>1
  <2> HIDE DEF n, l, r
  <2>1. CASE k < i
    BY <1>1, <1>2, <1>4, <2>0, <2>1
  <2>2. CASE ~(k < i)
    <3>1. k - (i - 1) \in 1..n - i /\ i + (k - (i - 1)) = k + 1
      BY <1>1, <2>0, <2>2
    <3> QED
      BY <1>1, <1>3, <1>4, <2>0, <2>2, <3>1
  <2> QED
    BY <2>1, <2>2
<1> QED
  BY <1>4, <1>5, <1>6

(* A non-empty sequence without its last element, and that element. *)
LEMMA FrontFacts ==
    ASSUME NEW S, NEW s \in Seq(S), s # <<>>
    PROVE  /\ Len(s) \in Nat \ {0} /\ Last(s) \in S /\ Last(s) = s[Len(s)]
           /\ Front(s) \in Seq(S) /\ Len(Front(s)) = Len(s) - 1
           /\ \A k \in 1..Len(s) - 1 : Front(s)[k] = s[k]
<1>1. Len(s) \in Nat \ {0} /\ \A k \in 1..Len(s) : s[k] \in S
  BY EmptySeq, ElementOfSeq
<1>2. Last(s) \in S /\ Last(s) = s[Len(s)]
  BY <1>1 DEF Last
<1>3. /\ SubSeq(s, 1, Len(s) - 1) \in Seq(S) /\ Len(SubSeq(s, 1, Len(s) - 1)) = Len(s) - 1
      /\ \A k \in 1..Len(s) - 1 : SubSeq(s, 1, Len(s) - 1)[k] = s[k]
  <2> DEFINE m == Len(s) - 1
  <2>1. m \in Nat /\ m < Len(s) /\ \A k \in 1..m : s[k] \in S
    BY <1>1
  <2> HIDE DEF m
  <2>2. /\ SubSeq(s, 1, m) \in Seq(S) /\ Len(SubSeq(s, 1, m)) = m
        /\ \A k \in 1..m : SubSeq(s, 1, m)[k] = s[k]
    BY <2>1, SubSeqProperties
  <2> QED
    BY <2>2 DEF m
<1> QED
  BY <1>1, <1>2, <1>3 DEF Front

(* A non-empty set of natural numbers has a least one: from the order of   *)
(* finite sets, in which 1..n is below 1..m when n < m.                    *)
THEOREM LeastExists ==
    ASSUME NEW N \in SUBSET Nat, N # {}
    PROVE  \E n \in N : \A m \in N : n <= m
<1> DEFINE R == StrictSubsetOrdering(Nat)
           T == {1..n : n \in N}
<1>1. IsWellFoundedOn(R, FiniteSubsetsOf(Nat))
  BY FS_StrictSubsetOrderingWellFounded
<1>2. T \subseteq FiniteSubsetsOf(Nat) /\ T # {}
  BY IntervalFacts DEF FiniteSubsetsOf
<1>3. PICK x \in T : \A y \in T : ~(<<y, x>> \in R)
  <2> HIDE DEF R, T
  <2> QED
    BY <1>1, <1>2, WFMin
<1>4. PICK n \in N : x = 1..n
  BY <1>3
<1>5. ASSUME NEW m \in N, m < n PROVE FALSE
  <2>1. 1..m \in T
    OBVIOUS
  <2>2. 1..m \subseteq 1..n /\ 1..m # 1..n
    <3>1. m \in Nat /\ n \in Nat
      OBVIOUS
    <3>2. n \in 1..n /\ n \notin 1..m
      BY <1>5, <3>1
    <3> QED
      BY <1>5, <3>1, <3>2
  <2>3. <<1..m, 1..n>> \in R
    BY <2>2 DEF StrictSubsetOrdering
  <2> QED
    BY <1>3, <1>4, <2>1, <2>3
<1> QED
  BY <1>5

(* The same from above, for numbers up to a bound. *)
LEMMA GreatestExists ==
    ASSUME NEW n \in Nat, NEW N \in SUBSET (1..n), N # {}
    PROVE  \E g \in N : \A m \in N : m <= g
<1> DEFINE D == {n - m : m \in N}
<1>1. D \in SUBSET Nat /\ D # {}
  <2>1. \A m \in N : m \in 1..n
    OBVIOUS
  <2>2. \A m \in N : n - m \in Nat
    BY <2>1
  <2> QED
    BY <2>2
<1> HIDE DEF D
<1>2. PICK d \in D : \A e \in D : d <= e
  BY <1>1, LeastExists
<1>3. PICK g \in N : d = n - g
  BY <1>2 DEF D
<1>4. ASSUME NEW m \in N PROVE m <= g
  <2>1. n - m \in D
    BY DEF D
  <2>2. m \in Nat /\ g \in Nat /\ n - g <= n - m
    BY <1>2, <1>3, <2>1
  <2> QED
    BY <2>2
<1> QED
  BY <1>4

===============================================================================
