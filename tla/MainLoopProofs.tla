---------------------------- MODULE MainLoopProofs ----------------------------
(***************************************************************************)
(* Theorems about MainLoop, for any number of descriptors, watches,        *)
(* timeouts and helpers, and any number of broken iterations.              *)
(***************************************************************************)
EXTENDS MainLoop, FiniteSetTheorems, SequenceTheorems, WellFoundedInduction, TLAPS

(***************************************************************************)
(* Numbers.                                                                *)
(***************************************************************************)
LEMMA LeastNatural ==
  ASSUME NEW T \in SUBSET Nat, T # {}
  PROVE  \E m \in T : \A n \in T : m <= n
<1>1. \E m \in T : \A n \in T : ~(<<n, m>> \in OpToRel(<, Nat))
  BY NatLessThanWellFounded, WFMin
<1>2. PICK m \in T : \A n \in T : ~(<<n, m>> \in OpToRel(<, Nat)) BY <1>1
<1>3. ASSUME NEW n \in T PROVE m <= n
  <2>1. ~(n < m) BY <1>2 DEF OpToRel
  <2>. QED BY <2>1
<1>. QED BY <1>3

LEMMA LeastInteger ==
  ASSUME NEW T \in SUBSET Int, T # {}, NEW b \in Int, \A n \in T : b <= n
  PROVE  Min(T) \in T /\ \A n \in T : Min(T) <= n
<1> DEFINE U == {n - b : n \in T}
<1>1. U \in SUBSET Nat
  <2>1. \A n \in T : n - b \in Nat OBVIOUS
  <2>. QED BY <2>1
<1>2. U # {} OBVIOUS
<1>3. PICK u \in U : \A n \in U : u <= n BY <1>1, <1>2, LeastNatural
<1>4. PICK m \in T : u = m - b BY <1>3
<1>5. \A n \in T : m <= n
  <2>1. \A n \in T : m - b <= n - b BY <1>3, <1>4
  <2>. QED BY <2>1
<1>. QED BY <1>4, <1>5 DEF Min

LEMMA GreatestNatural ==
  ASSUME NEW T \in SUBSET Nat, T # {}, IsFiniteSet(T)
  PROVE  Max(T) \in T /\ \A n \in T : n <= Max(T)
<1> DEFINE Top(X) == \E m \in X : \A n \in X : n <= m
           Bad == {X \in FiniteSubsetsOf(Nat) : X # {} /\ ~Top(X)}
<1>1. ASSUME Bad # {} PROVE FALSE
  <2>1. PICK X \in Bad : \A Y \in Bad : ~(<<Y, X>> \in StrictSubsetOrdering(Nat))
    BY <1>1, FS_StrictSubsetOrderingWellFounded, WFMin
  <2>2. X \in SUBSET Nat /\ IsFiniteSet(X) /\ X # {} /\ ~Top(X) BY DEF FiniteSubsetsOf
  <2>3. PICK x \in X : TRUE BY <2>2
  <2>4. X \ {x} \in FiniteSubsetsOf(Nat)
    BY <2>2, FS_RemoveElement DEF FiniteSubsetsOf
  <2>5. X \ {x} \notin Bad
    BY <2>1, <2>2, <2>3, <2>4 DEF StrictSubsetOrdering, FiniteSubsetsOf
  <2>6. CASE X \ {x} = {} BY <2>2, <2>3, <2>6
  <2>7. CASE X \ {x} # {}
    <3>1. PICK m \in X \ {x} : \A n \in X \ {x} : n <= m BY <2>4, <2>5, <2>7
    <3>2. m \in Nat /\ x \in Nat BY <2>2, <3>1
    <3>. QED BY <2>2, <3>1, <3>2
  <2>. QED BY <2>6, <2>7
<1>2. T \in FiniteSubsetsOf(Nat) BY DEF FiniteSubsetsOf
<1>3. Top(T) BY <1>1, <1>2
<1>4. PICK m \in T : \A n \in T : n <= m BY <1>3
<1>. QED BY <1>4 DEF Max

(***************************************************************************)
(* Removing from a list.                                                   *)
(***************************************************************************)
\* y is x, or is behind it.
Behind(list, x, y) ==
  \E i, j \in 1 .. Len(list) : i <= j /\ list[i] = x /\ list[j] = y

LEMMA StayingStep ==
  ASSUME NEW list, NEW gone, NEW i \in Nat
  PROVE  /\ Staying(list, gone, i) \in Nat
         /\ Staying(list, gone, 0) = 0
         /\ i # 0 => Staying(list, gone, i) =
                       Staying(list, gone, i - 1) + (IF list[i] \in gone THEN 0 ELSE 1)
<1> DEFINE K(n) == {j \in 1 .. n : list[j] \notin gone}
<1>1. \A n \in Nat : IsFiniteSet(K(n)) /\ Cardinality(K(n)) \in Nat
  <2>. SUFFICES ASSUME NEW n \in Nat PROVE IsFiniteSet(K(n)) /\ Cardinality(K(n)) \in Nat
    OBVIOUS
  <2>1. IsFiniteSet(1 .. n) BY FS_Interval
  <2>2. K(n) \in SUBSET (1 .. n) OBVIOUS
  <2>. QED BY <2>1, <2>2, FS_Subset, FS_CardinalityType
<1>2. Cardinality(K(0)) = 0
  <2>1. K(0) = {} OBVIOUS
  <2>. QED BY <2>1, FS_EmptySet
<1>3. ASSUME i # 0, list[i] \in gone PROVE Cardinality(K(i)) = Cardinality(K(i - 1))
  <2>1. K(i) = K(i - 1) BY <1>3
  <2>. QED BY <2>1
<1>4. ASSUME i # 0, list[i] \notin gone PROVE Cardinality(K(i)) = Cardinality(K(i - 1)) + 1
  <2>1. K(i) = K(i - 1) \cup {i} /\ i \notin K(i - 1) BY <1>4
  <2>2. IsFiniteSet(K(i - 1)) BY <1>1, <1>4
  <2>. QED BY <2>1, <2>2, FS_AddElement
<1>5. \A n \in Nat : Staying(list, gone, n) = Cardinality(K(n)) BY DEF Staying
<1>6. i # 0 => i - 1 \in Nat OBVIOUS
<1>. HIDE DEF K
<1>. QED BY <1>1, <1>2, <1>3, <1>4, <1>5, <1>6

LEMMA StayingGrows ==
  ASSUME NEW list, NEW gone, NEW i \in Nat, NEW j \in Nat, i <= j
  PROVE  /\ Staying(list, gone, i) <= Staying(list, gone, j)
         /\ i < j /\ list[j] \notin gone =>
              Staying(list, gone, i) < Staying(list, gone, j)
<1>1. ASSUME NEW m \in Nat, NEW n \in Nat, m <= n
      PROVE  Staying(list, gone, m) <= Staying(list, gone, n)
  <2>1. IsFiniteSet(1 .. n) /\ {k \in 1 .. n : list[k] \notin gone} \in SUBSET (1 .. n)
    BY FS_Interval
  <2>2. {k \in 1 .. m : list[k] \notin gone} \in SUBSET {k \in 1 .. n : list[k] \notin gone}
    BY <1>1
  <2>. QED BY <2>1, <2>2, FS_Subset DEF Staying
<1>2. ASSUME i < j, list[j] \notin gone
      PROVE  Staying(list, gone, i) < Staying(list, gone, j)
  <2>1. j # 0 /\ j - 1 \in Nat /\ i <= j - 1 BY <1>2
  <2>2. Staying(list, gone, j) = Staying(list, gone, j - 1) + 1
    BY <1>2, <2>1, StayingStep
  <2>3. Staying(list, gone, i) <= Staying(list, gone, j - 1) BY <1>1, <2>1
  <2>4. Staying(list, gone, i) \in Nat /\ Staying(list, gone, j - 1) \in Nat
    BY <2>1, StayingStep
  <2>. QED BY <2>2, <2>3, <2>4
<1>. QED BY <1>1, <1>2

LEMMA StayingRank ==
  ASSUME NEW list, NEW gone, NEW n \in Nat,
         NEW k \in 1 .. Staying(list, gone, n)
  PROVE  \E i \in 1 .. n : list[i] \notin gone /\ Staying(list, gone, i) = k
<1> DEFINE T == {i \in Nat : k <= Staying(list, gone, i)}
<1>1. n \in T BY StayingStep
<1>2. PICK i \in T : \A j \in T : i <= j BY <1>1, LeastNatural
<1>3. i # 0 BY StayingStep
<1>4. i - 1 \in Nat /\ i - 1 \notin T BY <1>2, <1>3
<1>5. Staying(list, gone, i) =
        Staying(list, gone, i - 1) + (IF list[i] \in gone THEN 0 ELSE 1)
  BY <1>3, StayingStep
<1>6. Staying(list, gone, i - 1) \in Nat /\ Staying(list, gone, i - 1) < k
  BY <1>4, StayingStep
<1>7. list[i] \notin gone /\ Staying(list, gone, i) = k BY <1>2, <1>5, <1>6
<1>. QED BY <1>1, <1>2, <1>3, <1>7

LEMMA RemovedPlaces ==
  ASSUME NEW S, NEW list \in Seq(S), NEW gone
  PROVE  /\ Removed(list, gone) \in Seq(S)
         /\ \A k \in 1 .. Len(Removed(list, gone)) : \E i \in 1 .. Len(list) :
              /\ list[i] \notin gone /\ Staying(list, gone, i) = k
              /\ Removed(list, gone)[k] = list[i]
         /\ \A i \in 1 .. Len(list) : list[i] \notin gone =>
              /\ Staying(list, gone, i) \in 1 .. Len(Removed(list, gone))
              /\ Removed(list, gone)[Staying(list, gone, i)] = list[i]
<1> DEFINE r == Removed(list, gone)
           n == Staying(list, gone, Len(list))
           Place(k) == CHOOSE i \in DOMAIN list :
                         list[i] \notin gone /\ Staying(list, gone, i) = k
<1>1. n \in Nat /\ Len(list) \in Nat /\ DOMAIN list = 1 .. Len(list) BY StayingStep
<1>2. \A k \in 1 .. n : /\ Place(k) \in 1 .. Len(list) /\ list[Place(k)] \notin gone
                        /\ Staying(list, gone, Place(k)) = k
  <2>. SUFFICES ASSUME NEW k \in 1 .. n
                PROVE  /\ Place(k) \in 1 .. Len(list) /\ list[Place(k)] \notin gone
                       /\ Staying(list, gone, Place(k)) = k
    OBVIOUS
  <2>1. \E i \in 1 .. Len(list) : list[i] \notin gone /\ Staying(list, gone, i) = k
    BY <1>1, StayingRank
  <2>. QED BY <1>1, <2>1
<1>3. r = [k \in 1 .. n |-> list[Place(k)]] BY DEF Removed
<1>4. r \in Seq(S) /\ Len(r) = n
  <2>1. \A k \in 1 .. n : list[Place(k)] \in S BY <1>1, <1>2
  <2>. HIDE DEF Place, n
  <2>. QED BY <1>1, <1>3, <2>1
<1>5. ASSUME NEW i \in 1 .. Len(list), list[i] \notin gone
      PROVE  Staying(list, gone, i) \in 1 .. n /\ r[Staying(list, gone, i)] = list[i]
  <2>1. Staying(list, gone, 0) = 0 /\ Staying(list, gone, i) \in Nat BY StayingStep
  <2>2. Staying(list, gone, i) \in 1 .. n
    BY <1>1, <1>5, <2>1, StayingGrows
  <2> DEFINE j == Place(Staying(list, gone, i))
  <2>3. j \in 1 .. Len(list) /\ list[j] \notin gone /\ Staying(list, gone, j) = Staying(list, gone, i)
    BY <1>2, <2>2
  <2>4. ~(i < j) /\ ~(j < i) BY <1>5, <2>1, <2>3, StayingGrows
  <2>5. i = j BY <2>3, <2>4
  <2>. HIDE DEF Place, n
  <2>. QED BY <1>3, <2>2, <2>5
<1>6. ASSUME NEW k \in 1 .. n
      PROVE  \E i \in 1 .. Len(list) :
               list[i] \notin gone /\ Staying(list, gone, i) = k /\ r[k] = list[i]
  BY <1>2, <1>3
<1>. QED BY <1>4, <1>5, <1>6

LEMMA RemovedList ==
  ASSUME NEW S, NEW list \in Seq(S), NEW gone
  PROVE  /\ Removed(list, gone) \in Seq(S)
         /\ IsInjective(list) => IsInjective(Removed(list, gone))
         /\ \A x : Contains(Removed(list, gone), x) <=> Contains(list, x) /\ x \notin gone
         /\ \A x, y : Behind(Removed(list, gone), x, y) <=>
                        Behind(list, x, y) /\ x \notin gone /\ y \notin gone
<1> DEFINE r == Removed(list, gone)
           P(i) == Staying(list, gone, i)
<1>1. /\ r \in Seq(S)
      /\ \A k \in 1 .. Len(r) : \E i \in 1 .. Len(list) :
           list[i] \notin gone /\ P(i) = k /\ r[k] = list[i]
      /\ \A i \in 1 .. Len(list) : list[i] \notin gone =>
           P(i) \in 1 .. Len(r) /\ r[P(i)] = list[i]
  BY RemovedPlaces
<1>2. \A i, j \in 1 .. Len(list) :
        list[i] \notin gone /\ list[j] \notin gone => (i <= j <=> P(i) <= P(j))
  <2>. SUFFICES ASSUME NEW i \in 1 .. Len(list), NEW j \in 1 .. Len(list),
                       list[i] \notin gone, list[j] \notin gone
                PROVE  i <= j <=> P(i) <= P(j)
    OBVIOUS
  <2>0. i \in Nat /\ j \in Nat OBVIOUS
  <2>1. P(i) \in Nat /\ P(j) \in Nat BY <2>0, StayingStep, Zenon
  <2>2. i <= j => P(i) <= P(j) BY StayingGrows
  <2>3. j < i => P(j) < P(i) BY StayingGrows
  <2>. QED BY <2>1, <2>2, <2>3
<1>. HIDE DEF r, P
<1>3. DOMAIN r = 1 .. Len(r) /\ DOMAIN list = 1 .. Len(list) BY <1>1
<1>4. IsInjective(list) => IsInjective(r)
  BY <1>1, <1>3 DEF IsInjective
<1>5. \A x : Contains(r, x) <=> Contains(list, x) /\ x \notin gone
  BY <1>1 DEF Contains
<1>6. ASSUME NEW x, NEW y, Behind(r, x, y)
      PROVE  Behind(list, x, y) /\ x \notin gone /\ y \notin gone
  <2>1. PICK k \in 1 .. Len(r), l \in 1 .. Len(r) : k <= l /\ r[k] = x /\ r[l] = y
    BY <1>6 DEF Behind
  <2>2. PICK i \in 1 .. Len(list) : list[i] \notin gone /\ P(i) = k /\ r[k] = list[i]
    BY <1>1, <2>1
  <2>3. PICK j \in 1 .. Len(list) : list[j] \notin gone /\ P(j) = l /\ r[l] = list[j]
    BY <1>1, <2>1
  <2>4. i <= j BY <1>2, <2>1, <2>2, <2>3
  <2>. QED BY <2>1, <2>2, <2>3, <2>4 DEF Behind
<1>7. ASSUME NEW x, NEW y, Behind(list, x, y), x \notin gone, y \notin gone
      PROVE  Behind(r, x, y)
  BY <1>1, <1>2, <1>7 DEF Behind
<1>. QED BY <1>1, <1>4, <1>5, <1>6, <1>7 DEF r

(***************************************************************************)
(* Adding to a list, and walking along it.                                 *)
(***************************************************************************)
LEMMA AddedList ==
  ASSUME NEW S, NEW list \in Seq(S), NEW x \in S
  PROVE  /\ Added(list, x) \in Seq(S)
         /\ IsInjective(list) => IsInjective(Added(list, x))
         /\ \A y : Contains(Added(list, x), y) <=> Contains(list, y) \/ y = x
         /\ \A y, z : Contains(list, y) =>
              (Behind(Added(list, x), y, z) <=> Behind(list, y, z))
<1>1. CASE Contains(list, x)
  <2>1. Added(list, x) = list BY <1>1 DEF Added
  <2>. QED BY <1>1, <2>1
<1>2. CASE ~Contains(list, x)
  <2> DEFINE r == <<x>> \o list
  <2>1. Added(list, x) = r BY <1>2 DEF Added
  <2>2. /\ r \in Seq(S) /\ Len(r) = Len(list) + 1 /\ r[1] = x /\ Len(list) \in Nat
        /\ DOMAIN r = 1 .. Len(r) /\ DOMAIN list = 1 .. Len(list)
        /\ \A i \in 1 .. Len(list) : r[i + 1] = list[i]
    OBVIOUS
  <2>. HIDE DEF r
  <2>3. \A i \in 2 .. Len(r) : i - 1 \in 1 .. Len(list) /\ r[i] = list[i - 1]
    <3>. SUFFICES ASSUME NEW i \in 2 .. Len(r)
                  PROVE  i - 1 \in 1 .. Len(list) /\ r[i] = list[i - 1]
      OBVIOUS
    <3>1. i - 1 \in 1 .. Len(list) /\ (i - 1) + 1 = i BY <2>2
    <3>2. r[(i - 1) + 1] = list[i - 1] BY <2>2, <3>1
    <3>. QED BY <3>1, <3>2
  <2>4. \A i \in 1 .. Len(list) : list[i] # x BY <1>2 DEF Contains
  <2>5. \A i \in 1 .. Len(r) : i = 1 \/ i \in 2 .. Len(r) BY <2>2
  <2>6. IsInjective(list) => IsInjective(r)
    <3>. SUFFICES ASSUME IsInjective(list), NEW i \in 1 .. Len(r), NEW j \in 1 .. Len(r), r[i] = r[j]
                  PROVE  i = j
      BY <2>2 DEF IsInjective
    <3>1. CASE i = 1 \/ j = 1 BY <2>2, <2>3, <2>4, <2>5, <3>1
    <3>2. CASE i # 1 /\ j # 1
      <4>1. i - 1 \in 1 .. Len(list) /\ j - 1 \in 1 .. Len(list) /\ list[i - 1] = list[j - 1]
        BY <2>3, <2>5, <3>2
      <4>2. i - 1 = j - 1 BY <2>2, <4>1 DEF IsInjective
      <4>. QED BY <4>2
    <3>. QED BY <3>1, <3>2
  <2>7. \A y : Contains(r, y) <=> Contains(list, y) \/ y = x
    <3>1. ASSUME NEW y, Contains(r, y) PROVE Contains(list, y) \/ y = x
      BY <2>2, <2>3, <2>5, <3>1 DEF Contains
    <3>2. ASSUME NEW y, Contains(list, y) PROVE Contains(r, y)
      <4>1. PICK i \in 1 .. Len(list) : list[i] = y BY <3>2 DEF Contains
      <4>2. i + 1 \in 1 .. Len(r) /\ r[i + 1] = y BY <2>2, <4>1
      <4>. QED BY <4>2 DEF Contains
    <3>3. 1 \in 1 .. Len(r) BY <2>2
    <3>4. Contains(r, x) BY <2>2, <3>3 DEF Contains
    <3>. QED BY <3>1, <3>2, <3>4
  <2>8. ASSUME NEW y, NEW z, Contains(list, y)
        PROVE  Behind(r, y, z) <=> Behind(list, y, z)
    <3>1. y # x BY <2>4, <2>8 DEF Contains
    <3>2. ASSUME Behind(list, y, z) PROVE Behind(r, y, z)
      <4>1. PICK i \in 1 .. Len(list), j \in 1 .. Len(list) : i <= j /\ list[i] = y /\ list[j] = z
        BY <3>2 DEF Behind
      <4>2. i + 1 \in 1 .. Len(r) /\ j + 1 \in 1 .. Len(r) /\ i + 1 <= j + 1 BY <2>2, <4>1
      <4>3. r[i + 1] = y /\ r[j + 1] = z BY <2>2, <4>1
      <4>. QED BY <4>2, <4>3 DEF Behind
    <3>3. ASSUME Behind(r, y, z) PROVE Behind(list, y, z)
      <4>1. PICK i \in 1 .. Len(r), j \in 1 .. Len(r) : i <= j /\ r[i] = y /\ r[j] = z
        BY <3>3 DEF Behind
      <4>2. i # 1 BY <2>2, <3>1, <4>1
      <4>3. i \in 2 .. Len(r) /\ j \in 2 .. Len(r) BY <2>2, <4>1, <4>2
      <4>4. i - 1 <= j - 1 BY <4>1
      <4>. QED BY <2>3, <4>1, <4>3, <4>4 DEF Behind
    <3>. QED BY <3>2, <3>3
  <2>. QED BY <2>1, <2>2, <2>6, <2>7, <2>8
<1>. QED BY <1>1, <1>2

LEMMA PutBefore ==
  ASSUME NEW S, NEW l \in Seq(S), NEW m \in Seq(S), IsInjective(l), IsInjective(m),
         ToSet(m) \cap ToSet(l) = {}
  PROVE  Reverse(l) \o m \in Seq(S) /\ IsInjective(Reverse(l) \o m)
<1> DEFINE k == Reverse(l)
           r == k \o m
<1>1. /\ k \in Seq(S) /\ Len(k) = Len(l) /\ Len(l) \in Nat /\ Len(m) \in Nat
      /\ \A i \in 1 .. Len(l) : k[i] = l[(Len(l) - i) + 1]
  BY DEF Reverse
<1>. HIDE DEF k
<1>2. /\ r \in Seq(S) /\ Len(r) = Len(l) + Len(m)
      /\ DOMAIN r = 1 .. Len(r) /\ DOMAIN l = 1 .. Len(l) /\ DOMAIN m = 1 .. Len(m)
      /\ \A i \in 1 .. Len(r) : r[i] = IF i <= Len(l) THEN k[i] ELSE m[i - Len(l)]
  <2>0. k \in Seq(S) BY <1>1
  <2>1. r \in Seq(S) /\ Len(r) = Len(k) + Len(m) BY <2>0
  <2>2. DOMAIN r = 1 .. Len(r) /\ DOMAIN l = 1 .. Len(l) /\ DOMAIN m = 1 .. Len(m)
    BY <2>1
  <2>3. \A i \in 1 .. Len(k) + Len(m) : r[i] = IF i <= Len(k) THEN k[i] ELSE m[i - Len(k)]
    BY <1>1
  <2>. QED BY <1>1, <2>1, <2>2, <2>3
<1>. HIDE DEF r
<1>3. SUFFICES ASSUME NEW i \in 1 .. Len(r), NEW j \in 1 .. Len(r), i < j, r[i] = r[j]
               PROVE  FALSE
  <2>1. \A i, j \in 1 .. Len(r) : r[i] = r[j] => i = j
    <3>. SUFFICES ASSUME NEW i \in 1 .. Len(r), NEW j \in 1 .. Len(r), r[i] = r[j], i # j
                  PROVE  FALSE
      OBVIOUS
    <3>1. i < j \/ j < i OBVIOUS
    <3>. QED BY <1>3, <3>1
  <2>. QED BY <1>2, <2>1 DEF IsInjective, r, k
<1>4. CASE j <= Len(l)
  <2>1. i \in 1 .. Len(l) /\ j \in 1 .. Len(l) BY <1>1, <1>2, <1>3, <1>4
  <2>2. /\ (Len(l) - i) + 1 \in 1 .. Len(l) /\ (Len(l) - j) + 1 \in 1 .. Len(l)
        /\ (Len(l) - i) + 1 # (Len(l) - j) + 1
    BY <1>1, <1>3, <2>1
  <2>3. r[i] = k[i] /\ r[j] = k[j] BY <1>2, <2>1
  <2>4. r[i] = l[(Len(l) - i) + 1] /\ r[j] = l[(Len(l) - j) + 1]
    BY <1>1, <2>1, <2>3
  <2>. QED BY <1>2, <1>3, <2>2, <2>4 DEF IsInjective
<1>5. CASE i <= Len(l) /\ Len(l) < j
  <2>0. i \in 1 .. Len(l) BY <1>1, <1>2, <1>5
  <2>1. (Len(l) - i) + 1 \in 1 .. Len(l) /\ j - Len(l) \in 1 .. Len(m) BY <1>1, <1>2, <1>5
  <2>2. r[i] = l[(Len(l) - i) + 1] /\ r[j] = m[j - Len(l)]
    <3>1. r[i] = k[i] /\ r[j] = m[j - Len(l)] BY <1>1, <1>2, <1>5
    <3>. QED BY <1>1, <2>0, <3>1
  <2>3. l[(Len(l) - i) + 1] \in ToSet(l) /\ m[j - Len(l)] \in ToSet(m)
    BY <1>2, <2>1 DEF ToSet
  <2>. QED BY <1>3, <2>2, <2>3
<1>6. CASE Len(l) < i
  <2>1. i - Len(l) \in 1 .. Len(m) /\ j - Len(l) \in 1 .. Len(m) /\ i - Len(l) # j - Len(l)
    BY <1>1, <1>2, <1>3, <1>6
  <2>2. r[i] = m[i - Len(l)] /\ r[j] = m[j - Len(l)]
    BY <1>1, <1>2, <1>3, <1>6
  <2>. QED BY <1>2, <1>3, <2>1, <2>2 DEF IsInjective
<1>. QED BY <1>1, <1>2, <1>3, <1>4, <1>5, <1>6

LEMMA BehindIn ==
  ASSUME NEW list, NEW x, NEW y
  PROVE  /\ Behind(list, x, y) => Contains(list, x) /\ Contains(list, y)
         /\ Contains(list, x) => Behind(list, x, x)
<1>1. Behind(list, x, y) => Contains(list, x) /\ Contains(list, y) BY DEF Behind, Contains
<1>2. Contains(list, x) => Behind(list, x, x) BY DEF Behind, Contains
<1>. QED BY <1>1, <1>2

LEMMA FirstOfList ==
  ASSUME NEW S, NEW list \in Seq(S), None \notin S
  PROVE  /\ First(list) = None \/ Contains(list, First(list))
         /\ \A y : Contains(list, y) => First(list) # None /\ Behind(list, First(list), y)
<1>1. CASE list = <<>> BY <1>1 DEF First, Contains
<1>2. CASE list # <<>>
  <2>1. First(list) = list[1] /\ 1 \in 1 .. Len(list) /\ list[1] \in S /\ Len(list) \in Nat
    BY <1>2 DEF First
  <2>2. Contains(list, First(list)) BY <2>1 DEF Contains
  <2>3. ASSUME NEW y, Contains(list, y) PROVE Behind(list, First(list), y)
    <3>1. PICK j \in 1 .. Len(list) : list[j] = y BY <2>3 DEF Contains
    <3>2. 1 <= j BY <2>1
    <3>. QED BY <2>1, <3>1, <3>2 DEF Behind
  <2>. QED BY <2>1, <2>2, <2>3
<1>. QED BY <1>1, <1>2

LEMMA AfterInList ==
  ASSUME NEW S, NEW list \in Seq(S), None \notin S, IsInjective(list), NEW x, Contains(list, x)
  PROVE  /\ After(list, x) = None \/ Contains(list, After(list, x))
         /\ After(list, x) # x
         /\ ~Behind(list, After(list, x), x)
         /\ \A y : Behind(list, After(list, x), y) => Behind(list, x, y)
         /\ \A y : Behind(list, x, y) /\ y # x =>
              After(list, x) # None /\ Behind(list, After(list, x), y)
<1>1. PICK n \in 1 .. Len(list) : list[n] = x BY DEF Contains
<1>2. \A i \in 1 .. Len(list) : list[i] = x => i = n
  BY <1>1 DEF IsInjective
<1>3. x \in S /\ Len(list) \in Nat /\ DOMAIN list = 1 .. Len(list) BY <1>1
<1>4. SelectInSeq(list, LAMBDA y : y = x) = n
  <2> DEFINE I == {i \in 1 .. Len(list) : list[i] = x}
  <2>1. I = {n} BY <1>1, <1>2
  <2>2. Min(I) = n BY <2>1, <1>3 DEF Min
  <2>. QED BY <2>1, <2>2 DEF SelectInSeq
<1>5. After(list, x) = IF n \in 1 .. Len(list) - 1 THEN list[n + 1] ELSE None
  BY <1>4 DEF After
<1>6. CASE n \in 1 .. Len(list) - 1
  <2>1. After(list, x) = list[n + 1] /\ n + 1 \in 1 .. Len(list) BY <1>3, <1>5, <1>6
  <2>2. Contains(list, After(list, x)) BY <2>1 DEF Contains
  <2>3. \A i \in 1 .. Len(list) : list[i] = After(list, x) => i = n + 1
    BY <1>3, <2>1 DEF IsInjective
  <2>4. After(list, x) # x BY <1>2, <2>1
  <2>5. ASSUME NEW y, Behind(list, After(list, x), y) PROVE Behind(list, x, y) /\ y # x
    <3>1. PICK i \in 1 .. Len(list), j \in 1 .. Len(list) :
            i <= j /\ list[i] = After(list, x) /\ list[j] = y
      BY <2>5 DEF Behind
    <3>2. i = n + 1 /\ n <= j /\ j # n BY <2>3, <3>1
    <3>. QED BY <1>1, <1>2, <3>1, <3>2 DEF Behind
  <2>6. ASSUME NEW y, Behind(list, x, y), y # x PROVE Behind(list, After(list, x), y)
    <3>1. PICK i \in 1 .. Len(list), j \in 1 .. Len(list) : i <= j /\ list[i] = x /\ list[j] = y
      BY <2>6 DEF Behind
    <3>2. i = n /\ j # n /\ n + 1 <= j BY <1>1, <1>2, <2>6, <3>1
    <3>. QED BY <2>1, <3>1, <3>2 DEF Behind
  <2>7. After(list, x) # None BY <2>1
  <2>. QED BY <2>2, <2>4, <2>5, <2>6, <2>7
<1>7. CASE n \notin 1 .. Len(list) - 1
  <2>0. n = Len(list)
    <3>1. \A b \in Nat : \A a \in 1 .. b : a \notin 1 .. b - 1 => a = b OBVIOUS
    <3>. QED BY <1>3, <1>7, <3>1
  <2>1. After(list, x) = None /\ n = Len(list) BY <1>5, <1>7, <2>0
  <2>2. ~Contains(list, None) BY DEF Contains
  <2>3. \A y : ~Behind(list, None, y) BY <2>2 DEF Behind, Contains
  <2>4. ASSUME NEW y, Behind(list, x, y) PROVE y = x
    <3>1. PICK i \in 1 .. Len(list), j \in 1 .. Len(list) : i <= j /\ list[i] = x /\ list[j] = y
      BY <2>4 DEF Behind
    <3>2. i = n BY <1>2, <3>1
    <3>3. j = n
      <4>1. \A b \in Nat : \A a \in 1 .. b : b <= a => a = b OBVIOUS
      <4>. QED BY <1>3, <2>1, <3>1, <3>2, <4>1
    <3>. QED BY <1>1, <3>1, <3>3
  <2>. QED BY <1>3, <2>1, <2>3, <2>4
<1>. QED BY <1>6, <1>7

(***************************************************************************)
(* The inductive invariant: TypeOK and five parts.                         *)
(***************************************************************************)
Walk    == {"watches", "watch fn"}
PidWalk == {"pids", "pid fn"}

\* The pointers of the walks: to elements of the list that is walked, to one
\* that was freed, or to none.
Pointers ==
  /\ pc = "watch fn" => at \in Fds \cup {Freed} /\ (at \in Fds => Contains(watches, at))
  /\ pc = "pid fn" => at \in Pids \cup {Freed} /\ (at \in Pids => Contains(pids, at))
  /\ pc \notin {"watch fn", "pid fn"} => at = None
  /\ pc \in Walk => next \in Items \cup {None, Freed} /\ (next \in Items => Contains(watches, next))
  /\ pc \in PidWalk => next \in Pids \cup {None, Freed} /\ (next \in Pids => Contains(pids, next))
  /\ pc \notin Walk \cup PidWalk \cup {"undefined"} => next = None
  /\ at \in Items \cup Pids => next # at

\* A pointer to what was freed has a reason, and so has a ready watch that is
\* not in the list any more.
Reasons ==
  /\ at = Freed \/ next = Freed => "careless" \in blamed
  /\ pc = "undefined" => blamed \cap {"careless", "both ready"} # {}
  /\ pc # "undefined" => "both ready" \in blamed \/ \A w \in ToSet(dwatches) : Contains(watches, w)
  /\ pc \notin Walk \cup {"dwatches", "undefined"} => dwatches = <<>>

\* What was called back lies behind the walk, and what is ready lies ahead of it.
Visits ==
  /\ \A f \in Fds : calls[f] <= 1
  /\ pc \in Walk =>
       \A f \in Fds :
         /\ calls[f] # 0 => ~Behind(watches, next, f)
         /\ f \in bits /\ calls[f] = 0 /\ f \notin dropped /\ next # Freed
              => Behind(watches, next, f)
  /\ pc = "dwatches" => \A f \in Fds : f \in bits => calls[f] = 1 \/ f \in dropped
  /\ pc \notin Walk \cup {"dwatches", "undefined"} => \A f \in Fds : calls[f] = 0

\* The process whose callback runs has been waited for.
Helpers ==
  /\ HelpersListed
  /\ pc = "pid fn" /\ at \in Pids => child[at] = "no" \/ "same pid" \in blamed

\* select waits for no timeout longer than it has left.
Times ==
  /\ \A t \in armed : Contains(timers, t)
  /\ (\E t \in Timers : left[t] = Past) => "overdue" \in blamed
  /\ tv < 0 => "overdue" \in blamed
  /\ pc = "select" => /\ useTv <=> UseTv
                      /\ \A t \in armed : left[t] # Past => tv <= left[t]

LoopInvariant == TypeOK /\ Pointers /\ Reasons /\ Visits /\ Helpers /\ Times

(***************************************************************************)
(* Types.                                                                  *)
(***************************************************************************)
LEMMA Names ==
  /\ None \notin Items /\ None \notin Pids /\ Freed \notin Items /\ Freed \notin Pids
  /\ None # Freed /\ Items \cap Pids = {} /\ Fds \cap DWatches = {}
  /\ Fds \subseteq Items /\ DWatches \subseteq Items
BY LoopAssumption DEF Items

LEMMA LeftType == Left \subseteq Int /\ {Past, 0, 1} \cup Intervals \subseteq Left
                  /\ \A n \in Left : Past <= n /\ (n # Past => n \in Nat /\ n - 1 \in Left)
<1> DEFINE m == Max(Intervals \cup {1})
<1>1. Intervals \cup {1} \in SUBSET Nat /\ Intervals \cup {1} # {} BY LoopAssumption
<1>2. IsFiniteSet(Intervals \cup {1}) BY LoopAssumption, FS_AddElement
<1>3. m \in Nat /\ \A n \in Intervals \cup {1} : n <= m BY <1>1, <1>2, GreatestNatural
<1>. HIDE DEF m
<1>4. Left = -1 .. m BY DEF Left, Past, m
<1>. QED BY <1>1, <1>3, <1>4 DEF Past

LEMMA IntervalBounds ==
  ASSUME timers \in Seq(Timers), left \in [Timers -> Left]
  PROVE  /\ Interval \in Left
         /\ \A t \in armed : Contains(timers, t) => Interval <= left[t]
         /\ Interval < 0 => \E t \in Timers : left[t] = Past
<1> DEFINE enabled == {i \in DOMAIN timers : timers[i] \in armed}
           start == IF 1 \in enabled THEN left[timers[1]] ELSE IF pids # <<>> THEN 1 ELSE 0
           T == {start} \cup {left[timers[i]] : i \in enabled}
<1>1. \A i \in enabled : i \in 1 .. Len(timers) /\ timers[i] \in Timers /\ left[timers[i]] \in Left
  OBVIOUS
<1>2. start \in {0, 1} \cup {left[timers[i]] : i \in enabled} OBVIOUS
<1>3. T \subseteq Left BY <1>1, <1>2, LeftType
<1>4. Interval = Min(T) BY DEF Interval, Shortest
<1>5. T \in SUBSET Int /\ T # {} /\ -1 \in Int /\ \A n \in T : -1 <= n
  BY <1>3, LeftType DEF Past
<1>6. Min(T) \in T /\ \A n \in T : Min(T) <= n BY ONLY <1>5, LeastInteger
<1>7. ASSUME NEW t \in armed, Contains(timers, t) PROVE left[t] \in T
  <2>1. PICK i \in 1 .. Len(timers) : timers[i] = t BY <1>7 DEF Contains
  <2>2. i \in enabled BY <2>1
  <2>. QED BY <2>1, <2>2
<1>8. ASSUME Min(T) < 0 PROVE \E t \in Timers : left[t] = Past
  <2>1. PICK m \in T : m = Min(T) /\ m < 0 BY <1>6, <1>8
  <2>2. m \notin {0, 1} BY <2>1
  <2>3. m \in {left[timers[i]] : i \in enabled} BY <1>2, <2>2
  <2>4. PICK i \in enabled : m = left[timers[i]] BY <2>3
  <2>5. m \in Left BY <1>3
  <2>6. m = Past
    <3>. HIDE DEF T
    <3>. QED BY <2>1, <2>5, LeftType
  <2>. QED BY <1>1, <2>4, <2>6
<1>. QED BY <1>3, <1>4, <1>6, <1>7, <1>8

LEMMA AfterType ==
  ASSUME NEW S, NEW list \in Seq(S), NEW x
  PROVE  After(list, x) \in S \cup {None} /\ First(list) \in S \cup {None}
<1>1. First(list) \in S \cup {None} BY DEF First
<1> DEFINE i == SelectInSeq(list, LAMBDA y : y = x)
<1>2. After(list, x) = IF i \in 1 .. Len(list) - 1 THEN list[i + 1] ELSE None BY DEF After
<1>. HIDE DEF i
<1>3. ASSUME i \in 1 .. Len(list) - 1 PROVE list[i + 1] \in S
  <2>1. Len(list) \in Nat OBVIOUS
  <2>2. i + 1 \in 1 .. Len(list) BY <1>3, <2>1
  <2>. QED BY <2>2
<1>. QED BY <1>1, <1>2, <1>3

LEMMA WatchesType ==
  ASSUME NEW c \in DConns
  PROVE  /\ WatchesOf[c] \in Seq(Items) /\ IsInjective(WatchesOf[c])
         /\ ToSet(WatchesOf[c]) \subseteq DWatches
<1>1. WatchesOf[c] \in Seq(DWatches) /\ IsInjective(WatchesOf[c]) BY LoopAssumption
<1>2. \A i \in 1 .. Len(WatchesOf[c]) : WatchesOf[c][i] \in DWatches BY <1>1
<1>3. WatchesOf[c] \in Seq(Items) BY <1>1, SeqMonotonic, Names
<1>. QED BY <1>1, <1>2, <1>3 DEF ToSet

LEMMA TypeInit == ASSUME Init PROVE TypeOK
<1>. USE DEF Init
<1>1. left \in [Timers -> Left] /\ tv \in Left BY LeftType
<1>2. IsInjective(<<>>) BY DEF IsInjective
<1>3. IsInjective(watches) /\ IsInjective(timers) /\ IsInjective(pids) BY <1>2
<1>4. watches \in Seq(Items) /\ timers \in Seq(Timers) /\ pids \in Seq(Pids) /\ dwatches \in Seq(DWatches)
  OBVIOUS
<1>5. child \in [Pids -> {"no", "running", "ended"}] /\ calls \in [Fds -> Nat] OBVIOUS
<1>. QED BY <1>1, <1>3, <1>4, <1>5 DEF TypeOK

\* One more call of the callback of a descriptor.
LEMMA CountedOnce ==
  ASSUME NEW n \in [Fds -> Nat], NEW f
  PROVE  [n EXCEPT ![f] = @ + 1] \in [Fds -> Nat]
<1>1. \A g \in Fds : n[g] \in Nat /\ n[g] + 1 \in Nat OBVIOUS
<1>2. [n EXCEPT ![f] = @ + 1] = [g \in Fds |-> IF g = f THEN n[g] + 1 ELSE n[g]] OBVIOUS
<1>. QED BY <1>1, <1>2, Zenon

LEMMA TypeStep == ASSUME TypeOK, Pointers, [Next]_vars PROVE TypeOK'
<1>a. dwatches \in Seq(DWatches) /\ calls \in [Fds -> Nat] /\ tv \in Left BY DEF TypeOK
<1>b. Tail(dwatches) \in Seq(DWatches) \/ dwatches = <<>> BY <1>a
<1>c. \A w \in DWatches : Append(dwatches, w) \in Seq(DWatches) BY <1>a
<1>d. \A f \in Fds : calls[f] + 1 \in Nat BY <1>a
<1>e. tv \in Int BY <1>a, LeftType
<1>. USE DEF TypeOK
<1>0. \A gone :
        /\ Removed(watches, gone) \in Seq(Items) /\ IsInjective(Removed(watches, gone))
        /\ Removed(pids, gone) \in Seq(Pids) /\ IsInjective(Removed(pids, gone))
        /\ Removed(timers, gone) \in Seq(Timers) /\ IsInjective(Removed(timers, gone))
  BY RemovedList
<1>1. CASE UNCHANGED vars
  BY <1>1 DEF vars, lists, libdbus, history
<1>2. ASSUME NEW f \in Fds, AddWatch(f) PROVE TypeOK'
  <2>1. Added(watches, f) \in Seq(Items) /\ IsInjective(Added(watches, f)) BY Names, AddedList
  <2>. QED BY <1>2, <2>1 DEF AddWatch, libdbus, history
<1>3. ASSUME NEW f \in Fds, RemoveWatch(f) PROVE TypeOK'
  <2>1. Removed(watches, {f}) \in Seq(Items) /\ IsInjective(Removed(watches, {f})) BY <1>0
  <2>2. blamed' \subseteq Events BY <1>3 DEF RemoveWatch, Blame, Events
  <2>. QED BY <1>3, <2>1, <2>2 DEF RemoveWatch, libdbus
<1>4. ASSUME NEW p \in Pids, StartHelper(p) PROVE TypeOK'
  <2>1. Added(pids, p) \in Seq(Pids) /\ IsInjective(Added(pids, p)) BY AddedList
  <2>2. blamed' \subseteq Events BY <1>4 DEF StartHelper, Blame, Events
  <2>. QED BY <1>4, <2>1, <2>2 DEF StartHelper, libdbus
<1>5. ASSUME NEW p \in Pids, RemovePid(p) PROVE TypeOK'
  <2>1. Removed(pids, {p}) \in Seq(Pids) /\ IsInjective(Removed(pids, {p})) BY <1>0
  <2>2. blamed' \subseteq Events BY <1>5 DEF RemovePid, Blame, Events
  <2>. QED BY <1>5, <2>1, <2>2 DEF RemovePid, libdbus
<1>6. CASE Iterate
  <2>1. Interval \in Left BY IntervalBounds
  <2>. QED BY <1>6, <2>1 DEF Iterate, UseTv, lists, libdbus
<1>7. ASSUME NEW b \in SUBSET Items, Found(b) PROVE TypeOK'
  <2>1. First(watches) \in Items \cup {None} BY AfterType
  <2>2. 0 \in Left BY LeftType
  <2>. QED BY <1>7, <2>1, <2>2 DEF Found, lists, libdbus, history
<1>8. CASE SelectFails
  <2>1. 0 \in Left BY LeftType
  <2>. QED BY <1>8, <2>1 DEF SelectFails, lists, libdbus, history
<1>9. CASE IterateFails BY <1>9 DEF IterateFails, lists, libdbus, history
<1>10. CASE VisitDbus
  <2>1. After(watches, next) \in Items \cup {None} BY AfterType
  <2>2. Append(dwatches, next) \in Seq(DWatches) /\ dwatches' \in {dwatches, Append(dwatches, next)}
    BY <1>c, <1>10 DEF VisitDbus, VisitDwatch
  <2>3. seen' \in BOOLEAN BY <1>10 DEF VisitDbus, VisitDwatch
  <2>. QED BY <1>10, <2>1, <2>2, <2>3 DEF VisitDbus, VisitDwatch, Walking, lists, libdbus, history
<1>11. CASE VisitOddjob
  <2>1. After(watches, next) \in Items \cup {None} BY AfterType
  <2>2. next \in Fds /\ next \in Items BY <1>11, Names DEF VisitOddjob
  <2>3. calls' \in [Fds -> Nat]
    <3>1. calls' = calls \/ calls' = [calls EXCEPT ![next] = @ + 1] BY <1>11 DEF VisitOddjob
    <3>2. [calls EXCEPT ![next] = @ + 1] \in [Fds -> Nat] BY <1>a, CountedOnce
    <3>. QED BY <1>a, <3>1, <3>2, Zenon
  <2>. QED BY <1>11, <2>1, <2>2, <2>3, ZenonT(30) DEF VisitOddjob, lists, libdbus
<1>12. CASE VisitFreed BY <1>12 DEF VisitFreed, lists, libdbus, history
<1>13. CASE WatchFnReturns
  <2>1. Removed(watches, {at}) \in Seq(Items) /\ IsInjective(Removed(watches, {at}))
    BY <1>0
  <2>2. watches' \in Seq(Items) /\ IsInjective(watches')
    BY <1>13, <2>1 DEF WatchFnReturns, EndOfWatch
  <2>3. dropped' \subseteq Fds
    <3>1. at \in Fds \cup {Freed} BY <1>13 DEF WatchFnReturns, EndOfWatch, Pointers
    <3>. QED BY <1>13, <3>1 DEF WatchFnReturns, EndOfWatch
  <2>. QED BY <1>13, <2>2, <2>3 DEF WatchFnReturns, EndOfWatch, libdbus
<1>14. CASE EndWatches BY <1>14 DEF EndWatches, lists, libdbus, history
<1>15. CASE HandleDwatch
  <2>2. watches' \in Seq(Items) /\ IsInjective(watches')
    BY <1>0, <1>15 DEF HandleDwatch
  <2>1. Tail(dwatches) \in Seq(DWatches) BY <1>b, <1>15 DEF HandleDwatch
  <2>3. dwatches' \in Seq(DWatches) BY <1>15, <2>1 DEF HandleDwatch
  <2>4. on' \subseteq DWatches BY <1>15 DEF HandleDwatch
  <2>5. blamed' \subseteq Events BY <1>15 DEF HandleDwatch, Blame, Events
  <2>6. pc' \in {"dwatches", "undefined"} BY <1>15 DEF HandleDwatch
  <2>. QED BY <1>15, <2>2, <2>3, <2>4, <2>5, <2>6 DEF HandleDwatch
<1>16. CASE HandleTimers
  <2>1. Removed(timers, armed) \in Seq(Timers) /\ IsInjective(Removed(timers, armed)) BY <1>0
  <2>2. First(pids) \in Pids \cup {None} BY AfterType
  <2>3. left' \in [Timers -> Left] BY <1>16, LeftType DEF HandleTimers
  <2>. QED BY <1>16, <2>1, <2>2, <2>3 DEF HandleTimers
<1>17. CASE VisitPid
  <2>1. After(pids, next) \in Pids \cup {None} BY AfterType
  <2>. QED BY <1>17, <2>1 DEF VisitPid, lists, libdbus, history
<1>18. CASE PidFnReturns
  <2>1. Removed(pids, {at}) \in Seq(Pids) /\ IsInjective(Removed(pids, {at})) BY <1>0
  <2>. QED BY <1>18, <2>1 DEF PidFnReturns, libdbus, history
<1>19. CASE EndPids BY <1>19 DEF EndPids, lists, libdbus, history
<1>20. ASSUME NEW c \in DConns, Attach(c) PROVE TypeOK'
  <2>1. /\ WatchesOf[c] \in Seq(Items) /\ IsInjective(WatchesOf[c])
        /\ ToSet(WatchesOf[c]) \subseteq DWatches
    BY WatchesType
  <2>3. Reverse(WatchesOf[c]) \o watches \in Seq(Items)
        /\ IsInjective(Reverse(WatchesOf[c]) \o watches)
    BY <1>20, <2>1, PutBefore DEF Attach
  <2>5. on' \subseteq DWatches BY <1>20, <2>1 DEF Attach
  <2>. QED BY <1>20, <2>3, <2>5 DEF Attach, LibdbusKeeps, history
<1>21. ASSUME NEW c \in DConns, Detach(c) PROVE TypeOK'
  <2>. QED BY <1>0, <1>21 DEF Detach, LibdbusKeeps, history
<1>22. ASSUME NEW w \in DWatches, Toggle(w) PROVE TypeOK'
  <2>1. on' \subseteq DWatches BY <1>22 DEF Toggle
  <2>. QED BY <1>22, <2>1 DEF Toggle, LibdbusKeeps, history
<1>23. ASSUME NEW t \in Timers, NEW n \in Intervals, SetTimer(t, n) PROVE TypeOK'
  <2>1. Added(timers, t) \in Seq(Timers) /\ IsInjective(Added(timers, t)) BY AddedList
  <2>2. left' \in [Timers -> Left] /\ armed' \subseteq Timers BY <1>23, LeftType DEF SetTimer
  <2>. QED BY <1>23, <2>1, <2>2 DEF SetTimer, LibdbusKeeps, history
<1>24. ASSUME NEW t \in Timers, TakeTimer(t) PROVE TypeOK'
  <2>1. Removed(timers, {t}) \in Seq(Timers) /\ IsInjective(Removed(timers, {t})) BY <1>0
  <2>2. left' \in [Timers -> Left] /\ armed' \subseteq Timers BY <1>24, LeftType DEF TakeTimer
  <2>. QED BY <1>24, <2>1, <2>2 DEF TakeTimer, LibdbusKeeps, history
<1>25. CASE Tick
  <2>1. left' \in [Timers -> Left]
    <3>1. \A t \in Timers : left[t] # Past => left[t] - 1 \in Left BY LeftType
    <3>. QED BY <1>25, <3>1 DEF Tick
  <2>2. tv' \in Left
    <3>1. CASE pc = "select" /\ useTv
      <4>1. tv > 0 /\ tv' = tv - 1 BY <1>25, <3>1 DEF Tick
      <4>2. tv # Past
        <5>1. ~(Past > 0) BY ONLY DEF Past
        <5>. QED BY <4>1, <5>1
      <4>. QED BY <4>1, <4>2, LeftType
    <3>2. CASE ~(pc = "select" /\ useTv) BY <1>25, <3>2 DEF Tick
    <3>. QED BY <3>1, <3>2
  <2>3. blamed' \subseteq Events BY <1>25 DEF Tick, Blame, Events
  <2>. QED BY <1>25, <2>1, <2>2, <2>3 DEF Tick, lists
<1>26. ASSUME NEW p \in Pids, HelperEnds(p) PROVE TypeOK'
  BY <1>26 DEF HelperEnds, lists, libdbus, history
<1>27. \A b \in SUBSET Items : SelectReady(b) => Found(b) BY DEF SelectReady
<1>28. SelectExpires => Found({}) BY DEF SelectExpires
<1>29. CASE Loop
  BY <1>7, <1>8, <1>9, <1>10, <1>11, <1>12, <1>13, <1>14, <1>15, <1>16, <1>17, <1>18, <1>19,
     <1>28, <1>29 DEF Loop, SelectRefused
<1>30. CASE Program BY <1>2, <1>3, <1>4, <1>5, <1>6, <1>30 DEF Program
<1>31. CASE Environment
  BY <1>7, <1>8, <1>20, <1>21, <1>22, <1>23, <1>24, <1>25, <1>26, <1>27, <1>31
  DEF Environment, SelectInterrupted
<1>. QED BY <1>1, <1>29, <1>30, <1>31 DEF Next, Anything

(***************************************************************************)
(* What the steps do to the lists, in terms of their elements.             *)
(***************************************************************************)
LEMMA Lists ==
  ASSUME TypeOK
  PROVE  /\ watches \in Seq(Items) /\ IsInjective(watches)
         /\ pids \in Seq(Pids) /\ IsInjective(pids)
         /\ timers \in Seq(Timers) /\ IsInjective(timers)
         /\ \A x : Contains(watches, x) => x \in Items
         /\ \A x : Contains(pids, x) => x \in Pids
         /\ \A gone, x :
              /\ Contains(Removed(watches, gone), x) <=> Contains(watches, x) /\ x \notin gone
              /\ Contains(Removed(pids, gone), x) <=> Contains(pids, x) /\ x \notin gone
              /\ Contains(Removed(timers, gone), x) <=> Contains(timers, x) /\ x \notin gone
         /\ \A y, x :
              /\ Contains(Removed(watches, {y}), x) <=> Contains(watches, x) /\ x # y
              /\ Contains(Removed(pids, {y}), x) <=> Contains(pids, x) /\ x # y
              /\ Contains(Removed(timers, {y}), x) <=> Contains(timers, x) /\ x # y
         /\ \A f \in Fds : \A x : Contains(Added(watches, f), x) <=> Contains(watches, x) \/ x = f
         /\ \A p \in Pids : \A x : Contains(Added(pids, p), x) <=> Contains(pids, x) \/ x = p
         /\ \A t \in Timers : \A x : Contains(Added(timers, t), x) <=> Contains(timers, x) \/ x = t
<1>1. /\ watches \in Seq(Items) /\ IsInjective(watches)
      /\ pids \in Seq(Pids) /\ IsInjective(pids)
      /\ timers \in Seq(Timers) /\ IsInjective(timers)
  BY DEF TypeOK
<1>2. \A x : Contains(watches, x) => x \in Items BY <1>1 DEF Contains
<1>3. \A x : Contains(pids, x) => x \in Pids BY <1>1 DEF Contains
<1>4. \A gone, x :
        /\ Contains(Removed(watches, gone), x) <=> Contains(watches, x) /\ x \notin gone
        /\ Contains(Removed(pids, gone), x) <=> Contains(pids, x) /\ x \notin gone
        /\ Contains(Removed(timers, gone), x) <=> Contains(timers, x) /\ x \notin gone
  BY <1>1, RemovedList
<1>8. ASSUME NEW y, NEW x
      PROVE  /\ Contains(Removed(watches, {y}), x) <=> Contains(watches, x) /\ x # y
             /\ Contains(Removed(pids, {y}), x) <=> Contains(pids, x) /\ x # y
             /\ Contains(Removed(timers, {y}), x) <=> Contains(timers, x) /\ x # y
  <2> DEFINE gone == {y}
  <2>1. x \in gone <=> x = y OBVIOUS
  <2>. HIDE DEF gone
  <2>2. /\ Contains(Removed(watches, gone), x) <=> Contains(watches, x) /\ x # y
        /\ Contains(Removed(pids, gone), x) <=> Contains(pids, x) /\ x # y
        /\ Contains(Removed(timers, gone), x) <=> Contains(timers, x) /\ x # y
    BY <1>4, <2>1
  <2>. QED BY <2>2 DEF gone
<1>5. \A f \in Fds : \A x : Contains(Added(watches, f), x) <=> Contains(watches, x) \/ x = f
  BY <1>1, AddedList, Names
<1>6. \A p \in Pids : \A x : Contains(Added(pids, p), x) <=> Contains(pids, x) \/ x = p
  BY <1>1, AddedList
<1>7. \A t \in Timers : \A x : Contains(Added(timers, t), x) <=> Contains(timers, x) \/ x = t
  BY <1>1, AddedList
<1>. QED BY <1>1, <1>2, <1>3, <1>4, <1>5, <1>6, <1>7, <1>8

\* The pointer to the next element, set while it is known that the present
\* one is in the list.
LEMMA Onwards ==
  ASSUME TypeOK
  PROVE  /\ First(watches) \in Items \cup {None}
         /\ First(watches) \in Items => Contains(watches, First(watches))
         /\ First(pids) \in Pids \cup {None}
         /\ First(pids) \in Pids => Contains(pids, First(pids))
         /\ \A x : Contains(watches, x) =>
              /\ After(watches, x) \in Items \cup {None} /\ After(watches, x) # x
              /\ After(watches, x) \in Items => Contains(watches, After(watches, x))
         /\ \A x : Contains(pids, x) =>
              /\ After(pids, x) \in Pids \cup {None} /\ After(pids, x) # x
              /\ After(pids, x) \in Pids => Contains(pids, After(pids, x))
<1>1. /\ watches \in Seq(Items) /\ IsInjective(watches) /\ None \notin Items
      /\ pids \in Seq(Pids) /\ IsInjective(pids) /\ None \notin Pids
  BY Lists, Names
<1>2. /\ First(watches) \in Items \cup {None} /\ First(pids) \in Pids \cup {None}
      /\ First(watches) = None \/ Contains(watches, First(watches))
      /\ First(pids) = None \/ Contains(pids, First(pids))
  BY <1>1, AfterType, FirstOfList
<1>3. ASSUME NEW x, Contains(watches, x)
      PROVE  /\ After(watches, x) \in Items \cup {None} /\ After(watches, x) # x
             /\ After(watches, x) \in Items => Contains(watches, After(watches, x))
  <2>1. After(watches, x) \in Items \cup {None} BY <1>1, AfterType
  <2>2. /\ After(watches, x) = None \/ Contains(watches, After(watches, x))
        /\ After(watches, x) # x
    BY <1>1, <1>3, AfterInList
  <2>. QED BY <1>1, <2>1, <2>2
<1>4. ASSUME NEW x, Contains(pids, x)
      PROVE  /\ After(pids, x) \in Pids \cup {None} /\ After(pids, x) # x
             /\ After(pids, x) \in Pids => Contains(pids, After(pids, x))
  <2>1. After(pids, x) \in Pids \cup {None} BY <1>1, AfterType
  <2>2. /\ After(pids, x) = None \/ Contains(pids, After(pids, x))
        /\ After(pids, x) # x
    BY <1>1, <1>4, AfterInList
  <2>. QED BY <1>1, <2>1, <2>2
<1>. QED BY <1>1, <1>2, <1>3, <1>4

(***************************************************************************)
(* Pointers.                                                               *)
(***************************************************************************)
LEMMA PointersInit == ASSUME Init PROVE Pointers
BY Names DEF Init, Pointers, Walk, PidWalk

LEMMA PointersStep == ASSUME TypeOK, Pointers, [Next]_vars PROVE Pointers'
<1>. USE DEF Pointers, Walk, PidWalk
<1>1. CASE UNCHANGED vars
  BY <1>1 DEF vars, lists
<1>2. ASSUME NEW f \in Fds, AddWatch(f) PROVE Pointers'
  BY <1>2, Lists, Names DEF AddWatch, ProgramRuns
<1>3. ASSUME NEW f \in Fds, RemoveWatch(f) PROVE Pointers'
  <2>1. \A x : Contains(watches', x) <=> Contains(watches, x) /\ x # f
    BY <1>3, Lists DEF RemoveWatch
  <2>2. /\ pc \in {"program", "watch fn", "pid fn"} /\ UNCHANGED <<pc, pids>>
        /\ at' = IF at = f THEN Freed ELSE at
        /\ next' = IF next = f THEN Freed ELSE next
    BY <1>3 DEF RemoveWatch, ProgramRuns
  <2>3. CASE pc = "program" BY <2>2, <2>3, Names
  <2>4. CASE pc = "watch fn" BY <2>1, <2>2, <2>4, Names
  <2>5. CASE pc = "pid fn" BY <2>2, <2>5, Names
  <2>. QED BY <2>2, <2>3, <2>4, <2>5
<1>4. ASSUME NEW p \in Pids, StartHelper(p) PROVE Pointers'
  BY <1>4, Lists, Names DEF StartHelper, ProgramRuns
<1>5. ASSUME NEW p \in Pids, RemovePid(p) PROVE Pointers'
  <2>1. \A x : Contains(pids', x) <=> Contains(pids, x) /\ x # p
    BY <1>5, Lists DEF RemovePid
  <2>2. /\ pc \in {"program", "watch fn", "pid fn"} /\ UNCHANGED <<pc, watches>>
        /\ at' = IF at = p THEN Freed ELSE at
        /\ next' = IF next = p THEN Freed ELSE next
    BY <1>5 DEF RemovePid, ProgramRuns
  <2>3. CASE pc = "program" BY <2>2, <2>3, Names
  <2>4. CASE pc = "watch fn" BY <2>2, <2>4, Names
  <2>5. CASE pc = "pid fn" BY <2>1, <2>2, <2>5, Names
  <2>. QED BY <2>2, <2>3, <2>4, <2>5
<1>6. CASE Iterate BY <1>6 DEF Iterate, lists
<1>7. ASSUME NEW b \in SUBSET Items, pc = "select", Found(b) PROVE Pointers'
  BY <1>7, Onwards, Names DEF Found, lists
<1>8. CASE SelectFails BY <1>8 DEF SelectFails, lists
<1>9. CASE IterateFails BY <1>9 DEF IterateFails, lists
<1>10. CASE VisitDbus
  BY <1>10, Onwards, Names DEF VisitDbus, VisitDwatch, Walking, lists
<1>11. CASE VisitOddjob
  BY <1>11, Onwards, Names DEF VisitOddjob, Walking, lists
<1>12. CASE VisitFreed BY <1>12 DEF VisitFreed, lists
<1>13. CASE WatchFnReturns
  <2>0. watches' = watches \/ watches' = Removed(watches, {at}) BY <1>13 DEF WatchFnReturns, EndOfWatch
  <2>1. watches' = watches \/ \A x : Contains(watches', x) <=> Contains(watches, x) /\ x # at
    <3>1. \A x : Contains(Removed(watches, {at}), x) <=> Contains(watches, x) /\ x # at
      BY Lists
    <3>. QED BY <2>0, <3>1
  <2>2. /\ pc = "watch fn" /\ pc' \in {"watches", "undefined"} /\ at' = None /\ next' = next
        /\ UNCHANGED pids /\ (at = Freed => UNCHANGED watches)
    BY <1>13 DEF WatchFnReturns, EndOfWatch
  <2>. QED BY <2>1, <2>2, Names
<1>14. CASE EndWatches BY <1>14 DEF EndWatches, lists
<1>15. CASE HandleDwatch BY <1>15, Names DEF HandleDwatch
<1>16. CASE HandleTimers
  BY <1>16, Onwards, Names DEF HandleTimers
<1>17. CASE VisitPid
  BY <1>17, Onwards, Names DEF VisitPid, lists
<1>18. CASE PidFnReturns
  <2>0. pids' = pids \/ pids' = Removed(pids, {at}) BY <1>18 DEF PidFnReturns
  <2>1. pids' = pids \/ \A x : Contains(pids', x) <=> Contains(pids, x) /\ x # at
    <3>1. \A x : Contains(Removed(pids, {at}), x) <=> Contains(pids, x) /\ x # at
      BY Lists
    <3>. QED BY <2>0, <3>1
  <2>2. /\ pc = "pid fn" /\ pc' \in {"pids", "undefined"} /\ at' = None /\ next' = next
        /\ UNCHANGED watches /\ (at = Freed => UNCHANGED pids)
    BY <1>18 DEF PidFnReturns
  <2>. QED BY <2>1, <2>2, Names
<1>19. CASE EndPids BY <1>19 DEF EndPids, lists
<1>20. ASSUME NEW c \in DConns, Attach(c) PROVE Pointers'
  BY <1>20, Names DEF Attach, LibdbusKeeps, LibdbusRuns
<1>21. ASSUME NEW c \in DConns, Detach(c) PROVE Pointers'
  BY <1>21, Names DEF Detach, LibdbusKeeps, LibdbusRuns
<1>22. ASSUME NEW w \in DWatches, Toggle(w) PROVE Pointers'
  BY <1>22 DEF Toggle, LibdbusKeeps
<1>23. ASSUME NEW t \in Timers, NEW n \in Intervals, SetTimer(t, n) PROVE Pointers'
  BY <1>23 DEF SetTimer, LibdbusKeeps
<1>24. ASSUME NEW t \in Timers, TakeTimer(t) PROVE Pointers'
  BY <1>24 DEF TakeTimer, LibdbusKeeps
<1>25. CASE Tick BY <1>25 DEF Tick, lists
<1>26. ASSUME NEW p \in Pids, HelperEnds(p) PROVE Pointers'
  BY <1>26 DEF HelperEnds, lists
<1>27. CASE Loop
  BY <1>7, <1>8, <1>9, <1>10, <1>11, <1>12, <1>13, <1>14, <1>15, <1>16, <1>17, <1>18, <1>19,
     <1>27 DEF Loop, SelectRefused, SelectExpires
<1>28. CASE Program BY <1>2, <1>3, <1>4, <1>5, <1>6, <1>28 DEF Program
<1>29. CASE Environment
  BY <1>7, <1>8, <1>20, <1>21, <1>22, <1>23, <1>24, <1>25, <1>26, <1>29
  DEF Environment, SelectInterrupted, SelectReady
<1>. QED BY <1>1, <1>27, <1>28, <1>29 DEF Next, Anything

(***************************************************************************)
(* Reasons.                                                                *)
(***************************************************************************)
LEMMA ToSetFacts ==
  ASSUME NEW S, NEW s \in Seq(S)
  PROVE  /\ ToSet(s) \subseteq S
         /\ s = <<>> => ToSet(s) = {}
         /\ s # <<>> => Head(s) \in ToSet(s) /\ ToSet(Tail(s)) \subseteq ToSet(s)
         /\ \A x \in S : \A y : y \in ToSet(Append(s, x)) => y \in ToSet(s) \/ y = x
<1>1. DOMAIN s = 1 .. Len(s) /\ Len(s) \in Nat OBVIOUS
<1>2. ToSet(s) \subseteq S BY <1>1 DEF ToSet
<1>3. ASSUME s = <<>> PROVE ToSet(s) = {} BY <1>3 DEF ToSet
<1>4. ASSUME s # <<>> PROVE Head(s) \in ToSet(s) /\ ToSet(Tail(s)) \subseteq ToSet(s)
  <2>1. Head(s) = s[1] /\ 1 \in 1 .. Len(s) BY <1>4
  <2>2. /\ DOMAIN Tail(s) = 1 .. Len(s) - 1
        /\ \A i \in 1 .. Len(s) - 1 : Tail(s)[i] = s[i + 1]
    BY <1>4
  <2>3. \A i \in 1 .. Len(s) - 1 : i + 1 \in 1 .. Len(s) BY <1>1
  <2>. QED BY <1>1, <2>1, <2>2, <2>3 DEF ToSet
<1>5. ASSUME NEW x \in S, NEW y, y \in ToSet(Append(s, x)) PROVE y \in ToSet(s) \/ y = x
  <2>1. /\ DOMAIN Append(s, x) = 1 .. Len(s) + 1
        /\ \A i \in 1 .. Len(s) + 1 : Append(s, x)[i] = IF i = Len(s) + 1 THEN x ELSE s[i]
    OBVIOUS
  <2>2. PICK i \in 1 .. Len(s) + 1 : y = Append(s, x)[i] BY <1>5, <2>1 DEF ToSet
  <2>3. i = Len(s) + 1 \/ i \in 1 .. Len(s) BY <1>1
  <2>. QED BY <1>1, <2>1, <2>2, <2>3 DEF ToSet
<1>. QED BY <1>2, <1>3, <1>4, <1>5

LEMMA ReasonsInit == ASSUME Init PROVE Reasons
BY Names DEF Init, Reasons, Walk, ToSet

LEMMA ReasonsStep ==
  ASSUME TypeOK, Pointers, Reasons, [Next]_vars
  PROVE  Reasons'
<1>. USE DEF Reasons, Walk, PidWalk
<1>a. dwatches \in Seq(DWatches) /\ ToSet(dwatches) \subseteq DWatches
  <2>1. dwatches \in Seq(DWatches) BY DEF TypeOK
  <2>. QED BY <2>1, ToSetFacts
<1>b. dwatches = <<>> => ToSet(dwatches) = {} BY <1>a, ToSetFacts
<1>1. CASE UNCHANGED vars
  BY <1>1 DEF vars, lists, history
<1>2. ASSUME NEW f \in Fds, AddWatch(f) PROVE Reasons'
  <2>1. \A x : Contains(watches, x) => Contains(watches', x) BY <1>2, Lists DEF AddWatch
  <2>. QED BY <1>2, <2>1 DEF AddWatch, history
<1>3. ASSUME NEW f \in Fds, RemoveWatch(f) PROVE Reasons'
  <2>1. \A x : Contains(watches', x) <=> Contains(watches, x) /\ x # f
    BY <1>3, Lists DEF RemoveWatch
  <2>2. \A w \in ToSet(dwatches) : Contains(watches, w) => Contains(watches', w)
    BY <1>a, <2>1, Names
  <2>3. /\ UNCHANGED <<pc, dwatches>> /\ pc # "undefined"
        /\ blamed \subseteq blamed' /\ (f \in {at, next} => "careless" \in blamed')
        /\ at' = IF at = f THEN Freed ELSE at
        /\ next' = IF next = f THEN Freed ELSE next
    BY <1>3 DEF RemoveWatch, Blame, ProgramRuns
  <2>4. at' = Freed \/ next' = Freed => "careless" \in blamed' BY <2>3
  <2>. QED BY <2>2, <2>3, <2>4
<1>4. ASSUME NEW p \in Pids, StartHelper(p) PROVE Reasons'
  BY <1>4 DEF StartHelper, Blame
<1>5. ASSUME NEW p \in Pids, RemovePid(p) PROVE Reasons'
  <2>1. /\ UNCHANGED <<pc, watches, dwatches>> /\ pc # "undefined"
        /\ blamed \subseteq blamed' /\ (p \in {at, next} => "careless" \in blamed')
        /\ at' = IF at = p THEN Freed ELSE at
        /\ next' = IF next = p THEN Freed ELSE next
    BY <1>5 DEF RemovePid, Blame, ProgramRuns
  <2>2. at' = Freed \/ next' = Freed => "careless" \in blamed' BY <2>1
  <2>. QED BY <2>1, <2>2
<1>6. CASE Iterate
  <2>1. pc = "program" /\ pc' = "select" /\ UNCHANGED <<watches, dwatches, at, next>>
    BY <1>6 DEF Iterate, lists
  <2>2. at # Freed /\ next # Freed /\ dwatches = <<>> BY <2>1, Names DEF Pointers
  <2>3. ToSet(dwatches) = {} BY <1>b, <2>2
  <2>. QED BY <2>1, <2>2, <2>3
<1>7. ASSUME NEW b \in SUBSET Items, pc = "select", Found(b) PROVE Reasons'
  <2>1. First(watches) # Freed BY Onwards, Names
  <2>. QED BY <1>7, <2>1 DEF Found, lists, history
<1>8. CASE SelectFails BY <1>8 DEF SelectFails, lists, history
<1>9. CASE IterateFails BY <1>9 DEF IterateFails, lists, history
<1>10. CASE VisitDbus
  <2>1. /\ pc = "watches" /\ UNCHANGED <<pc, watches, at, blamed>> /\ next' = After(watches, next)
        /\ next \in DWatches /\ dwatches' \in {dwatches, Append(dwatches, next)}
    BY <1>10 DEF VisitDbus, VisitDwatch, Walking, lists, history
  <2>2. Contains(watches, next) BY <2>1, Names DEF Pointers
  <2>3. next' # Freed BY <2>1, <2>2, Onwards, Names
  <2>4. \A w \in ToSet(dwatches') : w \in ToSet(dwatches) \/ w = next
    BY <1>a, <2>1, ToSetFacts
  <2>. QED BY <2>1, <2>2, <2>3, <2>4
<1>11. CASE VisitOddjob
  <2>1. /\ pc = "watches" /\ pc' \in {"watches", "watch fn"} /\ UNCHANGED <<watches, dwatches, blamed>>
        /\ next \in Fds /\ next' = After(watches, next) /\ at' \in {at, next}
    BY <1>11 DEF VisitOddjob, Walking, lists
  <2>2. Contains(watches, next) BY <2>1, Names DEF Pointers
  <2>3. next' # Freed /\ at' # Freed BY <2>1, <2>2, Onwards, Names DEF Pointers
  <2>. QED BY <2>1, <2>3
<1>12. CASE VisitFreed BY <1>12 DEF VisitFreed, lists, history
<1>13. CASE WatchFnReturns
  <2>0. watches' = watches \/ (watches' = Removed(watches, {at}) /\ at # Freed)
    BY <1>13 DEF WatchFnReturns, EndOfWatch
  <2>1. \A x : Contains(Removed(watches, {at}), x) <=> Contains(watches, x) /\ x # at
    BY Lists
  <2>2. /\ pc = "watch fn" /\ at' = None /\ next' = next /\ UNCHANGED <<dwatches, blamed>>
        /\ pc' = "watches" \/ (pc' = "undefined" /\ at = Freed)
    BY <1>13 DEF WatchFnReturns, EndOfWatch
  <2>3. at # Freed => at \notin DWatches BY <2>2, Names DEF Pointers
  <2>4. \A w \in ToSet(dwatches) : Contains(watches, w) => Contains(watches', w)
    BY <1>a, <2>0, <2>1, <2>3
  <2>. QED BY <2>2, <2>4, Names
<1>14. CASE EndWatches BY <1>14 DEF EndWatches, lists, history
<1>15. CASE HandleDwatch
  <2>1. /\ pc = "dwatches" /\ dwatches # <<>> /\ dwatches' = Tail(dwatches)
        /\ UNCHANGED <<at, next>> /\ blamed \subseteq blamed'
    BY <1>15 DEF HandleDwatch, Blame
  <2>2. Head(dwatches) \in ToSet(dwatches) /\ ToSet(Tail(dwatches)) \subseteq ToSet(dwatches)
    BY <1>a, <2>1, ToSetFacts
  <2>3. CASE ~Contains(watches, Head(dwatches))
    <3>1. pc' = "undefined" /\ blamed' = blamed BY <1>15, <2>3 DEF HandleDwatch
    <3>. QED BY <2>1, <2>2, <2>3, <3>1
  <2>4. ASSUME Contains(watches, Head(dwatches)), UNCHANGED <<watches, blamed>>, pc' = pc
        PROVE  Reasons'
    BY <2>1, <2>2, <2>4
  <2>5. ASSUME NEW lost, watches' = Removed(watches, lost), pc' = pc,
               Blame(IF lost \cap ToSet(dwatches') # {} THEN {"both ready"} ELSE {})
        PROVE  Reasons'
    <3>1. \A x : Contains(watches', x) <=> Contains(watches, x) /\ x \notin lost
      BY <2>5, Lists
    <3>2. "both ready" \in blamed' \/ lost \cap ToSet(dwatches') = {} BY <2>5 DEF Blame
    <3>3. "both ready" \in blamed' \/ \A w \in ToSet(dwatches') : Contains(watches', w)
      BY <2>1, <2>2, <3>1, <3>2
    <3>. QED BY <2>1, <2>5, <3>3
  <2>. QED BY <1>15, <2>3, <2>4, <2>5 DEF HandleDwatch
<1>16. CASE HandleTimers
  <2>1. First(pids) # Freed BY Onwards, Names
  <2>2. ToSet(dwatches) = {} /\ UNCHANGED dwatches BY <1>b, <1>16 DEF HandleTimers
  <2>. QED BY <1>16, <2>1, <2>2 DEF HandleTimers
<1>17. CASE VisitPid
  <2>1. /\ pc = "pids" /\ pc' \in {"pids", "pid fn"} /\ UNCHANGED <<watches, dwatches, blamed>>
        /\ next \in Pids /\ next' = After(pids, next) /\ at' \in {at, next}
    BY <1>17 DEF VisitPid, lists, history
  <2>2. Contains(pids, next) BY <2>1 DEF Pointers
  <2>3. next' # Freed /\ at' # Freed BY <2>1, <2>2, Onwards, Names DEF Pointers
  <2>. QED BY <2>1, <2>3
<1>18. CASE PidFnReturns BY <1>18, Names DEF PidFnReturns, history
<1>19. CASE EndPids BY <1>19 DEF EndPids, lists, history
<1>20. ASSUME NEW c \in DConns, Attach(c) PROVE Reasons'
  <2>1. pc \in {"program", "pid fn"} /\ UNCHANGED <<pc, dwatches, at, next, blamed>>
    BY <1>20 DEF Attach, LibdbusKeeps, LibdbusRuns, history
  <2>2. dwatches = <<>> /\ ToSet(dwatches') = {} BY <1>b, <2>1
  <2>. QED BY <2>1, <2>2
<1>21. ASSUME NEW c \in DConns, Detach(c) PROVE Reasons'
  <2>1. pc \in {"program", "pid fn"} /\ UNCHANGED <<pc, dwatches, at, next, blamed>>
    BY <1>21 DEF Detach, LibdbusKeeps, LibdbusRuns, history
  <2>2. dwatches = <<>> /\ ToSet(dwatches') = {} BY <1>b, <2>1
  <2>. QED BY <2>1, <2>2
<1>22. ASSUME NEW w \in DWatches, Toggle(w) PROVE Reasons'
  BY <1>22 DEF Toggle, LibdbusKeeps, history
<1>23. ASSUME NEW t \in Timers, NEW n \in Intervals, SetTimer(t, n) PROVE Reasons'
  BY <1>23 DEF SetTimer, LibdbusKeeps, history
<1>24. ASSUME NEW t \in Timers, TakeTimer(t) PROVE Reasons'
  BY <1>24 DEF TakeTimer, LibdbusKeeps, history
<1>25. CASE Tick BY <1>25 DEF Tick, Blame, lists
<1>26. ASSUME NEW p \in Pids, HelperEnds(p) PROVE Reasons'
  BY <1>26 DEF HelperEnds, lists, history
<1>27. CASE Loop
  BY <1>7, <1>8, <1>9, <1>10, <1>11, <1>12, <1>13, <1>14, <1>15, <1>16, <1>17, <1>18, <1>19,
     <1>27 DEF Loop, SelectRefused, SelectExpires
<1>28. CASE Program BY <1>2, <1>3, <1>4, <1>5, <1>6, <1>28 DEF Program
<1>29. CASE Environment
  BY <1>7, <1>8, <1>20, <1>21, <1>22, <1>23, <1>24, <1>25, <1>26, <1>29
  DEF Environment, SelectInterrupted, SelectReady
<1>. QED BY <1>1, <1>27, <1>28, <1>29 DEF Next, Anything

(***************************************************************************)
(* Visits.                                                                 *)
(***************************************************************************)
\* What lies ahead of a pointer, before and after a step.
LEMMA Ahead ==
  ASSUME TypeOK
  PROVE  /\ \A x, y : Behind(watches, x, y) => x \in Items
         /\ \A g, x, y : Behind(Removed(watches, {g}), x, y) <=>
                           Behind(watches, x, y) /\ x # g /\ y # g
         /\ \A f \in Fds : \A x, y :
              /\ Contains(watches, x) =>
                   (Behind(Added(watches, f), x, y) <=> Behind(watches, x, y))
              /\ x \notin Items => ~Behind(Added(watches, f), x, y)
         /\ \A y : Contains(watches, y) => Behind(watches, First(watches), y)
         /\ \A x, y : Contains(watches, x) =>
              /\ Behind(watches, x, x)
              /\ ~Behind(watches, After(watches, x), x)
              /\ y # x => (Behind(watches, After(watches, x), y) <=> Behind(watches, x, y))
<1>1. watches \in Seq(Items) /\ IsInjective(watches) /\ None \notin Items BY Lists, Names
<1>2. \A x, y : Behind(watches, x, y) => x \in Items BY BehindIn, Lists
<1>3. \A gone, x, y : Behind(Removed(watches, gone), x, y) <=>
                        Behind(watches, x, y) /\ x \notin gone /\ y \notin gone
  BY <1>1, RemovedList
<1>4. ASSUME NEW g, NEW x, NEW y
      PROVE  Behind(Removed(watches, {g}), x, y) <=> Behind(watches, x, y) /\ x # g /\ y # g
  <2> DEFINE gone == {g}
  <2>1. \A z : z \in gone <=> z = g OBVIOUS
  <2>. HIDE DEF gone
  <2>2. Behind(Removed(watches, gone), x, y) <=> Behind(watches, x, y) /\ x # g /\ y # g
    BY <1>3, <2>1
  <2>. QED BY <2>2 DEF gone
<1>5. ASSUME NEW f \in Fds, NEW x, NEW y
      PROVE  /\ Contains(watches, x) =>
                  (Behind(Added(watches, f), x, y) <=> Behind(watches, x, y))
             /\ x \notin Items => ~Behind(Added(watches, f), x, y)
  <2>1. f \in Items BY Names
  <2>2. Contains(watches, x) => (Behind(Added(watches, f), x, y) <=> Behind(watches, x, y))
    BY <1>1, <2>1, AddedList
  <2>3. Behind(Added(watches, f), x, y) => Contains(watches, x) \/ x = f
    BY BehindIn, Lists
  <2>. QED BY <2>1, <2>2, <2>3, Lists
<1>6. \A y : Contains(watches, y) => Behind(watches, First(watches), y)
  BY <1>1, FirstOfList
<1>7. ASSUME NEW x, NEW y, Contains(watches, x)
      PROVE  /\ Behind(watches, x, x)
             /\ ~Behind(watches, After(watches, x), x)
             /\ y # x => (Behind(watches, After(watches, x), y) <=> Behind(watches, x, y))
  <2>1. Behind(watches, x, x) BY <1>7, BehindIn
  <2>2. /\ ~Behind(watches, After(watches, x), x)
        /\ Behind(watches, After(watches, x), y) => Behind(watches, x, y)
        /\ Behind(watches, x, y) /\ y # x => Behind(watches, After(watches, x), y)
    BY <1>1, <1>7, AfterInList
  <2>. QED BY <2>1, <2>2
<1>. QED BY <1>2, <1>4, <1>5, <1>6, <1>7

LEMMA AtMostOnce == 1 <= 1 /\ 0 <= 1 /\ 1 # 0 /\ 0 + 1 = 1 /\ \A n \in Nat : n <= 1 => n = 0 \/ n = 1
OBVIOUS

LEMMA VisitsInit == ASSUME Init PROVE Visits
BY DEF Init, Visits, Walk

LEMMA VisitsStep ==
  ASSUME TypeOK, Pointers, Visits, [Next]_vars
  PROVE  Visits'
<1>. USE DEF Visits, Walk
<1>a. calls \in [Fds -> Nat] BY DEF TypeOK
<1>b. \A f \in Fds : calls[f] = 0 \/ calls[f] = 1
  <2>. QED BY <1>a, AtMostOnce
<1>1. CASE UNCHANGED vars
  BY <1>1 DEF vars, lists, history
<1>2. ASSUME NEW f \in Fds, AddWatch(f) PROVE Visits'
  <2>1. /\ pc \in {"program", "watch fn", "pid fn"} /\ watches' = Added(watches, f)
        /\ UNCHANGED <<pc, next, bits, calls, dropped>>
    BY <1>2 DEF AddWatch, ProgramRuns, history
  <2>2. CASE pc = "watch fn"
    <3>1. Contains(watches, next) \/ next \notin Items BY <2>2 DEF Pointers, Walk
    <3>2. \A y : Behind(watches', next, y) <=> Behind(watches, next, y)
      BY <2>1, <3>1, Ahead
    <3>. QED BY <2>1, <2>2, <3>2
  <2>. QED BY <2>1, <2>2
<1>3. ASSUME NEW f \in Fds, RemoveWatch(f) PROVE Visits'
  <2>1. /\ pc \in {"program", "watch fn", "pid fn"} /\ watches' = Removed(watches, {f})
        /\ UNCHANGED <<pc, bits, calls>> /\ next' = IF next = f THEN Freed ELSE next
        /\ pc = "watch fn" => dropped' = dropped \cup {f}
    BY <1>3 DEF RemoveWatch, ProgramRuns
  <2>2. CASE pc = "watch fn"
    <3>1. ASSUME NEW y
          PROVE  Behind(watches', next', y) <=> Behind(watches, next, y) /\ next # f /\ y # f
      <4>1. \A x : Behind(watches', x, y) <=> Behind(watches, x, y) /\ x # f /\ y # f
        <5>1. \A x : Behind(Removed(watches, {f}), x, y) <=>
                       Behind(watches, x, y) /\ x # f /\ y # f
          BY Ahead
        <5>. QED BY ONLY <2>1, <5>1
      <4>2. ~Behind(watches, Freed, y)
        <5>1. Behind(watches, Freed, y) => Freed \in Items BY Ahead
        <5>. QED BY ONLY <5>1, Names
      <4>3. CASE next = f BY ONLY <2>1, <4>1, <4>2, <4>3
      <4>4. CASE next # f BY ONLY <2>1, <4>1, <4>4
      <4>. QED BY <4>3, <4>4
    <3>. QED BY <2>1, <2>2, <3>1
  <2>. QED BY <2>1, <2>2
<1>4. ASSUME NEW p \in Pids, StartHelper(p) PROVE Visits'
  BY <1>4 DEF StartHelper, ProgramRuns
<1>5. ASSUME NEW p \in Pids, RemovePid(p) PROVE Visits'
  <2>1. /\ pc \in {"program", "watch fn", "pid fn"}
        /\ UNCHANGED <<watches, pc, bits, calls, dropped>>
        /\ next' = IF next = p THEN Freed ELSE next
    BY <1>5 DEF RemovePid, ProgramRuns
  <2>2. pc = "watch fn" => next' = next BY <2>1, Names DEF Pointers, Walk
  <2>. QED BY <2>1, <2>2
<1>6. CASE Iterate BY <1>6 DEF Iterate, lists
<1>7. ASSUME NEW b \in SUBSET Items, b \subseteq ToSet(watches), pc = "select", Found(b)
      PROVE  Visits'
  <2>1. /\ pc' = "watches" /\ next' = First(watches) /\ bits' = b
        /\ UNCHANGED <<watches, calls, dropped>>
    BY <1>7 DEF Found, lists, history
  <2>2. \A f \in Fds : calls[f] = 0 BY <1>7
  <2>3. \A y : y \in b => Contains(watches, y)
    <3>1. watches \in Seq(Items) BY Lists
    <3>. QED BY <1>7, <3>1 DEF ToSet, Contains
  <2>. QED BY <2>1, <2>2, <2>3, Ahead
<1>8. CASE SelectFails BY <1>8 DEF SelectFails, lists, history
<1>9. CASE IterateFails BY <1>9 DEF IterateFails, lists, history
<1>10. CASE VisitDbus
  <2>1. /\ pc = "watches" /\ next \in DWatches /\ next' = After(watches, next)
        /\ UNCHANGED <<watches, pc, bits, calls, dropped>>
    BY <1>10 DEF VisitDbus, VisitDwatch, Walking, lists, history
  <2>2. Contains(watches, next) BY <2>1, Names DEF Pointers, Walk
  <2>3. \A f \in Fds : Behind(watches, next', f) <=> Behind(watches, next, f)
    BY <2>1, <2>2, Ahead, Names
  <2>4. next # Freed BY <2>1, Names
  <2>. QED BY <2>1, <2>3, <2>4
<1>11. CASE VisitOddjob
  <2>1. /\ pc = "watches" /\ pc' \in Walk /\ next \in Fds /\ next' = After(watches, next)
        /\ UNCHANGED <<watches, bits, dropped>>
        /\ calls' = IF next \in bits THEN [calls EXCEPT ![next] = @ + 1] ELSE calls
    BY <1>11 DEF VisitOddjob, Walking, lists
  <2>2. Contains(watches, next) BY <2>1, Names DEF Pointers, Walk
  <2>3. calls[next] = 0 /\ ~Behind(watches', next', next) BY <2>1, <2>2, Ahead
  <2>4. \A f \in Fds : f # next => (Behind(watches', next', f) <=> Behind(watches, next, f))
    BY <2>1, <2>2, Ahead
  <2>5. /\ \A f \in Fds : f # next => calls'[f] = calls[f]
        /\ calls'[next] = IF next \in bits THEN 1 ELSE 0
    <3>1. CASE next \in bits
      <4>1. calls' = [calls EXCEPT ![next] = @ + 1] BY <2>1, <3>1
      <4>2. calls'[next] = calls[next] + 1 BY <1>a, <2>1, <4>1
      <4>3. calls'[next] = 1 BY <2>3, <4>2, AtMostOnce
      <4>. QED BY <1>a, <3>1, <4>1, <4>3
    <3>2. CASE next \notin bits BY <2>1, <2>3, <3>2
    <3>. QED BY <3>1, <3>2
  <2>6. next # Freed BY <2>1, Names
  <2>7. \A f \in Fds :
          /\ calls'[f] <= 1
          /\ calls'[f] # 0 => ~Behind(watches', next', f)
          /\ f \in bits' /\ calls'[f] = 0 /\ f \notin dropped' => Behind(watches', next', f)
    <3>1. ASSUME NEW f \in Fds, f # next
          PROVE  /\ calls'[f] <= 1
                 /\ calls'[f] # 0 => ~Behind(watches', next', f)
                 /\ f \in bits' /\ calls'[f] = 0 /\ f \notin dropped' => Behind(watches', next', f)
      BY <2>1, <2>4, <2>5, <2>6, <3>1
    <3>2. calls'[next] <= 1 /\ (next \in bits => calls'[next] # 0)
      <4>1. (next \in bits /\ calls'[next] = 1) \/ (next \notin bits /\ calls'[next] = 0)
        BY <2>5
      <4>. QED BY <4>1, AtMostOnce
    <3>3. ~Behind(watches', next', next) /\ bits' = bits BY <2>1, <2>3
    <3>. QED BY <3>1, <3>2, <3>3
  <2>. QED BY <2>1, <2>7
<1>12. CASE VisitFreed BY <1>12 DEF VisitFreed, lists, history
<1>13. CASE WatchFnReturns
  <2>1. /\ pc = "watch fn" /\ pc' \in {"watches", "undefined"} /\ next' = next
        /\ UNCHANGED <<bits, calls>>
        /\ \/ UNCHANGED <<watches, dropped>>
           \/ watches' = Removed(watches, {at}) /\ dropped' = dropped \cup {at}
    BY <1>13 DEF WatchFnReturns, EndOfWatch
  <2>2. CASE UNCHANGED <<watches, dropped>> BY <2>1, <2>2
  <2>3. CASE watches' = Removed(watches, {at}) /\ dropped' = dropped \cup {at}
    <3>1. (at \in Fds \cup {Freed} /\ next # at) \/ next = Freed
      BY <2>1, Names DEF Pointers, Walk
    <3>2. \A y : Behind(Removed(watches, {at}), next, y) <=>
                   Behind(watches, next, y) /\ next # at /\ y # at
      BY Ahead
    <3>. QED BY <2>1, <2>3, <3>1, <3>2
  <2>. QED BY <2>1, <2>2, <2>3
<1>14. CASE EndWatches
  <2>1. /\ pc = "watches" /\ next = None /\ pc' = "dwatches"
        /\ UNCHANGED <<watches, bits, calls, dropped>>
    BY <1>14 DEF EndWatches, lists, history
  <2>2. \A f : ~Behind(watches, next, f) BY <2>1, Ahead, Names
  <2>. QED BY <1>b, <2>1, <2>2, Names
<1>15. CASE HandleDwatch BY <1>15 DEF HandleDwatch
<1>16. CASE HandleTimers BY <1>16 DEF HandleTimers
<1>17. CASE VisitPid BY <1>17 DEF VisitPid, lists, history
<1>18. CASE PidFnReturns BY <1>18 DEF PidFnReturns, history
<1>19. CASE EndPids BY <1>19 DEF EndPids, lists, history
<1>20. ASSUME NEW c \in DConns, Attach(c) \/ Detach(c) PROVE Visits'
  BY <1>20 DEF Attach, Detach, LibdbusKeeps, LibdbusRuns, history
<1>22. ASSUME NEW w \in DWatches, Toggle(w) PROVE Visits'
  BY <1>22 DEF Toggle, LibdbusKeeps, history
<1>23. ASSUME NEW t \in Timers, NEW n \in Intervals, SetTimer(t, n) PROVE Visits'
  BY <1>23 DEF SetTimer, LibdbusKeeps, history
<1>24. ASSUME NEW t \in Timers, TakeTimer(t) PROVE Visits'
  BY <1>24 DEF TakeTimer, LibdbusKeeps, history
<1>25. CASE Tick BY <1>25 DEF Tick, lists
<1>26. ASSUME NEW p \in Pids, HelperEnds(p) PROVE Visits'
  BY <1>26 DEF HelperEnds, lists, history
<1>27. CASE Loop
  <2>1. {} \in SUBSET Items /\ {} \subseteq ToSet(watches) OBVIOUS
  <2>2. SelectExpires => pc = "select" /\ Found({}) BY DEF SelectExpires
  <2>. QED BY <1>7, <1>8, <1>9, <1>10, <1>11, <1>12, <1>13, <1>14, <1>15, <1>16, <1>17, <1>18,
              <1>19, <1>27, <2>1, <2>2 DEF Loop, SelectRefused
<1>28. CASE Program BY <1>2, <1>3, <1>4, <1>5, <1>6, <1>28 DEF Program
<1>29. CASE Environment
  <2>1. \A b \in SUBSET Items : SelectReady(b) => pc = "select" /\ b \subseteq ToSet(watches) /\ Found(b)
    BY DEF SelectReady
  <2>. QED BY <1>7, <1>8, <1>20, <1>22, <1>23, <1>24, <1>25, <1>26, <1>29, <2>1
           DEF Environment, SelectInterrupted
<1>. QED BY <1>1, <1>27, <1>28, <1>29 DEF Next, Anything

(***************************************************************************)
(* Helpers.                                                                *)
(***************************************************************************)
LEMMA HelpersInit == ASSUME Init PROVE Helpers
BY DEF Init, Helpers, HelpersListed

LEMMA HelpersStep ==
  ASSUME TypeOK, Pointers, Helpers, [Next]_vars
  PROVE  Helpers'
<1>. USE DEF Helpers, HelpersListed
<1>a. child \in [Pids -> {"no", "running", "ended"}] BY DEF TypeOK
\* All other steps keep the lists and the processes.
<1>b. ASSUME UNCHANGED <<pids, child>>, blamed \subseteq blamed',
             pc' = "pid fn" => UNCHANGED <<pc, at>>
      PROVE  Helpers'
  BY <1>b
<1>1. CASE UNCHANGED vars BY <1>1, <1>b DEF vars, lists, history
<1>2. ASSUME NEW f \in Fds, AddWatch(f) PROVE Helpers' BY <1>2, <1>b DEF AddWatch, history
<1>3. ASSUME NEW f \in Fds, RemoveWatch(f) PROVE Helpers'
  <2>1. UNCHANGED <<pids, child, pc>> /\ blamed \subseteq blamed' /\ at' = IF at = f THEN Freed ELSE at
    BY <1>3 DEF RemoveWatch, Blame
  <2>2. pc = "pid fn" => at' = at BY <2>1, Names DEF Pointers
  <2>. QED BY <1>b, <2>1, <2>2
<1>4. ASSUME NEW p \in Pids, StartHelper(p) PROVE Helpers'
  <2>1. /\ child' = [child EXCEPT ![p] = "running"] /\ pids' = Added(pids, p)
        /\ UNCHANGED <<pc, at>> /\ blamed \subseteq blamed'
        /\ Contains(pids, p) => "same pid" \in blamed'
    BY <1>4 DEF StartHelper, Blame
  <2>2. \A q : Contains(pids', q) <=> Contains(pids, q) \/ q = p BY <2>1, Lists
  <2>3. \A q \in Pids : q # p => child'[q] = child[q] BY <1>a, <2>1
  <2>4. pc = "pid fn" /\ at \in Pids => at # p \/ "same pid" \in blamed' BY <2>1 DEF Pointers
  <2>. QED BY <2>1, <2>2, <2>3, <2>4
<1>5. ASSUME NEW p \in Pids, RemovePid(p) PROVE Helpers'
  <2>1. /\ child' = [child EXCEPT ![p] = "no"] /\ pids' = Removed(pids, {p})
        /\ UNCHANGED pc /\ blamed \subseteq blamed' /\ at' = IF at = p THEN Freed ELSE at
    BY <1>5 DEF RemovePid, Blame
  <2>2. \A q : Contains(Removed(pids, {p}), q) <=> Contains(pids, q) /\ q # p BY Lists
  <2>3. child'[p] = "no" /\ \A q \in Pids : q # p => child'[q] = child[q] BY <1>a, <2>1
  <2>. QED BY <2>1, <2>2, <2>3, Names
<1>6. CASE Iterate
  <2>1. UNCHANGED <<pids, child>> /\ pc' = "select" /\ blamed' = blamed \ Mended
    BY <1>6 DEF Iterate, lists
  <2>2. "same pid" \in Mended => \A p \in Pids : child[p] # "no" => Contains(pids, p)
    BY DEF Mended
  <2>. QED BY <2>1, <2>2
<1>7. ASSUME NEW b \in SUBSET Items, Found(b) PROVE Helpers'
  BY <1>7, <1>b DEF Found, lists, history
<1>8. CASE SelectFails BY <1>8, <1>b DEF SelectFails, lists, history
<1>9. CASE IterateFails BY <1>9, <1>b DEF IterateFails, lists, history
<1>10. CASE VisitDbus BY <1>10, <1>b DEF VisitDbus, VisitDwatch, Walking, lists, history
<1>11. CASE VisitOddjob BY <1>11, <1>b DEF VisitOddjob, Walking, lists
<1>12. CASE VisitFreed BY <1>12, <1>b DEF VisitFreed, lists, history
<1>13. CASE WatchFnReturns BY <1>13, <1>b DEF WatchFnReturns, EndOfWatch
<1>14. CASE EndWatches BY <1>14, <1>b DEF EndWatches, lists, history
<1>15. CASE HandleDwatch BY <1>15, <1>b DEF HandleDwatch, Blame
<1>16. CASE HandleTimers BY <1>16, <1>b DEF HandleTimers
<1>17. CASE VisitPid
  <2>1. pc = "pids" /\ next \in Pids /\ UNCHANGED <<pids, blamed>> BY <1>17 DEF VisitPid, lists, history
  <2>2. CASE child[next] = "ended"
    <3>1. at' = next /\ child' = [child EXCEPT ![next] = "no"] BY <1>17, <2>2 DEF VisitPid
    <3>2. child'[next] = "no" /\ \A q \in Pids : q # next => child'[q] = child[q]
      BY <1>a, <2>1, <3>1
    <3>. QED BY <2>1, <3>1, <3>2
  <2>3. CASE child[next] # "ended"
    <3>1. UNCHANGED <<pc, at, child>> BY <1>17, <2>3 DEF VisitPid
    <3>. QED BY <1>b, <2>1, <3>1
  <2>. QED BY <2>2, <2>3
<1>18. CASE PidFnReturns
  <2>1. pc = "pid fn" /\ pc' # "pid fn" /\ UNCHANGED <<child, blamed>>
    BY <1>18 DEF PidFnReturns, history
  <2>2. CASE pids' = pids BY <1>b, <2>1, <2>2
  <2>3. CASE pids' = Removed(pids, {at})
    <3>1. at \in Pids \/ at = Freed BY <2>1 DEF Pointers
    <3>2. \A q : Contains(Removed(pids, {at}), q) <=> Contains(pids, q) /\ q # at BY Lists
    <3>3. \A q \in Pids : Contains(pids, q) /\ child[q] # "no" /\ "same pid" \notin blamed
            => Contains(pids', q)
      BY <2>1, <2>3, <3>1, <3>2, Names
    <3>. QED BY <2>1, <3>3
  <2>. QED BY <1>18, <2>2, <2>3 DEF PidFnReturns
<1>19. CASE EndPids BY <1>19, <1>b DEF EndPids, lists, history
<1>20. ASSUME NEW c \in DConns, Attach(c) \/ Detach(c) PROVE Helpers'
  BY <1>20, <1>b DEF Attach, Detach, LibdbusKeeps, history
<1>22. ASSUME NEW w \in DWatches, Toggle(w) PROVE Helpers'
  BY <1>22, <1>b DEF Toggle, LibdbusKeeps, history
<1>23. ASSUME NEW t \in Timers, NEW n \in Intervals, SetTimer(t, n) PROVE Helpers'
  BY <1>23, <1>b DEF SetTimer, LibdbusKeeps, history
<1>24. ASSUME NEW t \in Timers, TakeTimer(t) PROVE Helpers'
  BY <1>24, <1>b DEF TakeTimer, LibdbusKeeps, history
<1>25. CASE Tick BY <1>25, <1>b DEF Tick, Blame, lists
<1>26. ASSUME NEW p \in Pids, HelperEnds(p) PROVE Helpers'
  <2>1. /\ child[p] = "running" /\ child' = [child EXCEPT ![p] = "ended"]
        /\ UNCHANGED <<pids, pc, at, blamed>>
    BY <1>26 DEF HelperEnds, lists, history
  <2>2. \A q \in Pids : q # p => child'[q] = child[q] BY <1>a, <2>1
  <2>. QED BY <2>1, <2>2
<1>27. CASE Loop
  <2>1. {} \in SUBSET Items OBVIOUS
  <2>2. SelectExpires => Found({}) BY DEF SelectExpires
  <2>. QED BY <1>7, <1>8, <1>9, <1>10, <1>11, <1>12, <1>13, <1>14, <1>15, <1>16, <1>17, <1>18,
              <1>19, <1>27, <2>1, <2>2 DEF Loop, SelectRefused
<1>28. CASE Program BY <1>2, <1>3, <1>4, <1>5, <1>6, <1>28 DEF Program
<1>29. CASE Environment
  <2>1. \A b \in SUBSET Items : SelectReady(b) => Found(b) BY DEF SelectReady
  <2>. QED BY <1>7, <1>8, <1>20, <1>22, <1>23, <1>24, <1>25, <1>26, <1>29, <2>1
           DEF Environment, SelectInterrupted
<1>. QED BY <1>1, <1>27, <1>28, <1>29 DEF Next, Anything

(***************************************************************************)
(* Times.                                                                  *)
(***************************************************************************)
LEMMA NotPast == Past < 0 /\ ~(0 < 0) /\ 0 # Past /\ \A n \in Nat : n # Past /\ ~(n < 0)
BY DEF Past

LEMMA TimesInit == ASSUME Init PROVE Times
BY NotPast DEF Init, Times

LEMMA TimesStep ==
  ASSUME TypeOK, Times, [Next]_vars
  PROVE  Times'
<1>. USE DEF Times
<1>a. left \in [Timers -> Left] /\ armed \subseteq Timers /\ tv \in Left BY DEF TypeOK
<1>b. ASSUME UNCHANGED <<timers, armed, left>>, blamed \subseteq blamed',
             pc' # "select", tv' = tv \/ tv' = 0
      PROVE  Times'
  BY <1>b, NotPast
<1>1. CASE UNCHANGED vars BY <1>1 DEF vars, lists, libdbus, history, UseTv
<1>2. ASSUME NEW f \in Fds, AddWatch(f) \/ RemoveWatch(f) PROVE Times'
  BY <1>2, <1>b DEF AddWatch, RemoveWatch, ProgramRuns, Blame, libdbus, history
<1>3. ASSUME NEW p \in Pids, StartHelper(p) \/ RemovePid(p) PROVE Times'
  BY <1>3, <1>b DEF StartHelper, RemovePid, ProgramRuns, Blame, libdbus
<1>6. CASE Iterate
  <2>1. /\ useTv' = UseTv /\ tv' = Interval /\ blamed' = blamed \ Mended
        /\ UNCHANGED <<watches, timers, pids, armed, left>>
    BY <1>6 DEF Iterate, lists, libdbus
  <2>2. "overdue" \in Mended => ~\E t \in Timers : left[t] = Past BY DEF Mended
  <2>3. /\ \A t \in armed : Contains(timers, t) => Interval <= left[t]
        /\ Interval < 0 => \E t \in Timers : left[t] = Past
    <3>1. timers \in Seq(Timers) BY Lists
    <3>. QED BY <1>a, <3>1, IntervalBounds
  <2>4. useTv' <=> UseTv' BY <2>1 DEF UseTv
  <2>5. \A t \in armed' : tv' <= left'[t] BY <2>1, <2>3
  <2>6. (\E t \in Timers : left'[t] = Past) => "overdue" \in blamed' BY <2>1, <2>2
  <2>7. tv' < 0 => "overdue" \in blamed' BY <2>1, <2>3, <2>6
  <2>8. \A t \in armed' : Contains(timers', t) BY <2>1
  <2>. QED BY <2>4, <2>5, <2>6, <2>7, <2>8
<1>7. ASSUME NEW b \in SUBSET Items, Found(b) PROVE Times'
  BY <1>7, <1>b DEF Found, lists, libdbus, history
<1>8. CASE SelectFails BY <1>8, <1>b DEF SelectFails, lists, libdbus, history
<1>9. CASE IterateFails BY <1>9, <1>b DEF IterateFails, lists, libdbus, history
<1>10. CASE VisitDbus BY <1>10, <1>b DEF VisitDbus, VisitDwatch, Walking, lists, libdbus, history
<1>11. CASE VisitOddjob BY <1>11, <1>b DEF VisitOddjob, Walking, lists, libdbus
<1>12. CASE VisitFreed BY <1>12, <1>b DEF VisitFreed, lists, libdbus, history
<1>13. CASE WatchFnReturns BY <1>13, <1>b DEF WatchFnReturns, EndOfWatch, libdbus
<1>14. CASE EndWatches BY <1>14, <1>b DEF EndWatches, lists, libdbus, history
<1>15. CASE HandleDwatch BY <1>15, <1>b DEF HandleDwatch, Blame
<1>16. CASE HandleTimers
  <2>1. pc' = "pids" /\ UNCHANGED <<tv, blamed>> BY <1>16 DEF HandleTimers
  <2>2. CASE seen
    <3>1. armed' = {} /\ left' = [t \in Timers |-> IF t \in armed THEN 0 ELSE left[t]]
      BY <1>16, <2>2 DEF HandleTimers
    <3>2. \A t \in Timers : left'[t] = Past => left[t] = Past BY <3>1, NotPast
    <3>. QED BY <2>1, <3>1, <3>2
  <2>3. CASE ~seen
    <3>1. UNCHANGED <<timers, armed, left>> BY <1>16, <2>3 DEF HandleTimers
    <3>. QED BY <1>b, <2>1, <3>1
  <2>. QED BY <2>2, <2>3
<1>17. CASE VisitPid BY <1>17, <1>b DEF VisitPid, lists, libdbus, history
<1>18. CASE PidFnReturns BY <1>18, <1>b DEF PidFnReturns, libdbus, history
<1>19. CASE EndPids BY <1>19, <1>b DEF EndPids, lists, libdbus, history
<1>20. ASSUME NEW c \in DConns, Attach(c) \/ Detach(c) PROVE Times'
  BY <1>20, <1>b DEF Attach, Detach, LibdbusKeeps, LibdbusRuns, history
<1>22. ASSUME NEW w \in DWatches, Toggle(w) PROVE Times'
  BY <1>22, <1>b DEF Toggle, LibdbusKeeps, LibdbusRuns, history
<1>23. ASSUME NEW t \in Timers, NEW n \in Intervals, SetTimer(t, n) PROVE Times'
  <2>1. /\ timers' = Added(timers, t) /\ pc' # "select" /\ UNCHANGED <<tv, blamed>>
        /\ \/ armed' = armed \cup {t} /\ left' = [left EXCEPT ![t] = n]
           \/ UNCHANGED <<armed, left>>
    BY <1>23 DEF SetTimer, LibdbusKeeps, LibdbusRuns, history
  <2>2. \A x : Contains(timers', x) <=> Contains(timers, x) \/ x = t BY <2>1, Lists
  <2>3. n # Past BY LoopAssumption, NotPast
  <2>4. \A s \in Timers : left'[s] = Past => left[s] = Past BY <1>a, <2>1, <2>3
  <2>. QED BY <2>1, <2>2, <2>4
<1>24. ASSUME NEW t \in Timers, TakeTimer(t) PROVE Times'
  <2>1. /\ timers' = Removed(timers, {t}) /\ pc' # "select" /\ UNCHANGED <<tv, blamed>>
        /\ armed' = armed \ {t} /\ left' = [left EXCEPT ![t] = 0]
    BY <1>24 DEF TakeTimer, LibdbusKeeps, LibdbusRuns, history
  <2>2. \A x : Contains(Removed(timers, {t}), x) <=> Contains(timers, x) /\ x # t BY Lists
  <2>3. \A s \in Timers : left'[s] = Past => left[s] = Past BY <1>a, <2>1, NotPast
  <2>. QED BY <2>1, <2>2, <2>3
<1>25. CASE Tick
  <2>1. /\ pc = "select" /\ useTv => tv > 0 /\ tv' = tv - 1
        /\ ~(pc = "select" /\ useTv) => tv' = tv
        /\ UNCHANGED <<timers, pids, pc, useTv, armed>> /\ blamed \subseteq blamed'
        /\ pc # "select" /\ (\E t \in Timers : Due(t)) => "overdue" \in blamed'
        /\ left' = [t \in Timers |-> IF t \in armed /\ left[t] # Past THEN left[t] - 1 ELSE left[t]]
    BY <1>25 DEF Tick, Blame, lists
  <2>2. pc = "select" /\ armed # {} => useTv
    <3>1. timers = <<>> => \A t : ~Contains(timers, t) BY DEF Contains
    <3>. QED BY <3>1 DEF UseTv
  <2>3. \A t \in Timers : left[t] \in Int /\ (left[t] # Past => left[t] \in Nat) BY <1>a, LeftType
  <2>4. tv \in Int BY <1>a, LeftType
  <2>5. ASSUME NEW t \in Timers, left'[t] = Past PROVE "overdue" \in blamed'
    <3>1. CASE left[t] = Past BY <2>1, <3>1
    <3>2. CASE left[t] # Past
      <4>1. t \in armed /\ left[t] - 1 = Past BY <2>1, <2>5, <3>2
      <4>2. left[t] = 0 BY <2>3, <4>1 DEF Past
      <4>3. pc # "select"
        <5>1. ASSUME pc = "select" PROVE FALSE
          <6>1. tv > 0 /\ tv <= left[t] BY <2>1, <2>2, <3>2, <4>1, <5>1
          <6>. QED BY <2>4, <4>2, <6>1
        <5>. QED BY <5>1
      <4>. QED BY <2>1, <4>1, <4>2, <4>3 DEF Due
    <3>. QED BY <3>1, <3>2
  <2>6. tv' < 0 => "overdue" \in blamed'
    <3>1. CASE pc = "select" /\ useTv
      <4>1. tv > 0 /\ tv' = tv - 1 BY <2>1, <3>1
      <4>. QED BY <2>4, <4>1
    <3>. QED BY <2>1, <3>1
  <2>7. ASSUME pc = "select", NEW t \in armed, left'[t] # Past PROVE tv' <= left'[t]
    <3>1. left[t] # Past /\ left'[t] = left[t] - 1 BY <1>a, <2>1, <2>7
    <3>2. tv' = tv - 1 /\ tv <= left[t] BY <2>1, <2>2, <2>7, <3>1
    <3>. QED BY <1>a, <2>3, <2>4, <3>1, <3>2
  <2>8. pc = "select" => (useTv' <=> UseTv') BY <2>1 DEF UseTv
  <2>. QED BY <2>1, <2>5, <2>6, <2>7, <2>8
<1>26. ASSUME NEW p \in Pids, HelperEnds(p) PROVE Times'
  BY <1>26 DEF HelperEnds, lists, libdbus, history, UseTv
<1>27. CASE Loop
  <2>1. {} \in SUBSET Items OBVIOUS
  <2>2. SelectExpires => Found({}) BY DEF SelectExpires
  <2>. QED BY <1>7, <1>8, <1>9, <1>10, <1>11, <1>12, <1>13, <1>14, <1>15, <1>16, <1>17, <1>18,
              <1>19, <1>27, <2>1, <2>2 DEF Loop, SelectRefused
<1>28. CASE Program BY <1>2, <1>3, <1>6, <1>28 DEF Program
<1>29. CASE Environment
  <2>1. \A b \in SUBSET Items : SelectReady(b) => Found(b) BY DEF SelectReady
  <2>. QED BY <1>7, <1>8, <1>20, <1>22, <1>23, <1>24, <1>25, <1>26, <1>29, <2>1
           DEF Environment, SelectInterrupted
<1>. QED BY <1>1, <1>27, <1>28, <1>29 DEF Next, Anything

(***************************************************************************)
(* The theorems.                                                           *)
(***************************************************************************)
\* Whatever the callbacks add, remove, start or give up, the walks, the lists
\* and the time told to select stay as the invariant says.
THEOREM LoopInvariantHolds == Spec => []LoopInvariant
<1>1. Init => LoopInvariant
  BY TypeInit, PointersInit, ReasonsInit, VisitsInit, HelpersInit, TimesInit DEF LoopInvariant
<1>2. LoopInvariant /\ [Next]_vars => LoopInvariant'
  BY TypeStep, PointersStep, ReasonsStep, VisitsStep, HelpersStep, TimesStep DEF LoopInvariant
<1>. QED BY <1>1, <1>2, PTL DEF Spec

\* The variables keep their types, and no list has an element twice.
THEOREM TypeCorrect == Spec => []TypeOK
<1>1. LoopInvariant => TypeOK BY DEF LoopInvariant
<1>. QED BY <1>1, LoopInvariantHolds, PTL

\* mainloop_handle follows no pointer to what a callback freed, and handles no
\* watch that is gone, unless a callback removed its own element or the next,
\* or a connection was lost with two of its watches ready.
THEOREM FreedIsNotUsed == Spec => []NothingFreedUsed
<1>1. LoopInvariant => NothingFreedUsed BY DEF LoopInvariant, Reasons, NothingFreedUsed
<1>. QED BY <1>1, LoopInvariantHolds, PTL

\* mainloop_handle calls a ready descriptor back once, and no descriptor
\* twice, while callbacks remove watches and put new ones in front.
THEOREM EachReadyOnce == Spec => []CalledOnce
<1>1. LoopInvariant => CalledOnce
  BY DEF LoopInvariant, Visits, CalledOnce, Walk
<1>. QED BY <1>1, LoopInvariantHolds, PTL

\* A helper that was started is on pid_list until it is reaped or given up.
THEOREM StartedAreListed == Spec => []HelpersListed
<1>1. LoopInvariant => HelpersListed BY DEF LoopInvariant, Helpers
<1>. QED BY <1>1, LoopInvariantHolds, PTL

\* mainloop_prepare gives select no negative time unless a timeout passed
\* outside of select.
THEOREM SelectTimeIsNotPast == Spec => []TimeoutsInTime
<1>1. LoopInvariant => TimeoutsInTime BY DEF LoopInvariant, Times, TimeoutsInTime
<1>. QED BY <1>1, LoopInvariantHolds, PTL

(***************************************************************************)
(* What remains of a walk.                                                 *)
(***************************************************************************)
LEMMA RemainingIs ==
  ASSUME NEW S, NEW list \in Seq(S)
  PROVE  \A x : x \in Remaining(list) <=> Behind(list, next, x)
<1>1. DOMAIN list = 1 .. Len(list) OBVIOUS
<1>. QED BY <1>1 DEF Remaining, Behind, ToSet

\* A step that adds in front, or removes, or goes on to the next element, brings
\* nothing new behind the pointer y that it leaves, of those behind x before.
LEMMA NothingNew ==
  ASSUME NEW S, NEW list \in Seq(S), IsInjective(list), None \notin S, Freed \notin S,
         NEW x, x \in S => Contains(list, x), NEW m, NEW y,
         \/ m = list /\ y = x
         \/ m = list /\ y = After(list, x) /\ x \in S
         \/ y = x /\ \E z \in S : m = Added(list, z)
         \/ y \in {x, Freed} /\ \E gone : m = Removed(list, gone)
  PROVE  /\ \A z : Behind(m, y, z) => Behind(list, x, z)
         /\ y # x => ~Behind(m, y, x)
<1>1. CASE m = list /\ y = x BY <1>1
<1>2. CASE m = list /\ y = After(list, x) /\ x \in S
  <2>1. Contains(list, x) BY <1>2
  <2>2. /\ ~Behind(list, After(list, x), x)
        /\ \A z : Behind(list, After(list, x), z) => Behind(list, x, z)
    BY <2>1, AfterInList
  <2>. QED BY <1>2, <2>2
<1>3. CASE y = x /\ \E z \in S : m = Added(list, z)
  <2>1. PICK z \in S : m = Added(list, z) BY <1>3
  <2>2. CASE Contains(list, x)
    <3>1. \A w : Behind(Added(list, z), x, w) <=> Behind(list, x, w) BY <2>2, AddedList
    <3>. QED BY <1>3, <2>1, <3>1
  <2>3. CASE ~Contains(list, x)
    <3>1. Added(list, z) \in Seq(S) BY AddedList
    <3>2. x \notin S BY <2>3
    <3>3. \A w : ~Behind(Added(list, z), x, w) BY <3>1, <3>2 DEF Behind
    <3>. QED BY <1>3, <2>1, <3>3
  <2>. QED BY <2>2, <2>3
<1>4. CASE y \in {x, Freed} /\ \E gone : m = Removed(list, gone)
  <2>1. PICK gone : m = Removed(list, gone) BY <1>4
  <2>2. /\ m \in Seq(S)
        /\ \A v, w : Behind(m, v, w) => Behind(list, v, w)
    BY <2>1, RemovedList
  <2>3. \A w : ~Behind(m, Freed, w) BY <2>2 DEF Behind
  <2>4. CASE y = x BY <2>2, <2>4
  <2>5. CASE y = Freed BY <2>3, <2>5
  <2>. QED BY <1>4, <2>4, <2>5
<1>. QED BY <1>1, <1>2, <1>3, <1>4

\* In a walk over the descriptors, what a step does to their list.
LEMMA WatchWalk ==
  ASSUME TypeOK, Pointers, Next, {pc, pc'} \subseteq Walk
  PROVE  \/ watches' = watches /\ next' = next
         \/ watches' = watches /\ next' = After(watches, next) /\ next \in Items
         \/ next' = next /\ \E f \in Items : watches' = Added(watches, f)
         \/ next' \in {next, Freed} /\ \E gone : watches' = Removed(watches, gone)
<1>. USE DEF Walk
<1>1. CASE Loop
  <2>1. CASE VisitDbus
    BY <2>1, Names DEF VisitDbus, VisitDwatch, lists
  <2>2. CASE VisitOddjob BY <2>2, Names DEF VisitOddjob, lists
  <2>3. CASE WatchFnReturns BY <2>3 DEF WatchFnReturns, EndOfWatch
  <2>. QED
    BY <1>1, <2>1, <2>2, <2>3
    DEF Loop, SelectExpires, SelectRefused, SelectFails, IterateFails, VisitFreed, EndWatches,
        HandleDwatch, HandleTimers, VisitPid, PidFnReturns, EndPids
<1>2. CASE Program
  <2>1. ASSUME NEW f \in Fds, AddWatch(f) PROVE \E g \in Items : watches' = Added(watches, g)
    BY <2>1, Names DEF AddWatch
  <2>2. ASSUME NEW f \in Fds, AddWatch(f) PROVE next' = next BY <2>2 DEF AddWatch
  <2>3. ASSUME NEW f \in Fds, RemoveWatch(f)
        PROVE  next' \in {next, Freed} /\ \E gone : watches' = Removed(watches, gone)
    BY <2>3 DEF RemoveWatch
  <2>4. ASSUME NEW p \in Pids, StartHelper(p) PROVE watches' = watches /\ next' = next
    BY <2>4 DEF StartHelper
  <2>5. ASSUME NEW p \in Pids, RemovePid(p) PROVE watches' = watches /\ next' = next
    <3>1. next # p BY Names DEF Pointers
    <3>. QED BY <2>5, <3>1 DEF RemovePid
  <2>6. ~Iterate BY DEF Iterate
  <2>. QED BY <1>2, <2>1, <2>2, <2>3, <2>4, <2>5, <2>6 DEF Program
<1>3. CASE Environment
  BY <1>3 DEF Environment, SelectReady, SelectInterrupted, SelectFails, Tick, HelperEnds, Attach,
     Detach, Toggle, TakeTimer, SetTimer, LibdbusRuns, lists
<1>4. CASE Anything BY <1>4 DEF Anything
<1>. QED BY <1>1, <1>2, <1>3, <1>4 DEF Next

\* In a walk over the helpers, likewise.
LEMMA HelperWalk ==
  ASSUME TypeOK, Pointers, Next, {pc, pc'} \subseteq PidWalk
  PROVE  \/ pids' = pids /\ next' = next
         \/ pids' = pids /\ next' = After(pids, next) /\ next \in Pids
         \/ next' = next /\ \E p \in Pids : pids' = Added(pids, p)
         \/ next' \in {next, Freed} /\ \E gone : pids' = Removed(pids, gone)
<1>. USE DEF PidWalk
<1>1. CASE Loop
  <2>1. CASE VisitPid BY <2>1 DEF VisitPid, lists
  <2>2. CASE PidFnReturns BY <2>2 DEF PidFnReturns
  <2>. QED
    BY <1>1, <2>1, <2>2
    DEF Loop, SelectExpires, SelectRefused, SelectFails, IterateFails, VisitDbus, VisitDwatch,
        Walking, VisitOddjob, VisitFreed, WatchFnReturns, EndOfWatch, EndWatches,
        HandleDwatch, HandleTimers, EndPids
<1>2. CASE Program
  <2>1. ASSUME NEW p \in Pids, StartHelper(p)
        PROVE  next' = next /\ \E q \in Pids : pids' = Added(pids, q)
    BY <2>1 DEF StartHelper
  <2>2. ASSUME NEW p \in Pids, RemovePid(p)
        PROVE  next' \in {next, Freed} /\ \E gone : pids' = Removed(pids, gone)
    BY <2>2 DEF RemovePid
  <2>3. ASSUME NEW f \in Fds, AddWatch(f) PROVE pids' = pids /\ next' = next
    BY <2>3 DEF AddWatch
  <2>4. ASSUME NEW f \in Fds, RemoveWatch(f) PROVE pids' = pids /\ next' = next
    <3>1. next # f BY Names DEF Pointers
    <3>. QED BY <2>4, <3>1 DEF RemoveWatch
  <2>5. ~Iterate BY DEF Iterate
  <2>. QED BY <1>2, <2>1, <2>2, <2>3, <2>4, <2>5 DEF Program
<1>3. CASE Environment
  BY <1>3 DEF Environment, SelectReady, SelectInterrupted, SelectFails, Tick, HelperEnds, Attach,
     Detach, Toggle, TakeTimer, SetTimer, LibdbusRuns, LibdbusKeeps, lists
<1>4. CASE Anything BY <1>4 DEF Anything
<1>. QED BY <1>1, <1>2, <1>3, <1>4 DEF Next

\* The walks of handle come to their ends: wlnext and plnext only ever move towards the
\* end of lists in whose rest no callback puts anything.
THEOREM WalksEndTheorem == Spec => WalksEnd
<1> DEFINE Watched == {pc, pc'} \subseteq {"watches", "watch fn"} =>
                        /\ Remaining(watches)' \subseteq Remaining(watches)
                        /\ next' # next => next \notin Remaining(watches)'
           Reaped == {pc, pc'} \subseteq {"pids", "pid fn"} =>
                        /\ Remaining(pids)' \subseteq Remaining(pids)
                        /\ next' # next => next \notin Remaining(pids)'
<1>1. ASSUME TypeOK, TypeOK', Pointers, Next PROVE Watched
  <2>. SUFFICES ASSUME {pc, pc'} \subseteq Walk
                PROVE  /\ Remaining(watches)' \subseteq Remaining(watches)
                       /\ next' # next => next \notin Remaining(watches)'
    BY DEF Walk
  <2>1. watches \in Seq(Items) /\ IsInjective(watches) /\ watches' \in Seq(Items)
    BY <1>1 DEF TypeOK
  <2>2. next \in Items => Contains(watches, next) BY <1>1 DEF Pointers
  <2>3. None \notin Items /\ Freed \notin Items BY Names
  <2>4. /\ \A z : Behind(watches', next', z) => Behind(watches, next, z)
        /\ next' # next => ~Behind(watches', next', next)
    BY <1>1, <2>1, <2>2, <2>3, WatchWalk, NothingNew
  <2>5. \A x : x \in Remaining(watches) <=> Behind(watches, next, x) BY <2>1, RemainingIs
  <2>6. \A x : x \in Remaining(watches)' <=> Behind(watches', next', x)
    <3>1. DOMAIN watches' = 1 .. Len(watches') BY <2>1
    <3>. QED BY <3>1 DEF Remaining, Behind, ToSet
  <2>. QED BY <2>4, <2>5, <2>6
<1>2. ASSUME TypeOK, TypeOK', Pointers, Next PROVE Reaped
  <2>. SUFFICES ASSUME {pc, pc'} \subseteq PidWalk
                PROVE  /\ Remaining(pids)' \subseteq Remaining(pids)
                       /\ next' # next => next \notin Remaining(pids)'
    BY DEF PidWalk
  <2>1. pids \in Seq(Pids) /\ IsInjective(pids) /\ pids' \in Seq(Pids)
    BY <1>2 DEF TypeOK
  <2>2. next \in Pids => Contains(pids, next) BY <1>2 DEF Pointers
  <2>3. None \notin Pids /\ Freed \notin Pids BY Names
  <2>4. /\ \A z : Behind(pids', next', z) => Behind(pids, next, z)
        /\ next' # next => ~Behind(pids', next', next)
    BY <1>2, <2>1, <2>2, <2>3, HelperWalk, NothingNew
  <2>5. \A x : x \in Remaining(pids) <=> Behind(pids, next, x) BY <2>1, RemainingIs
  <2>6. \A x : x \in Remaining(pids)' <=> Behind(pids', next', x)
    <3>1. DOMAIN pids' = 1 .. Len(pids') BY <2>1
    <3>. QED BY <3>1 DEF Remaining, Behind, ToSet
  <2>. QED BY <2>4, <2>5, <2>6
<1>3. LoopInvariant => TypeOK /\ Pointers BY DEF LoopInvariant
<1>4. TypeOK /\ TypeOK' /\ Pointers /\ [Next]_vars => [Watched /\ Reaped]_vars BY <1>1, <1>2
<1>. QED BY <1>3, <1>4, LoopInvariantHolds, PTL DEF Spec, WalksEnd
=============================================================================
