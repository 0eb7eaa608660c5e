-------------------------- MODULE PickedListsProofs --------------------------
(***************************************************************************)
(* What picking a set of positions of a list keeps: the elements, each     *)
(* once, and their order; and what listing a set gives.                    *)
(***************************************************************************)
EXTENDS PickedLists, SequencesExt, FunctionTheorems, FiniteSetTheorems, SequenceTheorems, TLAPS

UpTo(S, i) == { j \in S : j <= i }

LEMMA PositionsFinite ==
  ASSUME NEW n \in Nat, NEW S \in SUBSET (1 .. n)
  PROVE  /\ IsFiniteSet(S) /\ Cardinality(S) \in 0 .. n
         /\ \A i \in S : IsFiniteSet(UpTo(S, i)) /\ Cardinality(UpTo(S, i)) \in 1 .. Cardinality(S)
<1>1. IsFiniteSet(1 .. n) /\ Cardinality(1 .. n) = n
  BY FS_Interval
<1>2. IsFiniteSet(S) /\ Cardinality(S) \in Nat /\ Cardinality(S) <= n
  BY <1>1, FS_Subset, FS_CardinalityType
<1>3. ASSUME NEW i \in S
      PROVE  IsFiniteSet(UpTo(S, i)) /\ Cardinality(UpTo(S, i)) \in 1 .. Cardinality(S)
  <2>1. UpTo(S, i) \in SUBSET S /\ i \in UpTo(S, i)
    BY DEF UpTo
  <2>2. /\ IsFiniteSet(UpTo(S, i)) /\ Cardinality(UpTo(S, i)) <= Cardinality(S)
        /\ Cardinality(UpTo(S, i)) \in Nat
    BY <1>2, <2>1, FS_Subset, FS_CardinalityType
  <2>3. Cardinality(UpTo(S, i)) # 0
    BY <2>1, <2>2, FS_EmptySet
  <2> QED
    BY <1>2, <2>2, <2>3
<1> QED
  BY <1>2, <1>3

\* The number of a position in the set grows with the position.
LEMMA NumbersGrow ==
  ASSUME NEW n \in Nat, NEW S \in SUBSET (1 .. n), NEW i \in S, NEW j \in S, i < j
  PROVE  Cardinality(UpTo(S, i)) < Cardinality(UpTo(S, j))
<1>1. UpTo(S, i) \in SUBSET UpTo(S, j) /\ j \in UpTo(S, j) /\ j \notin UpTo(S, i)
  <2>1. \A x \in S : x \in Int
    OBVIOUS
  <2>2. i \in Int /\ j \in Int
    BY <2>1
  <2>3. \A x \in S : x <= i => x <= j
    BY <2>1, <2>2
  <2>4. j <= j /\ ~ (j <= i)
    BY <2>2
  <2> QED
    BY <2>3, <2>4 DEF UpTo
<1>2. /\ Cardinality(UpTo(S, i)) <= Cardinality(UpTo(S, j))
      /\ Cardinality(UpTo(S, j)) = Cardinality(UpTo(S, i)) => UpTo(S, j) = UpTo(S, i)
  BY <1>1, PositionsFinite, FS_Subset
<1>3. Cardinality(UpTo(S, i)) \in Nat /\ Cardinality(UpTo(S, j)) \in Nat
  BY PositionsFinite
<1> QED
  BY <1>1, <1>2, <1>3

\* Every number up to the size of the set is that of one position.
LEMMA NthIs ==
  ASSUME NEW n \in Nat, NEW S \in SUBSET (1 .. n), NEW k \in 1 .. Cardinality(S)
  PROVE  Nth(S, k) \in S /\ Cardinality(UpTo(S, Nth(S, k))) = k
<1> DEFINE m == Cardinality(S)
           f == [i \in S |-> Cardinality(UpTo(S, i))]
<1>1. IsFiniteSet(S) /\ m \in Nat /\ IsFiniteSet(1 .. m) /\ Cardinality(1 .. m) = m
  <2>1. IsFiniteSet(S) /\ m \in Nat
    BY PositionsFinite
  <2> HIDE DEF m
  <2>2. IsFiniteSet(1 .. m) /\ Cardinality(1 .. m) = (IF 1 > m THEN 0 ELSE m - 1 + 1)
    BY <2>1, FS_Interval
  <2> QED
    BY <2>1, <2>2
<1>2. f \in [S -> 1 .. m]
  BY PositionsFinite
<1>3. \A i, j \in S : f[i] = f[j] => i = j
  <2>1. \A i, j \in S : i < j \/ j < i \/ i = j
    OBVIOUS
  <2>2. \A i, j \in S : i < j => f[i] < f[j]
    BY NumbersGrow
  <2>3. \A i \in S : f[i] \in Nat
    BY <1>1, <1>2
  <2> QED
    BY <2>1, <2>2, <2>3
<1> HIDE DEF m, f
<1>4. f \in Injection(S, 1 .. m)
  BY <1>2, <1>3, Fun_IsInj
<1>5. f \in Surjection(S, 1 .. m)
  BY <1>1, <1>4, FS_Injection DEF m
<1>6. \E i \in S : f[i] = k
  <2>1. \A t \in 1 .. m : \E i \in S : f[i] = t
    BY <1>5, Fun_SurjectionProperties
  <2> QED
    BY <2>1 DEF m
<1>7. \E i \in S : Cardinality({j \in S : j <= i}) = k
  BY <1>6 DEF f, UpTo
<1> QED
  BY <1>7 DEF Nth, UpTo

LEMMA NthGrows ==
  ASSUME NEW n \in Nat, NEW S \in SUBSET (1 .. n),
         NEW k \in 1 .. Cardinality(S), NEW l \in 1 .. Cardinality(S), k < l
  PROVE  Nth(S, k) < Nth(S, l)
<1>1. /\ Nth(S, k) \in S /\ Cardinality(UpTo(S, Nth(S, k))) = k
      /\ Nth(S, l) \in S /\ Cardinality(UpTo(S, Nth(S, l))) = l
  BY NthIs
<1>2. Cardinality(S) \in Nat /\ Nth(S, k) \in Nat /\ Nth(S, l) \in Nat
  <2>1. Cardinality(S) \in Nat
    BY PositionsFinite
  <2>2. \A j \in S : j \in Nat
    OBVIOUS
  <2> QED
    BY <1>1, <2>1, <2>2
<1>3. CASE Nth(S, l) < Nth(S, k)
  <2>1. Cardinality(UpTo(S, Nth(S, l))) < Cardinality(UpTo(S, Nth(S, k)))
    BY <1>1, <1>3, NumbersGrow
  <2>2. l < k
    BY <1>1, <2>1
  <2> QED
    BY <1>2, <2>2
<1>4. CASE Nth(S, l) = Nth(S, k)
  BY <1>1, <1>2, <1>4
<1> QED
  BY <1>2, <1>3, <1>4

\* Every position of the set has its turn.
LEMMA EachIsNth ==
  ASSUME NEW n \in Nat, NEW S \in SUBSET (1 .. n), NEW i \in S
  PROVE  /\ Cardinality(UpTo(S, i)) \in 1 .. Cardinality(S)
         /\ Nth(S, Cardinality(UpTo(S, i))) = i
<1> DEFINE k == Cardinality(UpTo(S, i))
<1>1. k \in 1 .. Cardinality(S)
  BY PositionsFinite
<1>2. Nth(S, k) \in S /\ Cardinality(UpTo(S, Nth(S, k))) = k
  BY <1>1, NthIs
<1>3. k \in Nat /\ i \in Nat /\ Nth(S, k) \in Nat
  <2>1. Cardinality(S) \in Nat
    BY PositionsFinite
  <2> HIDE DEF k
  <2>2. k \in Nat
    BY <1>1, <2>1
  <2>3. \A j \in S : j \in Nat
    OBVIOUS
  <2> QED
    BY <1>2, <2>2, <2>3
<1>4. /\ Nth(S, k) < i => Cardinality(UpTo(S, Nth(S, k))) < k
      /\ i < Nth(S, k) => k < Cardinality(UpTo(S, Nth(S, k)))
  BY <1>2, NumbersGrow
<1> HIDE DEF k
<1>5. Nth(S, k) = i
  BY <1>2, <1>3, <1>4
<1> QED
  BY <1>1, <1>5 DEF k

\* Picking keeps the elements at the positions, and no other.
THEOREM PickedProperties ==
  ASSUME NEW E, NEW list \in Seq(E), NEW S \in SUBSET (DOMAIN list)
  PROVE  /\ Picked(list, S) \in Seq(E)
         /\ Len(Picked(list, S)) = Cardinality(S)
         /\ Cardinality(S) \in 0 .. Len(list)
         /\ DOMAIN Picked(list, S) = 1 .. Cardinality(S)
         /\ \A k \in DOMAIN Picked(list, S) :
                Nth(S, k) \in S /\ Picked(list, S)[k] = list[Nth(S, k)]
         /\ \A i \in S : \E k \in DOMAIN Picked(list, S) :
                Nth(S, k) = i /\ Picked(list, S)[k] = list[i]
<1>1. Len(list) \in Nat /\ DOMAIN list = 1 .. Len(list) /\ \A i \in DOMAIN list : list[i] \in E
  BY LenProperties
<1>2. Cardinality(S) \in 0 .. Len(list) /\ Cardinality(S) \in Nat
  BY <1>1, PositionsFinite
<1>3. \A k \in 1 .. Cardinality(S) : Nth(S, k) \in S
  BY <1>1, NthIs
<1>4. Picked(list, S) \in [1 .. Cardinality(S) -> E]
  BY <1>1, <1>3 DEF Picked
<1>5. Picked(list, S) \in Seq(E)
  BY <1>2, <1>4
<1>6. /\ DOMAIN Picked(list, S) = 1 .. Cardinality(S)
      /\ \A k \in 1 .. Cardinality(S) : Picked(list, S)[k] = list[Nth(S, k)]
  BY DEF Picked
<1>7. Len(Picked(list, S)) = Cardinality(S)
  BY <1>2, <1>5, <1>6
<1>8. \A i \in S : \E k \in 1 .. Cardinality(S) : Nth(S, k) = i
  BY <1>1, EachIsNth
<1> QED
  BY <1>2, <1>3, <1>5, <1>6, <1>7, <1>8

\* Distinct elements stay distinct, and in order.
THEOREM PickedInOrder ==
  ASSUME NEW E, NEW list \in Seq(E), NEW S \in SUBSET (DOMAIN list),
         NEW k \in DOMAIN Picked(list, S), NEW l \in DOMAIN Picked(list, S), k < l
  PROVE  Nth(S, k) < Nth(S, l)
<1>1. Len(list) \in Nat /\ DOMAIN list = 1 .. Len(list)
  BY LenProperties
<1>2. DOMAIN Picked(list, S) = 1 .. Cardinality(S)
  BY DEF Picked
<1> QED
  BY <1>1, <1>2, NthGrows

\* A set of finitely many, listed in some order: every element once.
LEMMA ListOfSet ==
  ASSUME NEW S, IsFiniteSet(S)
  PROVE  /\ SetToSeq(S) \in Seq(S) /\ DOMAIN SetToSeq(S) = 1 .. Cardinality(S)
         /\ \A i, j \in DOMAIN SetToSeq(S) : SetToSeq(S)[i] = SetToSeq(S)[j] => i = j
         /\ \A e \in S : \E i \in DOMAIN SetToSeq(S) : SetToSeq(S)[i] = e
<1> DEFINE n == Cardinality(S)
           list == SetToSeq(S)
<1>1. n \in Nat /\ ExistsBijection(1 .. n, S)
  BY FS_CardinalityType
<1>2. PICK f \in Bijection(1 .. n, S) : TRUE
  BY <1>1 DEF ExistsBijection
<1>3. f \in [1 .. n -> S] /\ IsInjective(f)
  BY <1>2 DEF Bijection, Injection
<1>4. list \in [1 .. n -> S] /\ IsInjective(list)
  BY <1>3 DEF SetToSeq
<1> HIDE DEF list
<1>5. list \in Seq(S)
  BY <1>1, <1>4, SeqDef
<1>6. \A i, j \in DOMAIN list : list[i] = list[j] => i = j
  BY <1>4 DEF IsInjective
<1>7. list \in Surjection(1 .. n, S)
  <2>1. list \in Injection(1 .. n, S)
    BY <1>4 DEF Injection
  <2>2. 1 \in Int /\ n \in Int
    BY <1>1
  <2>3. IsFiniteSet(1 .. n) /\ Cardinality(1 .. n) = n
    BY <1>1, <2>2, FS_Interval
  <2> QED
    BY <2>1, <2>3, FS_Injection
<1>8. \A e \in S : \E i \in DOMAIN list : list[i] = e
  BY <1>4, <1>7 DEF Surjection
<1> QED
  BY <1>4, <1>5, <1>6, <1>8 DEF list

-----------------------------------------------------------------------------
(* The same by keys.                                                        *)

LEMMA KeyedFinite ==
  ASSUME NEW n \in Nat, NEW S \in SUBSET (1 .. n), NEW key \in [S -> Int]
  PROVE  \A i \in S : /\ IsFiniteSet(NotAfter(S, key, i))
                      /\ Cardinality(NotAfter(S, key, i)) \in 1 .. Cardinality(S)
<1>1. ASSUME NEW i \in S
      PROVE  IsFiniteSet(NotAfter(S, key, i)) /\ Cardinality(NotAfter(S, key, i)) \in 1 .. Cardinality(S)
  <2>1. NotAfter(S, key, i) \in SUBSET S /\ i \in NotAfter(S, key, i)
    BY DEF NotAfter
  <2>2. IsFiniteSet(S) /\ Cardinality(S) \in Nat
    <3>1. IsFiniteSet(S)
      BY PositionsFinite
    <3> QED
      BY <3>1, FS_CardinalityType
  <2>3. /\ IsFiniteSet(NotAfter(S, key, i)) /\ Cardinality(NotAfter(S, key, i)) <= Cardinality(S)
        /\ Cardinality(NotAfter(S, key, i)) \in Nat
    BY <2>1, <2>2, FS_Subset, FS_CardinalityType
  <2>4. Cardinality(NotAfter(S, key, i)) # 0
    BY <2>1, <2>3, FS_EmptySet
  <2> QED
    BY <2>2, <2>3, <2>4
<1> QED
  BY <1>1

Precedes(key, i, j) == key[i] < key[j] \/ (key[i] = key[j] /\ i < j)

LEMMA KeyedGrow ==
  ASSUME NEW n \in Nat, NEW S \in SUBSET (1 .. n), NEW key \in [S -> Int],
         NEW i \in S, NEW j \in S, Precedes(key, i, j)
  PROVE  Cardinality(NotAfter(S, key, i)) < Cardinality(NotAfter(S, key, j))
<1>1. NotAfter(S, key, i) \in SUBSET NotAfter(S, key, j)
      /\ j \in NotAfter(S, key, j) /\ j \notin NotAfter(S, key, i)
  <2>1. \A x \in S : x \in Int /\ key[x] \in Int
    OBVIOUS
  <2>2. \A x \in S : key[x] < key[i] \/ (key[x] = key[i] /\ x <= i)
                      => key[x] < key[j] \/ (key[x] = key[j] /\ x <= j)
    BY <2>1 DEF Precedes
  <2>3. ~ (key[j] < key[i] \/ (key[j] = key[i] /\ j <= i))
    BY <2>1 DEF Precedes
  <2>4. key[j] = key[j] /\ j <= j
    BY <2>1
  <2>5. /\ \A x \in S : x \in NotAfter(S, key, i) <=> key[x] < key[i] \/ (key[x] = key[i] /\ x <= i)
        /\ \A x \in S : x \in NotAfter(S, key, j) <=> key[x] < key[j] \/ (key[x] = key[j] /\ x <= j)
        /\ NotAfter(S, key, i) \subseteq S
    BY DEF NotAfter
  <2> QED
    BY <2>2, <2>3, <2>4, <2>5
<1>2. /\ Cardinality(NotAfter(S, key, i)) <= Cardinality(NotAfter(S, key, j))
      /\ Cardinality(NotAfter(S, key, j)) = Cardinality(NotAfter(S, key, i))
            => NotAfter(S, key, j) = NotAfter(S, key, i)
  BY <1>1, KeyedFinite, FS_Subset
<1>3. Cardinality(NotAfter(S, key, i)) \in Nat /\ Cardinality(NotAfter(S, key, j)) \in Nat
  BY KeyedFinite, FS_CardinalityType
<1> QED
  BY <1>1, <1>2, <1>3

LEMMA KeyedApart ==
  ASSUME NEW n \in Nat, NEW S \in SUBSET (1 .. n), NEW key \in [S -> Int],
         NEW i \in S, NEW j \in S, Cardinality(NotAfter(S, key, i)) = Cardinality(NotAfter(S, key, j))
  PROVE  i = j
<1>1. i \in Int /\ j \in Int /\ key[i] \in Int /\ key[j] \in Int
  OBVIOUS
<1>2. i = j \/ Precedes(key, i, j) \/ Precedes(key, j, i)
  BY <1>1 DEF Precedes
<1>3. Cardinality(NotAfter(S, key, i)) \in Nat /\ Cardinality(NotAfter(S, key, j)) \in Nat
  BY KeyedFinite, FS_CardinalityType
<1>4. ~ Precedes(key, i, j)
  BY <1>3, KeyedGrow
<1>5. ~ Precedes(key, j, i)
  BY <1>3, KeyedGrow
<1> QED
  BY <1>2, <1>4, <1>5

LEMMA NthByIs ==
  ASSUME NEW n \in Nat, NEW S \in SUBSET (1 .. n), NEW key \in [S -> Int], NEW k \in 1 .. Cardinality(S)
  PROVE  NthBy(S, key, k) \in S /\ Cardinality(NotAfter(S, key, NthBy(S, key, k))) = k
<1> DEFINE m == Cardinality(S)
           f == [i \in S |-> Cardinality(NotAfter(S, key, i))]
<1>1. IsFiniteSet(S) /\ m \in Nat /\ IsFiniteSet(1 .. m) /\ Cardinality(1 .. m) = m
  <2>1. IsFiniteSet(S) /\ m \in Nat
    BY PositionsFinite
  <2> HIDE DEF m
  <2>2. IsFiniteSet(1 .. m) /\ Cardinality(1 .. m) = (IF 1 > m THEN 0 ELSE m - 1 + 1)
    BY <2>1, FS_Interval
  <2> QED
    BY <2>1, <2>2
<1>2. f \in [S -> 1 .. m]
  BY KeyedFinite
<1>3. \A i, j \in S : f[i] = f[j] => i = j
  BY KeyedApart
<1> HIDE DEF m, f
<1>4. f \in Injection(S, 1 .. m)
  BY <1>2, <1>3, Fun_IsInj
<1>5. f \in Surjection(S, 1 .. m)
  BY <1>1, <1>4, FS_Injection DEF m
<1>6. \E i \in S : f[i] = k
  <2>1. \A t \in 1 .. m : \E i \in S : f[i] = t
    BY <1>5, Fun_SurjectionProperties
  <2> QED
    BY <2>1 DEF m
<1>7. \E i \in S : Cardinality(NotAfter(S, key, i)) = k
  BY <1>6 DEF f
<1> QED
  BY <1>7 DEF NthBy

\* Ordering by keys keeps the elements at the positions, and no other.
THEOREM PickedByProperties ==
  ASSUME NEW E, NEW list \in Seq(E), NEW S \in SUBSET (DOMAIN list), NEW key \in [S -> Int]
  PROVE  /\ PickedBy(list, S, key) \in Seq(E)
         /\ Len(PickedBy(list, S, key)) = Cardinality(S) /\ Cardinality(S) \in Nat
         /\ DOMAIN PickedBy(list, S, key) = 1 .. Cardinality(S)
         /\ \A k \in 1 .. Cardinality(S) :
                NthBy(S, key, k) \in S /\ PickedBy(list, S, key)[k] = list[NthBy(S, key, k)]
         /\ \A i \in S : \E k \in 1 .. Cardinality(S) : NthBy(S, key, k) = i
         /\ \A k, l \in 1 .. Cardinality(S) : NthBy(S, key, k) = NthBy(S, key, l) => k = l
<1>1. Len(list) \in Nat /\ DOMAIN list = 1 .. Len(list) /\ \A i \in DOMAIN list : list[i] \in E
  BY LenProperties
<1>2. Cardinality(S) \in Nat
  BY <1>1, PositionsFinite
<1>3. \A k \in 1 .. Cardinality(S) :
        NthBy(S, key, k) \in S /\ Cardinality(NotAfter(S, key, NthBy(S, key, k))) = k
  BY <1>1, NthByIs
<1>4. PickedBy(list, S, key) \in [1 .. Cardinality(S) -> E]
  BY <1>1, <1>3 DEF PickedBy
<1>5. PickedBy(list, S, key) \in Seq(E)
  BY <1>2, <1>4
<1>6. /\ DOMAIN PickedBy(list, S, key) = 1 .. Cardinality(S)
      /\ \A k \in 1 .. Cardinality(S) : PickedBy(list, S, key)[k] = list[NthBy(S, key, k)]
  BY DEF PickedBy
<1>7. Len(PickedBy(list, S, key)) = Cardinality(S)
  BY <1>2, <1>5, <1>6
<1>8. ASSUME NEW i \in S
      PROVE  \E k \in 1 .. Cardinality(S) : NthBy(S, key, k) = i
  <2> DEFINE k == Cardinality(NotAfter(S, key, i))
  <2>1. k \in 1 .. Cardinality(S)
    BY <1>1, KeyedFinite
  <2> HIDE DEF k
  <2>2. NthBy(S, key, k) \in S /\ Cardinality(NotAfter(S, key, NthBy(S, key, k))) = k
    BY <1>3, <2>1
  <2>3. Cardinality(NotAfter(S, key, NthBy(S, key, k))) = Cardinality(NotAfter(S, key, i))
    BY <2>2 DEF k
  <2>4. NthBy(S, key, k) = i
    BY <1>1, <2>2, <2>3, KeyedApart
  <2> QED
    BY <2>1, <2>4
<1>9. \A k, l \in 1 .. Cardinality(S) : NthBy(S, key, k) = NthBy(S, key, l) => k = l
  BY <1>3
<1> QED
  BY <1>2, <1>3, <1>5, <1>6, <1>7, <1>8, <1>9
=============================================================================
