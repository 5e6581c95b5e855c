----------------------------- MODULE FiniteOrders -----------------------------
(* First and last elements of sets: the facts behind every "the next one" of *)
(* a heap, a sort or a search in a sequence.                                 *)
EXTENDS Integers, FiniteSets, FiniteSetTheorems, WellFoundedInduction, TLAPS

LEMMA LeastNatural ==
  ASSUME NEW N \in SUBSET Nat, N # {}
  PROVE  \E m \in N : \A n \in N : m <= n
<1> DEFINE R == OpToRel(<, Nat)
<1>1. \E m \in N : \A n \in N : <<n, m>> \notin R
  <2>1. IsWellFoundedOn(R, Nat)
    BY NatLessThanWellFounded
  <2> HIDE DEF R
  <2>2. QED BY <2>1, WFMin
<1>2. \A m, n \in Nat : n < m => <<n, m>> \in R
  BY DEF OpToRel
<1> HIDE DEF R
<1>3. PICK m \in N : \A n \in N : <<n, m>> \notin R
  BY <1>1
<1>4. ASSUME NEW n \in N PROVE m <= n
  <2>1. m \in Nat /\ n \in Nat /\ ~ (n < m)
    BY <1>2, <1>3
  <2>2. QED BY <2>1
<1>5. QED BY <1>4

LEMMA GreatestIndex ==
  ASSUME NEW n \in Nat, NEW N \in SUBSET (1..n), N # {}
  PROVE  \E m \in N : \A x \in N : x <= m
<1> DEFINE M == {n - x : x \in N}
<1>1. M \in SUBSET Nat /\ M # {}
  <2>1. \A x \in N : n - x \in Nat
    OBVIOUS
  <2>2. QED BY <2>1
<1>2. PICK d \in M : \A y \in M : d <= y
  <2> HIDE DEF M
  <2>1. QED BY <1>1, LeastNatural
<1>3. PICK m \in N : d = n - m
  BY <1>2
<1>4. ASSUME NEW x \in N PROVE x <= m
  <2>1. n - x \in M
    OBVIOUS
  <2>2. n - m <= n - x
    BY <1>2, <1>3, <2>1
  <2>3. QED BY <2>2
<1>5. QED BY <1>4

\* Counting the elements of K that R puts before an element shows that there is
\* one with none before it.
LEMMA FirstElement ==
  ASSUME NEW K, IsFiniteSet(K), K # {}, NEW R,
         \A j \in K : <<j, j>> \notin R,
         \A j, k, l \in K : <<j, k>> \in R /\ <<k, l>> \in R => <<j, l>> \in R
  PROVE  \E k \in K : \A j \in K : <<j, k>> \notin R
<1> DEFINE Ahead(k) == {j \in K : <<j, k>> \in R}
           N == {Cardinality(Ahead(k)) : k \in K}
<1>1. \A k \in K : IsFiniteSet(Ahead(k)) /\ Cardinality(Ahead(k)) \in Nat
  BY FS_Subset, FS_CardinalityType
<1>2. N \in SUBSET Nat /\ N # {}
  <2> HIDE DEF Ahead
  <2>1. QED BY <1>1
<1>3. PICK m \in N : \A n \in N : m <= n
  <2> HIDE DEF N
  <2>1. QED BY <1>2, LeastNatural
<1>4. PICK k \in K : m = Cardinality(Ahead(k))
  BY <1>3
<1>5. ASSUME NEW j \in K, <<j, k>> \in R
      PROVE  FALSE
  <2>1. Ahead(j) \subseteq Ahead(k)
    BY <1>5
  <2>2. j \in Ahead(k) /\ j \notin Ahead(j)
    BY <1>5
  <2>3. Cardinality(Ahead(j)) <= Cardinality(Ahead(k)) /\ Ahead(j) # Ahead(k)
    <3>1. Cardinality(Ahead(j)) <= Cardinality(Ahead(k))
      BY <1>1, <2>1, FS_Subset
    <3>2. QED BY <2>2, <3>1
  <2>4. Cardinality(Ahead(j)) # Cardinality(Ahead(k))
    BY <1>1, <2>1, <2>3, FS_Subset
  <2>5. Cardinality(Ahead(k)) <= Cardinality(Ahead(j))
    <3> HIDE DEF Ahead
    <3>1. QED BY <1>3, <1>4
  <2>6. Cardinality(Ahead(j)) \in Nat /\ Cardinality(Ahead(k)) \in Nat
    BY <1>1
  <2> HIDE DEF Ahead
  <2>7. QED BY <2>3, <2>4, <2>5, <2>6
<1>6. QED BY <1>5
=============================================================================
