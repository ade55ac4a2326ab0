------------------------------ MODULE Counting ------------------------------
(* Lemmas about the sizes of finite sets that the proofs share: what is     *)
(* recorded and what is in hand, and how many elements of an order are left *)
(* above so many.                                                           *)
EXTENDS Integers, FiniteSets, FiniteSetTheorems, WellFoundedInduction, TLAPS

\* Nothing is added to either set.
LEMMA NeitherGrows ==
  ASSUME NEW S, IsFiniteSet(S), NEW H, IsFiniteSet(H), NEW T, T \subseteq S, NEW G, G \subseteq H
  PROVE  /\ IsFiniteSet(T) /\ IsFiniteSet(G)
         /\ Cardinality(T) \in Nat /\ Cardinality(G) \in Nat
         /\ Cardinality(S) \in Nat /\ Cardinality(H) \in Nat
         /\ Cardinality(T) + Cardinality(G) <= Cardinality(S) + Cardinality(H)
<1>1. IsFiniteSet(T) /\ Cardinality(T) <= Cardinality(S)
  BY FS_Subset
<1>2. IsFiniteSet(G) /\ Cardinality(G) <= Cardinality(H)
  BY FS_Subset
<1>3. /\ Cardinality(T) \in Nat /\ Cardinality(G) \in Nat
      /\ Cardinality(S) \in Nat /\ Cardinality(H) \in Nat
  BY <1>1, <1>2, FS_CardinalityType
<1> QED
  BY <1>1, <1>2, <1>3

OneMore(S, T) == \E x : T \subseteq S \cup {x}
OneFewer(H, G) == \E r \in H : G \subseteq H \ {r}

\* At most one element is added to the first set and one leaves the second.
LEMMA OneMovesOver ==
  ASSUME NEW S, IsFiniteSet(S), NEW H, IsFiniteSet(H),
         NEW T, OneMore(S, T), NEW G, OneFewer(H, G)
  PROVE  /\ IsFiniteSet(T) /\ IsFiniteSet(G)
         /\ Cardinality(T) \in Nat /\ Cardinality(G) \in Nat
         /\ Cardinality(T) + Cardinality(G) <= Cardinality(S) + Cardinality(H)
<1>a. PICK x : T \subseteq S \cup {x}
  BY DEF OneMore
<1>b. PICK r \in H : G \subseteq H \ {r}
  BY DEF OneFewer
<1>1. /\ IsFiniteSet(S \cup {x})
      /\ Cardinality(S \cup {x}) = IF x \in S THEN Cardinality(S) ELSE Cardinality(S) + 1
  BY FS_AddElement
<1>2. IsFiniteSet(H \ {r}) /\ Cardinality(H \ {r}) = Cardinality(H) - 1
  BY FS_RemoveElement
<1>3. /\ Cardinality(S) \in Nat /\ Cardinality(H) \in Nat
      /\ Cardinality(S \cup {x}) \in Nat /\ Cardinality(H \ {r}) \in Nat
  BY <1>1, <1>2, FS_CardinalityType
<1>4. /\ IsFiniteSet(T) /\ IsFiniteSet(G)
      /\ Cardinality(T) \in Nat /\ Cardinality(G) \in Nat
      /\ Cardinality(T) + Cardinality(G) <= Cardinality(S \cup {x}) + Cardinality(H \ {r})
  BY <1>a, <1>b, <1>1, <1>2, NeitherGrows
<1> QED
  BY <1>1, <1>2, <1>3, <1>4
-----------------------------------------------------------------------------
(* Orders *)

LEMMA LeastNatural ==
  ASSUME NEW T \in SUBSET Nat, T # {}
  PROVE  \E x \in T : \A y \in T : x <= y
<1>1. PICK x \in T : \A y \in T : ~(<<y, x>> \in OpToRel(<, Nat))
  BY WFMin, NatLessThanWellFounded
<1>2. \A y \in T : ~(y < x)
  BY <1>1 DEF OpToRel
<1> QED
  BY <1>2

\* The first n numbers are n.
LEMMA FirstNumbers ==
  ASSUME NEW n \in Nat
  PROVE  IsFiniteSet(1..n) /\ Cardinality(1..n) = n /\ 1..n \subseteq Int
<1>1. IsFiniteSet(1..n) /\ Cardinality(1..n) = IF 1 > n THEN 0 ELSE n - 1 + 1
  BY FS_Interval
<1> QED
  BY <1>1

\* below is what each element of S has under it in a strict total order.
Orders(below, S) ==
    /\ below \in [S -> SUBSET S]
    /\ \A i, j \in S : i # j => i \in below[j] \/ j \in below[i]
    /\ \A i, j \in S : i \in below[j] => below[i] \subseteq below[j] /\ i \notin below[i]

\* The elements with at least n under them are at most those that n leave.
LEMMA FewAbove ==
  ASSUME NEW S, IsFiniteSet(S), NEW below, Orders(below, S), NEW n \in Nat, NEW m \in Nat,
         Cardinality(S) <= n + m, NEW R \in SUBSET S,
         \A i \in R : Cardinality(below[i]) >= n
  PROVE  IsFiniteSet(R) /\ Cardinality(R) <= m
<1>1. ASSUME NEW T \in SUBSET S
      PROVE  IsFiniteSet(T) /\ Cardinality(T) \in Nat /\ Cardinality(T) <= Cardinality(S)
  <2>1. IsFiniteSet(T) /\ Cardinality(T) <= Cardinality(S)
    BY FS_Subset
  <2> QED
    BY <2>1, FS_CardinalityType
<1>2. CASE R = {}
  BY <1>2, FS_EmptySet
<1>3. CASE R # {}
  <2>0. \A i \in R : below[i] \in SUBSET S
    BY DEF Orders
  <2> DEFINE Sizes == {Cardinality(below[i]) : i \in R}
  <2>1. Sizes \in SUBSET Nat /\ Sizes # {}
    BY <1>1, <1>3, <2>0
  <2>2. PICK r \in R : \A i \in R : Cardinality(below[r]) <= Cardinality(below[i])
    <3>1. PICK k \in Sizes : \A y \in Sizes : k <= y
      BY <2>1, LeastNatural
    <3> QED
      BY <3>1
  <2>3. below[r] \in SUBSET S /\ r \in S
    BY <2>0
  <2>4. ASSUME NEW x \in R, x \in below[r]
        PROVE  FALSE
    <3>1. below[x] \in SUBSET S /\ below[x] \subseteq below[r] /\ x \notin below[x]
      BY <2>0, <2>3, <2>4 DEF Orders
    <3>2. IsFiniteSet(below[r]) /\ Cardinality(below[r]) \in Nat
          /\ Cardinality(below[x]) \in Nat
      BY <1>1, <2>3, <3>1
    <3>3. /\ Cardinality(below[x]) <= Cardinality(below[r])
          /\ Cardinality(below[r]) = Cardinality(below[x]) => below[r] = below[x]
      <4>1. \A A : IsFiniteSet(A) => \A B \in SUBSET A :
              /\ Cardinality(B) <= Cardinality(A)
              /\ Cardinality(A) = Cardinality(B) => A = B
        BY FS_Subset
      <4>2. below[x] \in SUBSET below[r]
        BY <3>1
      <4> QED
        BY <3>2, <4>1, <4>2
    <3>4. Cardinality(below[r]) <= Cardinality(below[x])
      BY <2>2
    <3>5. Cardinality(below[x]) = Cardinality(below[r])
      BY <3>2, <3>3, <3>4
    <3> QED
      BY <2>4, <3>1, <3>3, <3>5
  <2>5. R \subseteq S \ below[r]
    BY <2>4
  <2>6. /\ IsFiniteSet(S \ below[r])
        /\ Cardinality(S \ below[r]) = Cardinality(S) - Cardinality(S \cap below[r])
    BY FS_Difference
  <2>7. S \cap below[r] = below[r]
    BY <2>3
  <2>8. IsFiniteSet(R) /\ Cardinality(R) <= Cardinality(S) - Cardinality(below[r])
    <3>1. IsFiniteSet(R) /\ Cardinality(R) <= Cardinality(S \ below[r])
      BY <2>5, <2>6, FS_Subset
    <3> QED
      BY <2>6, <2>7, <3>1
  <2>9. Cardinality(below[r]) >= n /\ Cardinality(below[r]) \in Nat
        /\ Cardinality(S) \in Nat /\ Cardinality(R) \in Nat
    BY <1>1, <2>3, <2>8, FS_CardinalityType
  <2> QED
    BY <2>8, <2>9
<1> QED
  BY <1>2, <1>3

\* In an order each element has a number of others under it that is its own, and
\* between none and all but itself.
LEMMA RanksDiffer ==
  ASSUME NEW S, IsFiniteSet(S), NEW below, Orders(below, S)
  PROVE  /\ \A x \in S : Cardinality(below[x]) \in 0..(Cardinality(S) - 1)
         /\ \A x, y \in S : x \in below[y] => Cardinality(below[x]) < Cardinality(below[y])
<1>1. \A T \in SUBSET S : IsFiniteSet(T) /\ Cardinality(T) \in Nat
  BY FS_Subset, FS_CardinalityType
<1>2. ASSUME NEW x \in S
      PROVE  below[x] \in SUBSET S /\ x \notin below[x]
  <2>1. CASE x \in below[x]
    BY <2>1 DEF Orders
  <2>2. CASE x \notin below[x]
    BY <2>2 DEF Orders
  <2> QED
    BY <2>1, <2>2
<1>3. ASSUME NEW A \in SUBSET S, NEW B \in SUBSET A, NEW x \in A, x \notin B
      PROVE  Cardinality(B) < Cardinality(A)
  <2>1. IsFiniteSet(A) /\ Cardinality(A) \in Nat /\ Cardinality(B) \in Nat
    BY <1>1
  <2>2. Cardinality(B) <= Cardinality(A) /\ (Cardinality(A) = Cardinality(B) => A = B)
    BY <2>1, FS_Subset
  <2> QED
    BY <1>3, <2>1, <2>2
<1>4. ASSUME NEW x \in S
      PROVE  Cardinality(below[x]) \in 0..(Cardinality(S) - 1)
  <2>1. Cardinality(below[x]) < Cardinality(S)
    BY <1>2, <1>3
  <2>2. Cardinality(below[x]) \in Nat /\ Cardinality(S) \in Nat
    BY <1>1, <1>2
  <2> QED
    BY <2>1, <2>2
<1>5. ASSUME NEW x \in S, NEW y \in S, x \in below[y]
      PROVE  Cardinality(below[x]) < Cardinality(below[y])
  <2>1. below[x] \in SUBSET below[y] /\ x \notin below[x] /\ below[y] \in SUBSET S
    BY <1>2, <1>5 DEF Orders
  <2> QED
    BY <1>3, <1>5, <2>1
<1> QED
  BY <1>4, <1>5

\* So every number is somebody's: it would otherwise be one of too few.
LEMMA RanksFill ==
  ASSUME NEW S, IsFiniteSet(S), NEW below, Orders(below, S), NEW n \in 0..(Cardinality(S) - 1)
  PROVE  \E x \in S : Cardinality(below[x]) = n
<1> SUFFICES ASSUME \A x \in S : Cardinality(below[x]) # n PROVE FALSE
  OBVIOUS
<1> DEFINE m == Cardinality(S)
           f == [x \in S |-> Cardinality(below[x])]
<1>1. m \in Nat
  BY FS_CardinalityType
<1>2. IsFiniteSet(0..(m - 1)) /\ Cardinality(0..(m - 1)) = m
  BY <1>1, FS_Interval
<1> DEFINE T == 0..(m - 1)
<1>3. IsFiniteSet(T \ {n}) /\ Cardinality(T \ {n}) = m - 1
  <2>1. n \in T /\ IsFiniteSet(T) /\ Cardinality(T) = m
    BY <1>2
  <2> HIDE DEF T
  <2> QED
    BY <2>1, FS_RemoveElement
<1>4. f \in [S -> T \ {n}]
  BY RanksDiffer
<1>5. m - 1 < m
  BY <1>1
<1> HIDE DEF f, T
<1>6. PICK x, y \in S : x # y /\ f[x] = f[y]
  BY <1>3, <1>4, <1>5, FS_PigeonHole
<1>7. x \in below[y] \/ y \in below[x]
  BY <1>6 DEF Orders
<1>8. Cardinality(below[x]) < Cardinality(below[y]) \/ Cardinality(below[y]) < Cardinality(below[x])
  BY <1>7, RanksDiffer
<1>9. Cardinality(below[x]) = Cardinality(below[y])
  BY <1>6 DEF f
<1>10. Cardinality(below[x]) \in Nat
  BY RanksDiffer
<1> QED
  BY <1>8, <1>9, <1>10
=============================================================================
