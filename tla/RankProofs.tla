----------------------------- MODULE RankProofs -----------------------------
(* What sorting, picking, fusing and assembling yield, for any number of    *)
(* claims: Recall and Decisions are proved from it.                         *)
EXTENDS Rank, Counting, SequenceTheorems

-----------------------------------------------------------------------------
(* Sorting and picking *)

\* Everything once, each after all that come before it.
LEMMA InOrderSorts ==
  ASSUME NEW S, IsFiniteSet(S), NEW before, Orders(before, S),
         NEW s, s = InOrder(S, before)
  PROVE  /\ s \in Seq(S) /\ DOMAIN s = 1..Cardinality(S) /\ Len(s) = Cardinality(S)
         /\ \A x \in S : \E k \in DOMAIN s : s[k] = x
         /\ \A i, j \in DOMAIN s : i < j => s[i] # s[j] /\ s[i] \in before[s[j]]
<1> DEFINE n == Cardinality(S)
<1>1. n \in Nat /\ DOMAIN s = 1..n
  BY FS_CardinalityType DEF InOrder
<1>2. ASSUME NEW k \in 1..n
      PROVE  s[k] \in S /\ Cardinality(before[s[k]]) = k - 1
  <2>1. k - 1 \in 0..(n - 1)
    BY <1>1
  <2>2. \E x \in S : Cardinality(before[x]) = k - 1
    BY <2>1, RanksFill
  <2>3. s[k] = CHOOSE x \in S : Cardinality(before[x]) = k - 1
    BY DEF InOrder
  <2> QED
    BY <2>2, <2>3
<1>3. s \in Seq(S) /\ Len(s) = n
  <2>1. s = [k \in 1..n |-> s[k]]
    BY DEF InOrder
  <2>2. s \in [1..n -> S]
    BY <1>2, <2>1
  <2> QED
    BY <1>1, <2>2, SeqDef, LenProperties
<1>4. ASSUME NEW x \in S
      PROVE  \E k \in DOMAIN s : s[k] = x
  <2>1. Cardinality(before[x]) \in 0..(n - 1)
    BY RanksDiffer
  <2> DEFINE k == Cardinality(before[x]) + 1
  <2>2. k \in 1..n /\ k - 1 = Cardinality(before[x])
    BY <1>1, <2>1
  <2>3. s[k] \in S /\ Cardinality(before[s[k]]) = Cardinality(before[x])
    BY <1>2, <2>2
  <2>4. s[k] = x
    <3> SUFFICES ASSUME s[k] # x PROVE FALSE
      OBVIOUS
    <3>1. s[k] \in before[x] \/ x \in before[s[k]]
      BY <2>3 DEF Orders
    <3>2. \/ Cardinality(before[s[k]]) < Cardinality(before[x])
          \/ Cardinality(before[x]) < Cardinality(before[s[k]])
      BY <2>3, <3>1, RanksDiffer
    <3> QED
      BY <2>1, <2>3, <3>2
  <2> QED
    BY <1>1, <2>2, <2>4
<1>5. ASSUME NEW i \in DOMAIN s, NEW j \in DOMAIN s, i < j
      PROVE  s[i] # s[j] /\ s[i] \in before[s[j]]
  <2>1. /\ s[i] \in S /\ Cardinality(before[s[i]]) = i - 1
        /\ s[j] \in S /\ Cardinality(before[s[j]]) = j - 1
    BY <1>1, <1>2
  <2>2. i \in Int /\ j \in Int
    BY <1>1
  <2>3. s[i] # s[j]
    BY <1>5, <2>1, <2>2
  <2>4. CASE s[j] \in before[s[i]]
    <3>1. j - 1 < i - 1
      BY <2>1, <2>4, RanksDiffer
    <3> QED
      BY <1>5, <2>2, <3>1
  <2> QED
    BY <2>1, <2>3, <2>4 DEF Orders
<1> QED
  BY <1>1, <1>3, <1>4, <1>5

\* The places before each place.
Earlier(places) == [k \in places |-> {j \in places : j < k}]

LEMMA EarlierOrders ==
  ASSUME NEW places, IsFiniteSet(places), places \subseteq Int
  PROVE  Orders(Earlier(places), places)
<1> DEFINE before == Earlier(places)
<1>1. before \in [places -> SUBSET places]
  BY DEF Earlier
<1>0. \A i \in places : i \in Int
  OBVIOUS
<1>2. \A i, j \in places : i \in before[j] <=> i < j
  BY DEF Earlier
<1> HIDE DEF before
<1>3. \A i, j \in places : i # j => i \in before[j] \/ j \in before[i]
  BY <1>0, <1>2
<1>4. ASSUME NEW i \in places, NEW j \in places, i < j
      PROVE  before[i] \subseteq before[j] /\ i \notin before[i]
  <2>1. \A h \in before[i] : h \in places /\ h < i /\ i < j
    BY <1>1, <1>2, <1>4
  <2>2. \A h \in before[i] : h \in before[j]
    <3>1. ASSUME NEW h \in before[i] PROVE h \in places /\ h < j
      <4>1. h \in places /\ h < i /\ i < j
        BY <2>1
      <4>2. h \in Int /\ i \in Int /\ j \in Int
        BY <1>0, <4>1
      <4> QED
        BY <4>1, <4>2
    <3> QED
      BY <1>2, <3>1
  <2>3. i \notin before[i]
    <3>1. i \in before[i] <=> i < i
      BY <1>2
    <3>2. i \in Int
      BY <1>0
    <3>3. ~(i < i)
      BY <3>2
    <3> QED
      BY <3>1, <3>3
  <2> QED
    BY <2>2, <2>3
<1>5. Orders(before, places)
  BY <1>1, <1>2, <1>3, <1>4 DEF Orders
<1> QED
  BY <1>5 DEF before

\* at leads from the places of what is picked to the places picked, in order.
Leads(at, s, places) ==
    /\ at \in Seq(places) /\ DOMAIN at = 1..Cardinality(places) /\ Cardinality(places) \in Nat
    /\ DOMAIN Picked(s, places) = DOMAIN at
    /\ \A k \in DOMAIN at : Picked(s, places)[k] = s[at[k]]
    /\ \A p \in places : \E k \in DOMAIN at : at[k] = p
    /\ \A j, k \in DOMAIN at : j < k => at[j] < at[k]

LEMMA PickedInOrder ==
  ASSUME NEW s, NEW places, IsFiniteSet(places), places \subseteq Int
  PROVE  \E at : Leads(at, s, places)
<1> DEFINE before == Earlier(places)
           at == InOrder(places, before)
<1>1. IsFiniteSet(places) /\ Cardinality(places) \in Nat
  BY FS_CardinalityType
<1>2. Orders(before, places)
  BY EarlierOrders
<1>3. \A j, k \in places : j \in before[k] => j < k
  BY DEF Earlier
<1>4. /\ DOMAIN Picked(s, places) = DOMAIN at
      /\ \A k \in DOMAIN at : Picked(s, places)[k] = s[at[k]]
  <2>1. Picked(s, places) = [k \in DOMAIN at |-> s[at[k]]]
    BY DEF Picked, Ascending, Earlier
  <2> HIDE DEF at
  <2> QED
    BY <2>1
<1> HIDE DEF before
<1>5. /\ at \in Seq(places) /\ DOMAIN at = 1..Cardinality(places)
      /\ \A p \in places : \E k \in DOMAIN at : at[k] = p
      /\ \A i, j \in DOMAIN at : i < j => at[i] # at[j] /\ at[i] \in before[at[j]]
  BY <1>1, <1>2, InOrderSorts
<1> HIDE DEF at
<1>6. \A k \in DOMAIN at : at[k] \in places
  BY <1>5, ElementOfSeq, LenProperties
<1>7. \A j, k \in DOMAIN at : j < k => at[j] < at[k]
  BY <1>3, <1>5, <1>6
<1> QED
  BY <1>1, <1>4, <1>5, <1>7 DEF Leads

\* What is picked is what stands there.
LEMMA PickedElements ==
  ASSUME NEW s, NEW places, IsFiniteSet(places), places \subseteq Int
  PROVE  ToSet(Picked(s, places)) = {s[k] : k \in places}
<1>1. PICK at : Leads(at, s, places)
  BY PickedInOrder
<1>2. \A k \in DOMAIN at : at[k] \in places
  BY <1>1, ElementOfSeq, LenProperties DEF Leads
<1>3. ToSet(Picked(s, places)) = {s[at[k]] : k \in DOMAIN at}
  BY <1>1 DEF ToSet, Leads
<1>4. \A p \in places : \E k \in DOMAIN at : s[at[k]] = s[p]
  BY <1>1 DEF Leads
<1> QED
  BY <1>2, <1>3, <1>4

-----------------------------------------------------------------------------
(* Scores *)

Fraction == Nat \X (Nat \ {0})

\* Of products with one and the same factor.
LEMMA TimesKeeps ==
  ASSUME NEW a \in Int, NEW b \in Int, NEW d \in Nat \ {0}
  PROVE  /\ a < b <=> a * d < b * d
         /\ a <= b <=> a * d <= b * d
  OBVIOUS

LEMMA TimesType == ASSUME NEW a \in Nat, NEW b \in Nat PROVE a * b \in Nat
  OBVIOUS

LEMMA TimesCommutes ==
  ASSUME NEW a \in Nat, NEW b \in Nat, NEW c \in Nat
  PROVE  (a * b) * c = (a * c) * b /\ (a * b) * c = (c * b) * a
  OBVIOUS

\* x exceeds y, which is not exceeded by z.
LEMMA GreaterThanLess ==
  ASSUME NEW x \in Fraction, NEW y \in Fraction, NEW z \in Fraction,
         Greater(x, y), ~Greater(z, y)
  PROVE  Greater(x, z)
<1> DEFINE a == x[1]  b == x[2]  c == y[1]  d == y[2]  e == z[1]  f == z[2]
<1>1. /\ a \in Nat /\ c \in Nat /\ e \in Nat
      /\ b \in Nat \ {0} /\ d \in Nat \ {0} /\ f \in Nat \ {0}
      /\ c * b < a * d /\ ~(c * f < e * d)
  BY DEF Fraction, Greater
<1> SUFFICES e * b < a * f
  BY <1>1 DEF Greater
<1> HIDE DEF a, b, c, d, e, f
<1>2. /\ a * d \in Nat /\ c * b \in Nat /\ e * d \in Nat /\ c * f \in Nat
      /\ a * f \in Nat /\ e * b \in Nat
  BY <1>1, TimesType
<1>3. (c * b) * f < (a * d) * f
  BY <1>1, <1>2, TimesKeeps
<1>4. (e * d) * b <= (c * f) * b
  <2>1. e * d <= c * f
    BY <1>1, <1>2
  <2> QED
    BY <1>1, <1>2, <2>1, TimesKeeps
<1>5. /\ (c * b) * f = (c * f) * b /\ (a * d) * f = (a * f) * d /\ (e * d) * b = (e * b) * d
  BY <1>1, TimesCommutes
<1>6. /\ (a * f) * d \in Nat /\ (e * b) * d \in Nat /\ (c * f) * b \in Nat
  BY <1>1, <1>2, TimesType
<1>7. (e * b) * d < (a * f) * d
  <2> DEFINE u == (e * b) * d  v == (c * f) * b  w == (a * f) * d
  <2>1. u <= v /\ v < w
    BY <1>3, <1>4, <1>5
  <2> HIDE DEF u, v, w
  <2>2. u \in Nat /\ v \in Nat /\ w \in Nat
    BY <1>6 DEF u, v, w
  <2>3. u < w
    BY <2>1, <2>2
  <2> QED
    BY <2>3 DEF u, w
<1> QED
  BY <1>1, <1>2, <1>7, TimesKeeps

\* Scores compare as the numbers they stand for.
LEMMA GreaterOrders ==
  ASSUME NEW x \in Fraction, NEW y \in Fraction, NEW z \in Fraction
  PROVE  /\ Greater(x, y) => ~Greater(y, x)
         /\ Greater(x, y) /\ ~Greater(z, y) => Greater(x, z)
         /\ ~Greater(y, x) /\ Greater(y, z) => Greater(x, z)
         /\ ~Greater(y, x) /\ ~Greater(z, y) => ~Greater(z, x)
<1>1. Greater(x, y) => ~Greater(y, x)
  <2>1. x[1] * y[2] \in Nat /\ y[1] * x[2] \in Nat
    BY TimesType DEF Fraction
  <2> QED
    BY <2>1 DEF Greater
<1> QED
  BY <1>1, GreaterThanLess

LEMMA ShareFraction ==
  ASSUME NEW S, NEW arm \in Seq(S), NEW id
  PROVE  Share(arm, id) \in Fraction
<1>1. CASE \E r \in DOMAIN arm : arm[r] = id
  <2> DEFINE r == CHOOSE r \in DOMAIN arm : arm[r] = id
  <2>1. r \in Nat
    BY <1>1, LenProperties
  <2>2. Share(arm, id) = <<1, RRFConstant + r>>
    BY <1>1 DEF Share
  <2> HIDE DEF r
  <2> QED
    BY <2>1, <2>2 DEF Fraction, RRFConstant
<1>2. CASE ~ \E r \in DOMAIN arm : arm[r] = id
  BY <1>2 DEF Share, Fraction
<1> QED
  BY <1>1, <1>2

LEMMA SumFraction ==
  ASSUME NEW x \in Fraction, NEW y \in Fraction
  PROVE  Sum(x, y) \in Fraction
<1>1. /\ x[1] \in Nat /\ y[1] \in Nat /\ x[2] \in Nat \ {0} /\ y[2] \in Nat \ {0}
  BY DEF Fraction
<1>2. x[1] * y[2] \in Nat /\ y[1] * x[2] \in Nat /\ x[2] * y[2] \in Nat \ {0}
  BY <1>1, TimesType
<1> QED
  BY <1>2 DEF Sum, Fraction

LEMMA ScoreFraction ==
  ASSUME NEW arms, \A a \in Arms : arms[a] \in Seq(Int), NEW id
  PROVE  Score(arms, id) \in Fraction
<1>1. arms["dense"] \in Seq(Int) /\ arms["lexical"] \in Seq(Int)
  BY DEF Arms
<1> QED
  BY <1>1, ShareFraction, SumFraction DEF Score

\* Claims are ordered by score and identifier, no two of them alike.
LEMMA BeforeOrders ==
  ASSUME NEW arms, \A a \in Arms : arms[a] \in Seq(Int), NEW S \in SUBSET Int
  PROVE  Orders([x \in S |-> {y \in S : Before(arms, y, x)}], S)
<1> DEFINE before == [x \in S |-> {y \in S : Before(arms, y, x)}]
           B(x, y) == Before(arms, x, y)
<1>1. \A x \in S : Score(arms, x) \in Fraction
  BY ScoreFraction
<1>2. \A x, y \in S : x # y => B(x, y) \/ B(y, x)
  BY <1>1, GreaterOrders DEF Before
<1>3. \A x \in S : ~B(x, x)
  BY <1>1, GreaterOrders DEF Before
<1>4. ASSUME NEW x \in S, NEW y \in S, NEW z \in S, B(x, y), B(y, z)
      PROVE  B(x, z)
  <2> DEFINE u == Score(arms, x)  v == Score(arms, y)  w == Score(arms, z)
  <2>1. /\ Greater(u, v) \/ (~Greater(v, u) /\ x < y)
        /\ Greater(v, w) \/ (~Greater(w, v) /\ y < z)
    BY <1>4 DEF Before
  <2>2. u \in Fraction /\ v \in Fraction /\ w \in Fraction
    BY <1>1
  <2> HIDE DEF u, v, w
  <2>3. Greater(u, w) \/ (~Greater(w, u) /\ x < z)
    BY <2>1, <2>2, GreaterOrders
  <2> QED
    BY <2>3 DEF Before, u, w
<1>5. /\ before \in [S -> SUBSET S]
      /\ \A x, y \in S : x \in before[y] <=> B(x, y)
  OBVIOUS
<1> HIDE DEF B, before
<1>6. ASSUME NEW x \in S, NEW y \in S, x \in before[y]
      PROVE  before[x] \subseteq before[y] /\ x \notin before[x]
  <2>1. \A z \in before[x] : z \in S /\ z \in before[y]
    BY <1>4, <1>5, <1>6
  <2> QED
    BY <1>3, <1>5, <2>1
<1>7. Orders(before, S)
  BY <1>2, <1>5, <1>6 DEF Orders
<1> QED
  BY <1>7 DEF before

LEMMA ToSetFinite ==
  ASSUME NEW T, NEW s \in Seq(T)
  PROVE  IsFiniteSet(ToSet(s)) /\ ToSet(s) \subseteq T
<1>1. Len(s) \in Nat /\ DOMAIN s = 1..Len(s) /\ \A k \in DOMAIN s : s[k] \in T
  BY LenProperties, ElementOfSeq
<1>2. s = [k \in DOMAIN s |-> s[k]]
  BY SeqDef
<1>3. s \in Surjection(DOMAIN s, ToSet(s))
  BY <1>2 DEF ToSet, Surjection
<1>4. IsFiniteSet(DOMAIN s)
  BY <1>1, FirstNumbers
<1> QED
  BY <1>1, <1>3, <1>4, FS_Surjection DEF ToSet

\* The fused ranking: whatever an arm found, once, best score first.
LEMMA FusedSorted ==
  ASSUME NEW arms, \A a \in Arms : arms[a] \in Seq(Int), NEW fused, fused = FuseRRF(arms)
  PROVE  /\ fused \in Seq(Int)
         /\ ToSet(fused) = ToSet(arms["dense"]) \cup ToSet(arms["lexical"])
         /\ \A i, j \in DOMAIN fused :
               i < j => fused[i] # fused[j] /\ Before(arms, fused[i], fused[j])
<1> DEFINE S == UNION {ToSet(arms[a]) : a \in Arms}
           before == [x \in S |-> {y \in S : Before(arms, y, x)}]
<1>1. S = ToSet(arms["dense"]) \cup ToSet(arms["lexical"])
  BY DEF Arms
<1>2. IsFiniteSet(S) /\ S \in SUBSET Int
  <2>1. arms["dense"] \in Seq(Int) /\ arms["lexical"] \in Seq(Int)
    BY DEF Arms
  <2>2. /\ IsFiniteSet(ToSet(arms["dense"])) /\ IsFiniteSet(ToSet(arms["lexical"]))
        /\ ToSet(arms["dense"]) \subseteq Int /\ ToSet(arms["lexical"]) \subseteq Int
    BY <2>1, ToSetFinite
  <2> HIDE DEF S
  <2>3. IsFiniteSet(S)
    BY <1>1, <2>2, FS_Union
  <2> QED
    BY <1>1, <2>2, <2>3
<1>3. fused = InOrder(S, before)
  BY DEF FuseRRF
<1> HIDE DEF S
<1>4. Orders(before, S)
  BY <1>2, BeforeOrders
<1>5. \A x, y \in S : x \in before[y] => Before(arms, x, y)
  OBVIOUS
<1> HIDE DEF before
<1>6. /\ fused \in Seq(S)
      /\ \A x \in S : \E k \in DOMAIN fused : fused[k] = x
      /\ \A i, j \in DOMAIN fused : i < j => fused[i] # fused[j] /\ fused[i] \in before[fused[j]]
  BY <1>2, <1>3, <1>4, InOrderSorts
<1>7. \A k \in DOMAIN fused : fused[k] \in S
  BY <1>6, LenProperties, ElementOfSeq
<1>8. ToSet(fused) = S
  BY <1>6, <1>7 DEF ToSet
<1>9. fused \in Seq(Int)
  BY <1>2, <1>6, SeqMonotonic
<1> QED
  BY <1>1, <1>5, <1>6, <1>7, <1>8, <1>9

-----------------------------------------------------------------------------
(* Picking one more *)

LEMMA InOrderPlace ==
  ASSUME NEW S, IsFiniteSet(S), NEW before, Orders(before, S), NEW x \in S,
         NEW k, k = Cardinality(before[x]) + 1
  PROVE  k \in 1..Cardinality(S) /\ InOrder(S, before)[k] = x
<1> DEFINE n == Cardinality(S)
<1>1. Cardinality(before[x]) \in 0..(n - 1) /\ n \in Nat
  BY RanksDiffer, FS_CardinalityType
<1>2. k \in 1..n /\ k - 1 = Cardinality(before[x])
  BY <1>1
<1>3. ASSUME NEW y \in S, Cardinality(before[y]) = k - 1
      PROVE  y = x
  <2> SUFFICES ASSUME y # x PROVE FALSE
    OBVIOUS
  <2>1. y \in before[x] \/ x \in before[y]
    BY DEF Orders
  <2>2. \/ Cardinality(before[y]) < Cardinality(before[x])
        \/ Cardinality(before[x]) < Cardinality(before[y])
    BY <2>1, RanksDiffer
  <2> QED
    BY <1>1, <1>2, <1>3, <2>2
<1>4. InOrder(S, before)[k] = CHOOSE y \in S : Cardinality(before[y]) = k - 1
  BY <1>2 DEF InOrder
<1>5. (CHOOSE y \in S : Cardinality(before[y]) = k - 1) = x
  BY <1>2, <1>3
<1> QED
  BY <1>2, <1>4, <1>5

\* One more place, after all others, adds what stands there at the end.
LEMMA PickedMore ==
  ASSUME NEW s, NEW places, IsFiniteSet(places), places \subseteq Int,
         NEW n \in Int, \A p \in places : p < n,
         s[n] \in Int, \A p \in places : s[p] \in Int
  PROVE  /\ Picked(s, places) \in Seq(Int)
         /\ Picked(s, places \cup {n}) = Append(Picked(s, places), s[n])
<1> DEFINE more == places \cup {n}
           b == Earlier(places)
           c == Earlier(more)
           m == Cardinality(places)
           at == InOrder(places, b)
           to == InOrder(more, c)
<1>1. IsFiniteSet(more) /\ Cardinality(more) = m + 1 /\ m \in Nat /\ more \subseteq Int
  BY FS_AddElement, FS_CardinalityType
<1>2. Orders(b, places) /\ Orders(c, more)
  BY <1>1, EarlierOrders
<1>3. \A p \in places : c[p] = b[p]
  BY DEF Earlier
<1>4. c[n] = places
  <2>1. c[n] = {j \in more : j < n}
    BY DEF Earlier
  <2>2. ~(n < n)
    OBVIOUS
  <2> QED
    BY <2>1, <2>2
<1>5. Picked(s, places) = [k \in DOMAIN at |-> s[at[k]]]
  BY DEF Picked, Ascending, Earlier
<1>6. Picked(s, more) = [k \in DOMAIN to |-> s[to[k]]]
  BY DEF Picked, Ascending, Earlier
<1>7. DOMAIN at = 1..m /\ DOMAIN to = 1..(m + 1)
  BY <1>1 DEF InOrder
<1> HIDE DEF b, c
<1>8. at \in Seq(places) /\ Len(at) = m
  BY <1>2, InOrderSorts
<1> HIDE DEF at
<1>9. \A k \in 1..m : at[k] \in places
  BY <1>7, <1>8, LenProperties, ElementOfSeq
<1>10. ASSUME NEW k \in 1..m
       PROVE  to[k] = at[k]
  <2>1. PICK x \in places : x = at[k]
    BY <1>9
  <2>2. k = Cardinality(b[x]) + 1
    <3>1. /\ Cardinality(b[x]) + 1 \in 1..m
          /\ InOrder(places, b)[Cardinality(b[x]) + 1] = x
      BY <1>2, InOrderPlace
    <3>2. \A i, j \in DOMAIN at : i < j => at[i] # at[j]
      BY <1>2, InOrderSorts DEF at
    <3> DEFINE l == Cardinality(b[x]) + 1
    <3>3. l \in 1..m /\ at[l] = at[k]
      BY <2>1, <3>1 DEF at
    <3> HIDE DEF l
    <3>4. l = k
      BY <1>1, <1>7, <3>2, <3>3
    <3> QED
      BY <3>4 DEF l
  <2>3. k = Cardinality(c[x]) + 1 /\ x \in more
    BY <1>3, <2>2
  <2>4. InOrder(more, c)[k] = x
    BY <1>1, <1>2, <2>3, InOrderPlace
  <2> QED
    BY <2>1, <2>4
<1>11. to[m + 1] = n
  <2>1. n \in more /\ m + 1 = Cardinality(c[n]) + 1
    BY <1>4
  <2> QED
    BY <1>1, <1>2, <2>1, InOrderPlace
<1> HIDE DEF to
<1> DEFINE p == Picked(s, places)
           q == Picked(s, more)
<1>12. p \in Seq(Int) /\ Len(p) = m /\ \A k \in 1..m : p[k] = s[at[k]]
  <2>1. p \in [1..m -> Int]
    BY <1>5, <1>7, <1>9
  <2> QED
    BY <1>1, <1>5, <1>7, <2>1, SeqDef, LenProperties
<1>13. q \in Seq(Int) /\ Len(q) = m + 1 /\ \A k \in 1..(m + 1) : q[k] = s[to[k]]
  <2>1. \A k \in 1..(m + 1) : s[to[k]] \in Int
    <3>1. \A k \in 1..(m + 1) : k \in 1..m \/ k = m + 1
      BY <1>1
    <3> QED
      BY <1>9, <1>10, <1>11, <3>1
  <2> DEFINE l == m + 1
  <2>2. q \in [1..l -> Int] /\ \A k \in 1..l : q[k] = s[to[k]]
    BY <1>6, <1>7, <2>1
  <2>3. l \in Nat
    BY <1>1
  <2> HIDE DEF l, q
  <2>4. q \in Seq(Int) /\ Len(q) = l
    BY <2>2, <2>3, SeqDef, LenProperties
  <2> QED
    BY <2>2, <2>4 DEF l
<1> HIDE DEF p, q
<1>14. /\ Append(p, s[n]) \in Seq(Int) /\ Len(Append(p, s[n])) = m + 1
       /\ \A k \in 1..m : Append(p, s[n])[k] = p[k]
       /\ Append(p, s[n])[m + 1] = s[n]
  BY <1>12, AppendProperties
<1>15. \A k \in 1..(m + 1) : q[k] = Append(p, s[n])[k]
  <2>1. \A k \in 1..(m + 1) : k \in 1..m \/ k = m + 1
    BY <1>1
  <2>2. m + 1 \in 1..(m + 1) /\ \A k \in 1..m : k \in 1..(m + 1)
    BY <1>1
  <2> QED
    BY <1>10, <1>11, <1>12, <1>13, <1>14, <2>1, <2>2
<1>16. q = Append(p, s[n])
  BY <1>13, <1>14, <1>15, SeqEqual
<1> QED
  BY <1>12, <1>16 DEF p, q

-----------------------------------------------------------------------------
(* A loop over a slice *)

\* What each turn of a loop makes of what the one before it left.
Turned(g, n, S, base, turn) ==
    g \in [0..n -> S] /\ g[0] = base /\ \A k \in 1..n : g[k] = turn[k][g[k - 1]]

LEMMA TurnsExist ==
  ASSUME NEW n \in Nat, NEW S, NEW base \in S, NEW turn \in [1..n -> [S -> S]]
  PROVE  \E g : Turned(g, n, S, base, turn)
<1> DEFINE Done(m) == \E g \in [0..m -> S] : g[0] = base /\ \A k \in 1..m : g[k] = turn[k][g[k - 1]]
           Bad == {m \in 0..n : ~Done(m)}
<1> SUFFICES ASSUME ~Done(n) PROVE FALSE
  BY DEF Turned
<1>1. Bad \in SUBSET Nat /\ n \in Bad
  OBVIOUS
<1>2. PICK m \in Bad : \A x \in Bad : m <= x
  <2> HIDE DEF Bad
  <2> QED
    BY <1>1, LeastNatural
<1>3. m \in 0..n /\ ~Done(m)
  BY <1>2
<1>4. m # 0
  <2>1. Done(0)
    <3> DEFINE g == [k \in 0..0 |-> base]
    <3>1. g \in [0..0 -> S] /\ g[0] = base /\ \A k \in 1..0 : g[k] = turn[k][g[k - 1]]
      OBVIOUS
    <3> HIDE DEF g
    <3> QED
      BY <3>1
  <2> HIDE DEF Done
  <2> QED
    BY <1>3, <2>1
<1>5. m \in 1..n /\ m - 1 \in 0..n /\ ~(m <= m - 1)
  BY <1>3, <1>4
<1>6. Done(m - 1)
  <2>1. m - 1 \notin Bad
    <3> HIDE DEF Bad
    <3> QED
      BY <1>2, <1>5
  <2> HIDE DEF Done
  <2> QED
    BY <1>5, <2>1
<1>7. PICK g \in [0..(m - 1) -> S] :
          g[0] = base /\ \A k \in 1..(m - 1) : g[k] = turn[k][g[k - 1]]
  BY <1>6
<1> DEFINE h == [k \in 0..m |-> IF k = m THEN turn[m][g[m - 1]] ELSE g[k]]
<1>8. \A k \in 0..m : k # m => k \in 0..(m - 1) /\ h[k] = g[k]
  BY <1>5
<1>9. h[m] = turn[m][g[m - 1]] /\ m - 1 \in 0..(m - 1) /\ 0 \in 0..(m - 1)
  BY <1>5
<1>10. h \in [0..m -> S]
  <2>1. turn[m] \in [S -> S] /\ g[m - 1] \in S
    BY <1>5, <1>9
  <2>2. turn[m][g[m - 1]] \in S
    BY <2>1
  <2>3. \A k \in 0..m : k # m => g[k] \in S
    BY <1>8
  <2> QED
    BY <2>2, <2>3
<1> HIDE DEF h
<1>11. h[0] = base
  BY <1>4, <1>5, <1>7, <1>8
<1>12. ASSUME NEW k \in 1..m
       PROVE  h[k] = turn[k][h[k - 1]]
  <2>1. k - 1 \in 0..m /\ k - 1 # m /\ k \in 0..m
    BY <1>5
  <2>2. h[k - 1] = g[k - 1]
    BY <1>8, <2>1
  <2>3. CASE k = m
    BY <1>9, <2>2, <2>3
  <2>4. CASE k # m
    <3>1. k \in 1..(m - 1)
      BY <1>5, <2>4
    <3>2. h[k] = g[k]
      BY <1>8, <2>1, <2>4
    <3> QED
      BY <1>7, <2>2, <3>1, <3>2
  <2> QED
    BY <2>3, <2>4
<1>13. Done(m)
  BY <1>10, <1>11, <1>12
<1> HIDE DEF Done
<1> QED
  BY <1>3, <1>13

\* What holds before the loop and is kept by every turn holds after it.
LEMMA TurnsKeep ==
  ASSUME NEW n \in Nat, NEW good, 0 \in good, \A k \in 1..n : k - 1 \in good => k \in good
  PROVE  n \in good
<1> SUFFICES ASSUME n \notin good PROVE FALSE
  OBVIOUS
<1> DEFINE Bad == {m \in 0..n : m \notin good}
<1>1. Bad \in SUBSET Nat /\ n \in Bad
  OBVIOUS
<1>2. PICK m \in Bad : \A x \in Bad : m <= x
  <2> HIDE DEF Bad
  <2> QED
    BY <1>1, LeastNatural
<1>3. m \in 1..n /\ m \notin good /\ m - 1 \in 0..n /\ ~(m <= m - 1)
  BY <1>2
<1>4. m - 1 \notin Bad
  <2> HIDE DEF Bad
  <2> QED
    BY <1>2, <1>3
<1> QED
  BY <1>3, <1>4

-----------------------------------------------------------------------------
(* The package *)

Package == [claims : Seq(Int), used : Nat, omitted : Nat]

\* What the assembly is given: a ranking without repetitions, who may be told
\* and what each of these costs.
Assembling(fused, authorized, tokens, limit, budget) ==
    /\ fused \in Seq(Int)
    /\ \A j, k \in DOMAIN fused : j < k => fused[j] # fused[k]
    /\ \E T : authorized \subseteq T /\ tokens \in [T -> Nat]
    /\ limit \in Nat /\ budget \in Nat

\* The first n candidates, which of them are in a package, and which of them
\* might be told and are not.
Seen(fused, n) == {fused[k] : k \in 1..n}
TakenOf(fused, n, pkg) == {k \in 1..n : fused[k] \in ToSet(pkg.claims)}
LeftOf(fused, n, pkg, authorized) == (Seen(fused, n) \cap authorized) \ ToSet(pkg.claims)

Accounted(pkg, n, fused, authorized, tokens, limit, budget) ==
    /\ pkg \in Package
    /\ pkg.used <= budget /\ Len(pkg.claims) <= limit
    /\ ToSet(pkg.claims) \subseteq Seen(fused, n) \cap authorized
    /\ pkg.claims = Picked(fused, TakenOf(fused, n, pkg))
    /\ IsFiniteSet(LeftOf(fused, n, pkg, authorized))
    /\ pkg.omitted = Cardinality(LeftOf(fused, n, pkg, authorized))
    /\ \A id \in LeftOf(fused, n, pkg, authorized) :
           Len(pkg.claims) >= limit \/ pkg.used + tokens[id] > budget

LEMMA PickedNothing == ASSUME NEW s PROVE Picked(s, {}) = <<>>
<1>1. InOrder({}, [k \in {} |-> {j \in {} : j < k}]) = <<>>
  BY FS_EmptySet DEF InOrder
<1> QED
  BY <1>1 DEF Picked, Ascending

LEMMA EmptyAccounted ==
  ASSUME NEW fused, NEW authorized, NEW tokens, NEW limit \in Nat, NEW budget \in Nat
  PROVE  Accounted(Empty, 0, fused, authorized, tokens, limit, budget)
<1>1. Empty \in Package /\ Empty.used = 0 /\ Empty.omitted = 0 /\ Empty.claims = <<>>
  BY EmptySeq DEF Empty, Package
<1>2. Len(<<>>) = 0 /\ ToSet(<<>>) = {}
  BY DEF ToSet
<1>3. TakenOf(fused, 0, Empty) = {} /\ LeftOf(fused, 0, Empty, authorized) = {}
  BY DEF TakenOf, LeftOf, Seen
<1>4. IsFiniteSet({}) /\ Cardinality({}) = 0
  BY FS_EmptySet
<1>5. Len(Empty.claims) = 0 /\ ToSet(Empty.claims) = {} /\ Empty.claims = Picked(fused, {})
  BY <1>1, <1>2, PickedNothing
<1>6. Empty.used <= budget /\ Len(Empty.claims) <= limit
  BY <1>1, <1>5
<1> QED
  BY <1>1, <1>3, <1>4, <1>5, <1>6 DEF Accounted

LEMMA ToSetAppend ==
  ASSUME NEW T, NEW s \in Seq(T), NEW x \in T
  PROVE  ToSet(Append(s, x)) = ToSet(s) \cup {x}
<1> DEFINE t == Append(s, x)
           n == Len(s)
<1>1. /\ t \in Seq(T) /\ Len(t) = n + 1 /\ t[n + 1] = x
      /\ \A k \in 1..n : t[k] = s[k]
  BY AppendProperties
<1>2. n \in Nat /\ DOMAIN s = 1..n /\ DOMAIN t = 1..(n + 1)
  BY <1>1, LenProperties
<1> HIDE DEF t, n
<1>3. \A k \in 1..(n + 1) : k \in 1..n \/ k = n + 1
  BY <1>2
<1>4. (n + 1) \in 1..(n + 1) /\ \A k \in 1..n : k \in 1..(n + 1)
  BY <1>2
<1>5. ToSet(t) = ToSet(s) \cup {x}
  BY <1>1, <1>2, <1>3, <1>4 DEF ToSet
<1> QED
  BY <1>5 DEF t

\* One candidate more.
LEMMA TakeAccounts ==
  ASSUME NEW fused, NEW authorized, NEW tokens, NEW limit, NEW budget,
         Assembling(fused, authorized, tokens, limit, budget),
         NEW n \in 1..Len(fused), NEW pkg,
         Accounted(pkg, n - 1, fused, authorized, tokens, limit, budget)
  PROVE  Accounted(Take(pkg, fused[n], authorized, tokens, limit, budget),
                   n, fused, authorized, tokens, limit, budget)
<1> DEFINE id == fused[n]
           new == Take(pkg, id, authorized, tokens, limit, budget)
           got == ToSet(pkg.claims)
           was == LeftOf(fused, n - 1, pkg, authorized)
           places == TakenOf(fused, n - 1, pkg)
<1>1. /\ fused \in Seq(Int) /\ Len(fused) \in Nat /\ DOMAIN fused = 1..Len(fused)
      /\ n \in Int /\ n - 1 \in Nat /\ id \in Int
      /\ \A j, k \in DOMAIN fused : j < k => fused[j] # fused[k]
      /\ limit \in Nat /\ budget \in Nat
  <2>1. fused \in Seq(Int)
    BY DEF Assembling
  <2>2. Len(fused) \in Nat /\ DOMAIN fused = 1..Len(fused)
    BY <2>1, LenProperties
  <2>3. n \in Int /\ n - 1 \in Nat
    BY <2>2
  <2>4. id \in Int
    BY <2>1, <2>2, ElementOfSeq
  <2> QED
    BY <2>1, <2>2, <2>3, <2>4 DEF Assembling
<1>2. /\ pkg \in Package /\ pkg.claims \in Seq(Int) /\ pkg.used \in Nat /\ pkg.omitted \in Nat
      /\ pkg.used <= budget /\ Len(pkg.claims) <= limit /\ Len(pkg.claims) \in Nat
      /\ got \subseteq Seen(fused, n - 1) \cap authorized
      /\ pkg.claims = Picked(fused, places)
      /\ IsFiniteSet(was) /\ pkg.omitted = Cardinality(was)
      /\ \A x \in was : Len(pkg.claims) >= limit \/ pkg.used + tokens[x] > budget
  BY LenProperties DEF Accounted, Package
<1>3. Seen(fused, n) = Seen(fused, n - 1) \cup {id} /\ id \notin Seen(fused, n - 1)
  <2>1. \A k \in 1..n : k \in 1..(n - 1) \/ k = n
    BY <1>1
  <2>2. n \in 1..n /\ \A k \in 1..(n - 1) : k \in 1..n /\ k < n /\ k \in DOMAIN fused
    BY <1>1
  <2>3. \A k \in 1..(n - 1) : fused[k] # id
    BY <1>1, <2>2
  <2> QED
    BY <2>1, <2>2, <2>3 DEF Seen
<1>4. id \notin got /\ id \notin was
  BY <1>2, <1>3 DEF LeftOf
<1>5. /\ \A k \in 1..n : k \in 1..(n - 1) \/ k = n
      /\ \A k \in 1..(n - 1) : k \in 1..n
  BY <1>1
<1>6. /\ IsFiniteSet(places) /\ places \subseteq Int
      /\ \A p \in places : p < n /\ fused[p] \in Int
  <2>1. places \subseteq 1..(n - 1)
    BY DEF TakenOf
  <2>2. IsFiniteSet(1..(n - 1)) /\ \A p \in 1..(n - 1) : p \in Int /\ p < n /\ p \in DOMAIN fused
    <3>1. n - 1 \in Nat
      BY <1>1
    <3>2. IsFiniteSet(1..(n - 1))
      BY <3>1, FirstNumbers
    <3> QED
      BY <1>1, <3>2
  <2>3. \A p \in DOMAIN fused : fused[p] \in Int
    BY <1>1, ElementOfSeq
  <2>4. IsFiniteSet(places)
    BY <2>1, <2>2, FS_Subset
  <2> QED
    BY <2>1, <2>2, <2>3, <2>4
<1>7. CASE id \notin authorized
  <2>1. new = pkg
    BY <1>7 DEF Take
  <2>2. LeftOf(fused, n, pkg, authorized) = was
    BY <1>3, <1>7 DEF LeftOf
  <2>3. TakenOf(fused, n, pkg) = places
    BY <1>4, <1>5 DEF TakenOf
  <2>4. got \subseteq Seen(fused, n) \cap authorized
    BY <1>2, <1>3
  <2> HIDE DEF new, was, places
  <2> QED
    BY <1>2, <2>1, <2>2, <2>3, <2>4 DEF Accounted, new
<1>8. CASE id \in authorized /\ (Len(pkg.claims) >= limit \/ pkg.used + tokens[id] > budget)
  <2>1. new = [pkg EXCEPT !.omitted = @ + 1]
    BY <1>8 DEF Take
  <2>2. /\ new \in Package /\ new.claims = pkg.claims /\ new.used = pkg.used
        /\ new.omitted = pkg.omitted + 1
    BY <1>2, <2>1 DEF Package
  <2>3. LeftOf(fused, n, new, authorized) = was \cup {id}
    BY <1>3, <1>4, <1>8, <2>2 DEF LeftOf
  <2>4. TakenOf(fused, n, new) = places
    BY <1>4, <1>5, <2>2 DEF TakenOf
  <2>5. got \subseteq Seen(fused, n) \cap authorized
    BY <1>2, <1>3
  <2> HIDE DEF was, places, new
  <2>6. IsFiniteSet(was \cup {id}) /\ Cardinality(was \cup {id}) = Cardinality(was) + 1
    BY <1>2, <1>4, FS_AddElement
  <2>7. \A x \in was \cup {id} : Len(pkg.claims) >= limit \/ pkg.used + tokens[x] > budget
    BY <1>2, <1>8
  <2>8. Accounted(new, n, fused, authorized, tokens, limit, budget)
    BY <1>2, <2>2, <2>3, <2>4, <2>5, <2>6, <2>7 DEF Accounted
  <2> QED
    BY <2>8 DEF new
<1>9. CASE id \in authorized /\ ~(Len(pkg.claims) >= limit \/ pkg.used + tokens[id] > budget)
  <2>1. new = [claims |-> Append(pkg.claims, id), used |-> pkg.used + tokens[id],
               omitted |-> pkg.omitted]
    BY <1>9 DEF Take
  <2>2. tokens[id] \in Nat /\ \A x \in authorized : tokens[x] \in Nat
    BY <1>9 DEF Assembling
  <2>3. /\ new.claims = Append(pkg.claims, id) /\ new.used = pkg.used + tokens[id]
        /\ new.omitted = pkg.omitted
    BY <2>1
  <2>4. /\ Append(pkg.claims, id) \in Seq(Int)
        /\ Len(Append(pkg.claims, id)) = Len(pkg.claims) + 1
    BY <1>1, <1>2, AppendProperties
  <2>5. ToSet(new.claims) = got \cup {id}
    BY <1>1, <1>2, <2>3, ToSetAppend
  <2>6. new \in Package
    BY <1>2, <2>1, <2>2, <2>4 DEF Package
  <2>7. new.used <= budget /\ Len(new.claims) <= limit
    BY <1>1, <1>2, <1>9, <2>2, <2>3, <2>4
  <2>8. LeftOf(fused, n, new, authorized) = was
    BY <1>3, <1>4, <2>5 DEF LeftOf
  <2>9. TakenOf(fused, n, new) = places \cup {n}
    <3>1. \A k \in 1..(n - 1) : fused[k] # id
      BY <1>3 DEF Seen
    <3>2. n \in 1..n
      BY <1>1
    <3> QED
      BY <1>5, <2>5, <3>1, <3>2 DEF TakenOf
  <2>10. new.claims = Picked(fused, places \cup {n})
    <3> HIDE DEF places, new
    <3>1. Picked(fused, places \cup {n}) = Append(Picked(fused, places), fused[n])
      BY <1>1, <1>6, PickedMore
    <3> QED
      BY <1>2, <2>3, <3>1
  <2>11. ToSet(new.claims) \subseteq Seen(fused, n) \cap authorized
    BY <1>2, <1>3, <1>9, <2>5
  <2>12. \A x \in was : Len(new.claims) >= limit \/ new.used + tokens[x] > budget
    <3>1. \A x \in was : tokens[x] \in Nat
      BY <2>2 DEF LeftOf
    <3> HIDE DEF new, was
    <3>2. ASSUME NEW x \in was, pkg.used + tokens[x] > budget
          PROVE  new.used + tokens[x] > budget
      <4>1. tokens[x] \in Nat
        BY <3>1
      <4> QED
        BY <1>1, <1>2, <2>2, <2>3, <3>2, <4>1
    <3>3. Len(pkg.claims) >= limit => Len(new.claims) >= limit
      BY <1>1, <1>2, <2>3, <2>4
    <3> QED
      BY <1>2, <3>2, <3>3
  <2> HIDE DEF new, was, places
  <2>13. Accounted(new, n, fused, authorized, tokens, limit, budget)
    BY <1>2, <2>3, <2>6, <2>7, <2>8, <2>9, <2>10, <2>11, <2>12 DEF Accounted
  <2> QED
    BY <2>13 DEF new
<1> QED
  BY <1>7, <1>8, <1>9

LEMMA TakePackage ==
  ASSUME NEW T, NEW tokens \in [T -> Nat], NEW authorized \in SUBSET T,
         NEW id \in Int, NEW limit, NEW budget, NEW pkg \in Package
  PROVE  Take(pkg, id, authorized, tokens, limit, budget) \in Package
<1>1. pkg.claims \in Seq(Int) /\ pkg.used \in Nat /\ pkg.omitted \in Nat
  BY DEF Package
<1>2. Append(pkg.claims, id) \in Seq(Int)
  BY <1>1, AppendProperties
<1>3. CASE id \notin authorized
  BY <1>3 DEF Take
<1>4. CASE id \in authorized
  <2>1. tokens[id] \in Nat
    BY <1>4
  <2>2. /\ [pkg EXCEPT !.omitted = @ + 1] \in Package
        /\ [claims |-> Append(pkg.claims, id), used |-> pkg.used + tokens[id],
            omitted |-> pkg.omitted] \in Package
    BY <1>1, <1>2, <2>1 DEF Package
  <2> QED
    BY <1>4, <2>2 DEF Take
<1> QED
  BY <1>3, <1>4

Stages(after, fused, authorized, tokens, limit, budget) ==
    after = [n \in 0..Len(fused) |->
                IF n = 0 THEN Empty
                ELSE Take(after[n - 1], fused[n], authorized, tokens, limit, budget)]

LEMMA StagesExist ==
  ASSUME NEW fused, NEW authorized, NEW tokens, NEW limit, NEW budget,
         Assembling(fused, authorized, tokens, limit, budget)
  PROVE  \E after : Stages(after, fused, authorized, tokens, limit, budget)
<1> DEFINE N == Len(fused)
           T(p, k) == Take(p, fused[k], authorized, tokens, limit, budget)
           turn == [k \in 1..N |-> [p \in Package |-> T(p, k)]]
<1>1. /\ fused \in Seq(Int) /\ N \in Nat /\ \A k \in 1..N : fused[k] \in Int
  <2>1. fused \in Seq(Int)
    BY DEF Assembling
  <2> QED
    BY <2>1, LenProperties, ElementOfSeq
<1>2. PICK D : authorized \subseteq D /\ tokens \in [D -> Nat]
  BY DEF Assembling
<1>3. \A p \in Package, k \in 1..N : T(p, k) \in Package
  BY <1>1, <1>2, TakePackage
<1> HIDE DEF N, T
<1>4. turn \in [1..N -> [Package -> Package]]
  BY <1>3
<1>5. \A k \in 1..N : \A p \in Package : turn[k][p] = T(p, k)
  OBVIOUS
<1>6. Empty \in Package
  BY EmptySeq DEF Empty, Package
<1> HIDE DEF turn
<1>7. PICK g : Turned(g, N, Package, Empty, turn)
  BY <1>1, <1>4, <1>6, TurnsExist
<1>8. \A k \in 0..N : g[k] = IF k = 0 THEN Empty ELSE T(g[k - 1], k)
  <2>1. ASSUME NEW k \in 1..N
        PROVE  g[k] = T(g[k - 1], k)
    <3>1. k - 1 \in 0..N
      BY <1>1
    <3> QED
      BY <1>5, <1>7, <3>1 DEF Turned
  <2>2. \A k \in 0..N : k # 0 => k \in 1..N
    BY <1>1
  <2> QED
    BY <1>7, <2>1, <2>2 DEF Turned
<1>9. g = [k \in 0..N |-> IF k = 0 THEN Empty ELSE T(g[k - 1], k)]
  BY <1>7, <1>8 DEF Turned
<1>10. Stages(g, fused, authorized, tokens, limit, budget)
  BY <1>9 DEF Stages, N, T
<1> QED
  BY <1>10

\* The package accounts for every candidate.
LEMMA AssembleAccounts ==
  ASSUME NEW fused, NEW authorized, NEW tokens, NEW limit, NEW budget,
         Assembling(fused, authorized, tokens, limit, budget)
  PROVE  Accounted(Assemble(fused, authorized, tokens, limit, budget), Len(fused),
                   fused, authorized, tokens, limit, budget)
<1> DEFINE N == Len(fused)
           after == CHOOSE g : Stages(g, fused, authorized, tokens, limit, budget)
           A(n) == Accounted(after[n], n, fused, authorized, tokens, limit, budget)
           good == {n \in 0..N : A(n)}
<1>1. Assemble(fused, authorized, tokens, limit, budget) = after[N]
  BY DEF Assemble, Stages
<1>2. Stages(after, fused, authorized, tokens, limit, budget)
  BY StagesExist
<1>3. N \in Nat /\ limit \in Nat /\ budget \in Nat
  BY LenProperties DEF Assembling
<1> HIDE DEF after
<1>4. A(0)
  <2>1. after[0] = Empty
    BY <1>2, <1>3 DEF Stages
  <2> QED
    BY <1>3, <2>1, EmptyAccounted
<1>5. ASSUME NEW k \in 1..N, A(k - 1)
      PROVE  A(k)
  <2>1. k \in 0..N /\ k # 0
    BY <1>3
  <2>2. after[k] = Take(after[k - 1], fused[k], authorized, tokens, limit, budget)
    BY <1>2, <2>1 DEF Stages
  <2> QED
    BY <1>5, <2>2, TakeAccounts
<1>6. 0 \in good /\ \A k \in 1..N : k - 1 \in good => k \in good
  <2> HIDE DEF A
  <2>1. 0 \in 0..N /\ \A k \in 1..N : k \in 0..N
    BY <1>3
  <2> QED
    BY <1>4, <1>5, <2>1
<1>7. N \in good
  <2> HIDE DEF good
  <2> QED
    BY <1>3, <1>6, TurnsKeep
<1> QED
  BY <1>1, <1>7

-----------------------------------------------------------------------------
(* Who precedes whom *)

\* Sums of two shares, with denominators p and q, against one share.
LEMMA TwoExceedOne ==
  ASSUME NEW p \in 61..121, NEW q \in 61..121, NEW r \in Nat, r >= 61
  PROVE  (q + p) * r > p * q
<1>1. (q + p) * r >= (q + p) * 61
  OBVIOUS
<1>2. p * q <= 121 * q /\ p * q <= p * 121
  OBVIOUS
<1> DEFINE m == p * q
           n == (q + p) * r
<1>3. m \in Nat /\ n \in Nat
  BY TimesType
<1>4. n >= 61 * q + 61 * p /\ m <= 121 * q /\ m <= 121 * p
  BY <1>1, <1>2
<1> HIDE DEF m, n
<1>5. n > m
  BY <1>3, <1>4
<1> QED
  BY <1>5 DEF m, n

\* Both denominators smaller, the sum is greater.
LEMMA SmallerExceed ==
  ASSUME NEW p \in Nat \ {0}, NEW q \in Nat \ {0}, NEW s \in Nat, NEW t \in Nat, p < s, q < t
  PROVE  (q + p) * (s * t) > (t + s) * (p * q)
<1>1. /\ p * q \in Nat \ {0} /\ s * t \in Nat \ {0}
      /\ p * s \in Nat \ {0} /\ q * t \in Nat \ {0}
  BY TimesType
<1>2. (p * s) * q < (p * s) * t
  <2>1. q * (p * s) < t * (p * s)
    BY <1>1, TimesKeeps
  <2> QED
    BY <1>1, <2>1
<1>3. (q * t) * p < (q * t) * s
  <2>1. p * (q * t) < s * (q * t)
    BY <1>1, TimesKeeps
  <2> QED
    BY <1>1, <2>1
<1>4. (q + p) * (s * t) = (q * t) * s + (p * s) * t
  OBVIOUS
<1>5. (t + s) * (p * q) = (q * t) * p + (p * s) * q
  OBVIOUS
<1>6. /\ (p * s) * q \in Nat /\ (p * s) * t \in Nat /\ (q * t) * p \in Nat /\ (q * t) * s \in Nat
  BY <1>1, TimesType
<1> QED
  BY <1>2, <1>3, <1>4, <1>5, <1>6

PlaceIn(arm, id) == CHOOSE r \in DOMAIN arm : arm[r] = id

LEMMA ShareIs ==
  ASSUME NEW arm \in Seq(Int), NEW id
  PROVE  /\ (\E r \in DOMAIN arm : arm[r] = id) =>
                /\ PlaceIn(arm, id) \in 1..Len(arm) /\ Len(arm) \in Nat
                /\ Share(arm, id) = <<1, 60 + PlaceIn(arm, id)>>
         /\ ~(\E r \in DOMAIN arm : arm[r] = id) => Share(arm, id) = <<0, 1>>
<1>1. DOMAIN arm = 1..Len(arm) /\ Len(arm) \in Nat
  BY LenProperties
<1> QED
  BY <1>1 DEF Share, PlaceIn, RRFConstant

DenseAt(arms, id) == PlaceIn(arms["dense"], id)
LexicalAt(arms, id) == PlaceIn(arms["lexical"], id)

LEMMA SumIs ==
  ASSUME NEW s \in Nat, NEW t \in Nat
  PROVE  /\ Sum(<<1, s>>, <<0, 1>>) = <<1, s>>
         /\ Sum(<<0, 1>>, <<1, t>>) = <<1, t>>
         /\ Sum(<<1, s>>, <<1, t>>) = <<t + s, s * t>>
  BY DEF Sum

\* The scores of a claim by the arms that found it.
LEMMA DenseScore ==
  ASSUME NEW arms, \A a \in Arms : arms[a] \in Seq(Int), NEW id, FoundBy(arms, id) = {"dense"}
  PROVE  /\ DenseAt(arms, id) \in 1..Len(arms["dense"]) /\ Len(arms["dense"]) \in Nat
         /\ Score(arms, id) = <<1, 60 + DenseAt(arms, id)>>
<1> DEFINE d == arms["dense"]  l == arms["lexical"]
<1>1. d \in Seq(Int) /\ l \in Seq(Int)
  BY DEF Arms
<1>2. (\E r \in DOMAIN d : d[r] = id) /\ ~ \E r \in DOMAIN l : l[r] = id
  BY DEF FoundBy, Arms
<1>3. Score(arms, id) = Sum(Share(d, id), Share(l, id))
  BY DEF Score
<1>4. DenseAt(arms, id) = PlaceIn(d, id)
  BY DEF DenseAt
<1> HIDE DEF d, l
<1>5. /\ PlaceIn(d, id) \in 1..Len(d) /\ Len(d) \in Nat
      /\ Share(d, id) = <<1, 60 + PlaceIn(d, id)>>
      /\ Share(l, id) = <<0, 1>>
  BY <1>1, <1>2, ShareIs
<1>6. 60 + PlaceIn(d, id) \in Nat
  BY <1>5
<1>7. Score(arms, id) = <<1, 60 + PlaceIn(d, id)>>
  BY <1>3, <1>5, <1>6, SumIs
<1> QED
  BY <1>4, <1>5, <1>7 DEF d

LEMMA LexicalScore ==
  ASSUME NEW arms, \A a \in Arms : arms[a] \in Seq(Int), NEW id, FoundBy(arms, id) = {"lexical"}
  PROVE  /\ LexicalAt(arms, id) \in 1..Len(arms["lexical"]) /\ Len(arms["lexical"]) \in Nat
         /\ Score(arms, id) = <<1, 60 + LexicalAt(arms, id)>>
<1> DEFINE d == arms["dense"]  l == arms["lexical"]
<1>1. d \in Seq(Int) /\ l \in Seq(Int)
  BY DEF Arms
<1>2. (\E r \in DOMAIN l : l[r] = id) /\ ~ \E r \in DOMAIN d : d[r] = id
  BY DEF FoundBy, Arms
<1>3. Score(arms, id) = Sum(Share(d, id), Share(l, id))
  BY DEF Score
<1>4. LexicalAt(arms, id) = PlaceIn(l, id)
  BY DEF LexicalAt
<1> HIDE DEF d, l
<1>5. /\ PlaceIn(l, id) \in 1..Len(l) /\ Len(l) \in Nat
      /\ Share(l, id) = <<1, 60 + PlaceIn(l, id)>>
      /\ Share(d, id) = <<0, 1>>
  BY <1>1, <1>2, ShareIs
<1>6. 60 + PlaceIn(l, id) \in Nat
  BY <1>5
<1>7. Score(arms, id) = <<1, 60 + PlaceIn(l, id)>>
  BY <1>3, <1>5, <1>6, SumIs
<1> QED
  BY <1>4, <1>5, <1>7 DEF l

LEMMA BothScore ==
  ASSUME NEW arms, \A a \in Arms : arms[a] \in Seq(Int), NEW id, FoundBy(arms, id) = Arms,
         NEW p, p = 60 + DenseAt(arms, id), NEW q, q = 60 + LexicalAt(arms, id)
  PROVE  /\ DenseAt(arms, id) \in 1..Len(arms["dense"]) /\ Len(arms["dense"]) \in Nat
         /\ LexicalAt(arms, id) \in 1..Len(arms["lexical"]) /\ Len(arms["lexical"]) \in Nat
         /\ Score(arms, id) = <<q + p, p * q>>
<1> DEFINE d == arms["dense"]  l == arms["lexical"]
<1>1. d \in Seq(Int) /\ l \in Seq(Int)
  BY DEF Arms
<1>2. (\E r \in DOMAIN l : l[r] = id) /\ \E r \in DOMAIN d : d[r] = id
  BY DEF FoundBy, Arms
<1>3. Score(arms, id) = Sum(Share(d, id), Share(l, id))
  BY DEF Score
<1>4. DenseAt(arms, id) = PlaceIn(d, id) /\ LexicalAt(arms, id) = PlaceIn(l, id)
  BY DEF DenseAt, LexicalAt
<1> HIDE DEF d, l
<1>5. /\ PlaceIn(d, id) \in 1..Len(d) /\ Len(d) \in Nat /\ Share(d, id) = <<1, p>>
      /\ PlaceIn(l, id) \in 1..Len(l) /\ Len(l) \in Nat /\ Share(l, id) = <<1, q>>
  BY <1>1, <1>2, <1>4, ShareIs
<1>6. p \in Nat /\ q \in Nat
  BY <1>4, <1>5
<1>7. Score(arms, id) = <<q + p, p * q>>
  <2>1. Score(arms, id) = Sum(<<1, p>>, <<1, q>>)
    BY <1>3, <1>5
  <2>2. Sum(<<1, p>>, <<1, q>>) = <<q + p, p * q>>
    BY <1>6, SumIs
  <2> QED
    BY <2>1, <2>2
<1> QED
  BY <1>4, <1>5, <1>7 DEF d, l

\* What both arms found beats what one found, down to the depth at which two low
\* ranks weigh no more than the first.
LEMMA AgreedExceeds ==
  ASSUME NEW arms, \A a \in Arms : arms[a] \in Seq(Int) /\ Len(arms[a]) <= 61,
         NEW x, NEW y, FoundBy(arms, y) = Arms,
         FoundBy(arms, x) # Arms, FoundBy(arms, x) # {}
  PROVE  Greater(Score(arms, y), Score(arms, x))
<1> DEFINE p == 60 + DenseAt(arms, y)
           q == 60 + LexicalAt(arms, y)
<1>0. \A a \in Arms : arms[a] \in Seq(Int)
  OBVIOUS
<1>1. Len(arms["dense"]) <= 61 /\ Len(arms["lexical"]) <= 61
  BY DEF Arms
<1>2. /\ DenseAt(arms, y) \in 1..Len(arms["dense"]) /\ Len(arms["dense"]) \in Nat
      /\ LexicalAt(arms, y) \in 1..Len(arms["lexical"]) /\ Len(arms["lexical"]) \in Nat
      /\ Score(arms, y) = <<q + p, p * q>>
  BY <1>0, BothScore
<1>3. p \in 61..121 /\ q \in 61..121
  <2> DEFINE d == DenseAt(arms, y)  l == LexicalAt(arms, y)
  <2>1. /\ d \in 1..Len(arms["dense"]) /\ Len(arms["dense"]) \in Nat
        /\ l \in 1..Len(arms["lexical"]) /\ Len(arms["lexical"]) \in Nat
    BY <1>2
  <2> HIDE DEF d, l
  <2>2. 60 + d \in 61..121 /\ 60 + l \in 61..121
    BY <1>1, <2>1
  <2> QED
    BY <2>2 DEF d, l
<1> HIDE DEF p, q
<1>4. \E r \in Nat : r >= 61 /\ Score(arms, x) = <<1, r>>
  <2>1. FoundBy(arms, x) = {"dense"} \/ FoundBy(arms, x) = {"lexical"}
    BY DEF FoundBy, Arms
  <2>2. CASE FoundBy(arms, x) = {"dense"}
    <3> DEFINE s == DenseAt(arms, x)
    <3>1. s \in 1..Len(arms["dense"]) /\ Score(arms, x) = <<1, 60 + s>>
      BY <1>0, <2>2, DenseScore
    <3> HIDE DEF s
    <3>2. 60 + s \in Nat /\ 60 + s >= 61
      BY <1>2, <3>1
    <3> QED
      BY <3>1, <3>2
  <2>3. CASE FoundBy(arms, x) = {"lexical"}
    <3> DEFINE s == LexicalAt(arms, x)
    <3>1. s \in 1..Len(arms["lexical"]) /\ Score(arms, x) = <<1, 60 + s>>
      BY <1>0, <2>3, LexicalScore
    <3> HIDE DEF s
    <3>2. 60 + s \in Nat /\ 60 + s >= 61
      BY <1>2, <3>1
    <3> QED
      BY <3>1, <3>2
  <2> QED
    BY <2>1, <2>2, <2>3
<1>5. PICK r \in Nat : r >= 61 /\ Score(arms, x) = <<1, r>>
  BY <1>4
<1>6. (q + p) * r > p * q
  BY <1>3, <1>5, TwoExceedOne
<1>7. 1 * (p * q) = p * q
  BY <1>3, TimesType
<1> QED
  BY <1>2, <1>5, <1>6, <1>7 DEF Greater

\* Found by the same arms and ranked better by each.
LEMMA BetterExceeds ==
  ASSUME NEW arms, \A a \in Arms : arms[a] \in Seq(Int),
         NEW x, NEW y, FoundBy(arms, x) = FoundBy(arms, y), FoundBy(arms, x) # {},
         \A a \in FoundBy(arms, x) : PlaceIn(arms[a], y) < PlaceIn(arms[a], x)
  PROVE  Greater(Score(arms, y), Score(arms, x))
<1> DEFINE p == DenseAt(arms, y)    s == DenseAt(arms, x)
           q == LexicalAt(arms, y)  t == LexicalAt(arms, x)
<1>1. /\ "dense" \in FoundBy(arms, x) => p < s
      /\ "lexical" \in FoundBy(arms, x) => q < t
  BY DEF DenseAt, LexicalAt
<1>2. \/ FoundBy(arms, x) = {"dense"}
      \/ FoundBy(arms, x) = {"lexical"}
      \/ FoundBy(arms, x) = Arms
  BY DEF FoundBy, Arms
<1>3. CASE FoundBy(arms, x) = {"dense"}
  <2>1. p \in 1..Len(arms["dense"]) /\ Score(arms, y) = <<1, 60 + p>>
    BY <1>3, DenseScore
  <2>2. s \in 1..Len(arms["dense"]) /\ Score(arms, x) = <<1, 60 + s>>
        /\ Len(arms["dense"]) \in Nat
    BY <1>3, DenseScore
  <2> HIDE DEF p, s
  <2>3. 1 * (60 + s) > 1 * (60 + p)
    BY <1>1, <1>3, <2>1, <2>2
  <2> QED
    BY <2>1, <2>2, <2>3 DEF Greater
<1>4. CASE FoundBy(arms, x) = {"lexical"}
  <2>1. q \in 1..Len(arms["lexical"]) /\ Score(arms, y) = <<1, 60 + q>>
    BY <1>4, LexicalScore
  <2>2. t \in 1..Len(arms["lexical"]) /\ Score(arms, x) = <<1, 60 + t>>
        /\ Len(arms["lexical"]) \in Nat
    BY <1>4, LexicalScore
  <2> HIDE DEF q, t
  <2>3. 1 * (60 + t) > 1 * (60 + q)
    BY <1>1, <1>4, <2>1, <2>2
  <2> QED
    BY <2>1, <2>2, <2>3 DEF Greater
<1>5. CASE FoundBy(arms, x) = Arms
  <2> DEFINE P == 60 + p  Q == 60 + q  S == 60 + s  T == 60 + t
  <2>1. /\ p \in 1..Len(arms["dense"]) /\ q \in 1..Len(arms["lexical"])
        /\ Score(arms, y) = <<Q + P, P * Q>>
    <3>1. FoundBy(arms, y) = Arms
      BY <1>5
    <3> QED
      BY <3>1, BothScore
  <2>2. /\ s \in 1..Len(arms["dense"]) /\ t \in 1..Len(arms["lexical"])
        /\ Len(arms["dense"]) \in Nat /\ Len(arms["lexical"]) \in Nat
        /\ Score(arms, x) = <<T + S, S * T>>
    BY <1>5, BothScore
  <2>3. p < s /\ q < t
    BY <1>1, <1>5 DEF Arms
  <2> HIDE DEF p, q, s, t
  <2>4. P \in Nat \ {0} /\ Q \in Nat \ {0} /\ S \in Nat /\ T \in Nat /\ P < S /\ Q < T
    BY <2>1, <2>2, <2>3
  <2> HIDE DEF P, Q, S, T
  <2>5. (Q + P) * (S * T) > (T + S) * (P * Q)
    BY <2>4, SmallerExceed
  <2> QED
    BY <2>1, <2>2, <2>5 DEF Greater
<1> QED
  BY <1>2, <1>3, <1>4, <1>5

-----------------------------------------------------------------------------
(* Numbers in ascending order, and what a growing function makes of them *)

\* Numbers keep their places when what they are mapped to grows with them.
Grows(f, S) == f \in [S -> Int] /\ \A x, y \in S : x < y => f[x] < f[y]

\* What f makes of some of the numbers of S.
Carried(f, S, R, T) ==
    /\ IsFiniteSet(S) /\ S \subseteq Int /\ Grows(f, S)
    /\ R \subseteq S /\ T = {f[x] : x \in R}

LEMMA ImageCounts ==
  ASSUME NEW S, NEW f, NEW R, NEW T, Carried(f, S, R, T)
  PROVE  IsFiniteSet(T) /\ Cardinality(T) = Cardinality(R) /\ T \subseteq Int
<1> USE DEF Carried
<1> DEFINE g == [x \in R |-> f[x]]
<1>1. IsFiniteSet(R)
  BY FS_Subset
<1>2. T \subseteq Int /\ g \in [R -> T] /\ \A y \in T : \E x \in R : g[x] = y
  BY DEF Grows
<1>3. \A x, y \in R : g[x] = g[y] => x = y
  <2> SUFFICES ASSUME NEW x \in R, NEW y \in R, x # y PROVE f[x] # f[y]
    OBVIOUS
  <2>1. x \in Int /\ y \in Int /\ f[x] \in Int /\ f[y] \in Int
    BY DEF Grows
  <2>2. x < y \/ y < x
    BY <2>1
  <2>3. x \in S /\ y \in S
    OBVIOUS
  <2>4. f[x] < f[y] \/ f[y] < f[x]
    BY <2>2, <2>3 DEF Grows
  <2> QED
    BY <2>1, <2>4
<1> HIDE DEF g
<1>4. g \in Surjection(R, T) /\ g \in Injection(R, T)
  BY <1>2, <1>3 DEF Surjection, Injection, IsInjective
<1>5. IsFiniteSet(T) /\ Cardinality(T) = Cardinality(R)
  BY <1>1, <1>4, FS_Surjection
<1> QED
  BY <1>2, <1>5

\* Ascending names its numbers in the order they have.
Placed(S, k, x) == k \in 1..Cardinality(S) /\ x \in S /\ Ascending(S)[k] = x

LEMMA AscendingPlace ==
  ASSUME NEW S, IsFiniteSet(S), S \subseteq Int, NEW x \in S,
         NEW k, k = Cardinality({j \in S : j < x}) + 1
  PROVE  Placed(S, k, x)
<1>1. Orders(Earlier(S), S) /\ Earlier(S)[x] = {j \in S : j < x}
  BY EarlierOrders DEF Earlier
<1> DEFINE before == Earlier(S)
<1>2. Orders(before, S) /\ k = Cardinality(before[x]) + 1
  BY <1>1
<1> HIDE DEF before
<1>3. k \in 1..Cardinality(S) /\ InOrder(S, before)[k] = x
  BY <1>2, InOrderPlace
<1>4. Ascending(S) = InOrder(S, before)
  BY DEF Ascending, Earlier, before
<1> QED
  BY <1>3, <1>4 DEF Placed

Numbers(S) == IsFiniteSet(S) /\ S \subseteq Int

LEMMA AscendingFill ==
  ASSUME NEW S, Numbers(S), NEW k \in 1..Cardinality(S)
  PROVE  \E x \in S : k = Cardinality({j \in S : j < x}) + 1
<1>0. IsFiniteSet(S)
  BY DEF Numbers
<1>1. Orders(Earlier(S), S) /\ \A x \in S : Earlier(S)[x] = {j \in S : j < x}
  BY EarlierOrders DEF Earlier, Numbers
<1>2. Cardinality(S) \in Nat
  BY <1>0, FS_CardinalityType
<1>3. k - 1 \in 0..(Cardinality(S) - 1)
  BY <1>2
<1>4. ASSUME NEW before, before = Earlier(S)
      PROVE  \E x \in S : Cardinality(before[x]) = k - 1
  <2>1. Orders(before, S)
    BY <1>1, <1>4
  <2> QED
    BY <1>0, <1>3, <2>1, RanksFill
<1>a. PICK x \in S : Cardinality(Earlier(S)[x]) = k - 1
  BY <1>4
<1>5. Cardinality({j \in S : j < x}) = k - 1
  BY <1>1, <1>a
<1>6. k = (k - 1) + 1
  OBVIOUS
<1> QED
  BY <1>5, <1>6

LEMMA PickedImage ==
  ASSUME NEW S, NEW f, NEW R, NEW T, Carried(f, S, R, T),
         NEW s, NEW t, \A x \in R : t[f[x]] = s[x]
  PROVE  Picked(t, T) = Picked(s, R)
<1> DEFINE n == Cardinality(R)
<1>0. /\ IsFiniteSet(S) /\ S \subseteq Int /\ Grows(f, S)
      /\ R \in SUBSET S /\ T = {f[x] : x \in R}
  BY DEF Carried
<1>1. IsFiniteSet(R) /\ R \subseteq Int /\ n \in Nat
  BY <1>0, FS_Subset, FS_CardinalityType
<1>2. IsFiniteSet(T) /\ Cardinality(T) = n /\ T \subseteq Int
  BY ImageCounts
<1>3. ASSUME NEW k \in 1..n
      PROVE  t[Ascending(T)[k]] = s[Ascending(R)[k]]
  <2>1. PICK x \in R : k = Cardinality({j \in R : j < x}) + 1
    BY <1>1, AscendingFill DEF Numbers
  <2>2. Ascending(R)[k] = x
    <3>1. Placed(R, k, x)
      BY <1>1, <2>1, AscendingPlace
    <3> QED
      BY <3>1 DEF Placed
  <2>3. {i \in T : i < f[x]} = {f[j] : j \in {j \in R : j < x}}
    <3>1. ASSUME NEW j \in R
          PROVE  f[j] < f[x] <=> j < x
      <4>1. j \in Int /\ x \in Int /\ f[j] \in Int /\ f[x] \in Int /\ j \in S /\ x \in S
        BY <1>0 DEF Grows
      <4>2. (j < x => f[j] < f[x]) /\ (x < j => f[x] < f[j])
        BY <1>0, <4>1 DEF Grows
      <4>3. j < x \/ x < j \/ j = x
        BY <4>1
      <4> QED
        BY <4>1, <4>2, <4>3
    <3> QED
      BY <1>0, <3>1
  <2>4. Cardinality({i \in T : i < f[x]}) = Cardinality({j \in R : j < x})
    <3> DEFINE I == {i \in T : i < f[x]}
               J == {j \in R : j < x}
    <3>1. Carried(f, S, J, I)
      BY <1>0, <2>3 DEF Carried
    <3> HIDE DEF I, J
    <3>2. Cardinality(I) = Cardinality(J)
      BY <3>1, ImageCounts
    <3> QED
      BY <3>2 DEF I, J
  <2>5. f[x] \in T /\ k = Cardinality({i \in T : i < f[x]}) + 1
    BY <1>0, <2>1, <2>4
  <2>6. Ascending(T)[k] = f[x]
    <3> DEFINE y == f[x]
    <3>1. y \in T /\ k = Cardinality({i \in T : i < y}) + 1
      BY <2>5
    <3> HIDE DEF y
    <3>2. Placed(T, k, y)
      BY <1>2, <3>1, AscendingPlace
    <3> QED
      BY <3>2 DEF Placed, y
  <2> QED
    BY <2>2, <2>6
<1>4. DOMAIN Ascending(T) = 1..n /\ DOMAIN Ascending(R) = 1..n
  BY <1>2 DEF Ascending, InOrder
<1>5. /\ Picked(t, T) = [k \in 1..n |-> t[Ascending(T)[k]]]
      /\ Picked(s, R) = [k \in 1..n |-> s[Ascending(R)[k]]]
  BY <1>4 DEF Picked
<1> HIDE DEF n
<1> QED
  BY <1>3, <1>5

\* A list of the numbers of S, each once.
Lists(a, S) ==
    /\ DOMAIN a = 1..Cardinality(S)
    /\ \A k \in DOMAIN a : a[k] \in S
    /\ \A x \in S : \E k \in DOMAIN a : \A j \in DOMAIN a : a[j] = x <=> j = k

LEMMA AscendingLists ==
  ASSUME NEW S, Numbers(S), NEW a, a = Ascending(S)
  PROVE  Lists(a, S)
<1> DEFINE before == Earlier(S)
           n == Cardinality(S)
<1>1. IsFiniteSet(S) /\ S \subseteq Int
  BY DEF Numbers
<1>2. Orders(before, S) /\ a = InOrder(S, before) /\ n \in Nat
  BY <1>1, EarlierOrders, FS_CardinalityType DEF Ascending, Earlier
<1> HIDE DEF before
<1>3. /\ a \in Seq(S) /\ DOMAIN a = 1..n
      /\ \A x \in S : \E k \in DOMAIN a : a[k] = x
      /\ \A i, j \in DOMAIN a : i < j => a[i] # a[j]
  BY <1>1, <1>2, InOrderSorts
<1>4. \A k \in DOMAIN a : a[k] \in S
  BY <1>3, ElementOfSeq, LenProperties
<1>5. ASSUME NEW x \in S
      PROVE  \E k \in DOMAIN a : \A j \in DOMAIN a : a[j] = x <=> j = k
  <2>1. PICK k \in DOMAIN a : a[k] = x
    BY <1>3
  <2>2. ASSUME NEW j \in DOMAIN a, a[j] = x PROVE j = k
    <3>1. j < k \/ k < j \/ j = k
      BY <1>2, <1>3
    <3> QED
      BY <1>3, <2>1, <2>2, <3>1
  <2> QED
    BY <2>1, <2>2
<1> QED
  BY <1>3, <1>4, <1>5 DEF Lists

-----------------------------------------------------------------------------
(* Sequences of sequences, flattened *)

\* What a flattened sequence of sequences has spelt after each of them.
Spelt(g, n, seqs, X) ==
    /\ g \in [0..n -> Seq(X)] /\ g[0] = <<>>
    /\ \A k \in 1..n : g[k] = g[k - 1] \o seqs[k]
    /\ FlattenSeq(seqs) = g[n]

Flat(f, n, seqs) == f = [i \in 1..n |-> IF i = 1 THEN seqs[i] ELSE f[i - 1] \o seqs[i]]

LEMMA Flattening ==
  ASSUME NEW n \in Nat, NEW X, NEW seqs \in [1..n -> Seq(X)]
  PROVE  \E g : Spelt(g, n, seqs, X)
<1> DEFINE turn == [k \in 1..n |-> [s \in Seq(X) |-> s \o seqs[k]]]
<1>1. /\ <<>> \in Seq(X) /\ seqs \in Seq(Seq(X)) /\ Len(seqs) = n
      /\ \A k \in 1..n : seqs[k] \in Seq(X)
  BY EmptySeq, SeqDef, LenProperties
<1>2. \A k \in 1..n, s \in Seq(X) : s \o seqs[k] \in Seq(X)
  BY <1>1, ConcatProperties
<1>3. turn \in [1..n -> [Seq(X) -> Seq(X)]]
  BY <1>2
<1>4. \A k \in 1..n : \A s \in Seq(X) : turn[k][s] = s \o seqs[k]
  OBVIOUS
<1> HIDE DEF turn
<1>5. PICK g : Turned(g, n, Seq(X), <<>>, turn)
  BY <1>1, <1>3, TurnsExist
<1>6. /\ g \in [0..n -> Seq(X)] /\ g[0] = <<>>
      /\ \A k \in 1..n : g[k] = g[k - 1] \o seqs[k]
  <2>1. \A k \in 1..n : k - 1 \in 0..n
    OBVIOUS
  <2> QED
    BY <1>4, <1>5, <2>1 DEF Turned
<1>7. CASE n = 0
  <2>1. FlattenSeq(seqs) = seqs
    BY <1>1, <1>7 DEF FlattenSeq
  <2>2. seqs = <<>>
    BY <1>1, <1>7, EmptySeq
  <2> QED
    BY <1>6, <1>7, <2>1, <2>2 DEF Spelt
<1>8. CASE n # 0
  <2> DEFINE f == CHOOSE f : Flat(f, n, seqs)
             h == [k \in 1..n |-> g[k]]
  <2>1. FlattenSeq(seqs) = f[n]
    BY <1>1, <1>8 DEF FlattenSeq, Flat
  <2>2. \A k \in 1..n : h[k] = IF k = 1 THEN seqs[k] ELSE h[k - 1] \o seqs[k]
    <3>1. ASSUME NEW k \in 1..n, k # 1
          PROVE  h[k] = h[k - 1] \o seqs[k]
      <4>1. k - 1 \in 1..n
        BY <3>1
      <4> QED
        BY <1>6, <4>1
    <3>2. ASSUME 1 \in 1..n
          PROVE  h[1] = seqs[1]
      <4>0. 1 - 1 = 0
        OBVIOUS
      <4>1. h[1] = <<>> \o seqs[1]
        BY <1>6, <3>2, <4>0
      <4> QED
        BY <1>1, <3>2, <4>1, ConcatEmptySeq
    <3> HIDE DEF h
    <3> QED
      BY <3>1, <3>2
  <2>3. Flat(h, n, seqs)
    <3>1. h = [k \in 1..n |-> h[k]]
      OBVIOUS
    <3> HIDE DEF h
    <3> QED
      BY <2>2, <3>1 DEF Flat
  <2>4. Flat(f, n, seqs)
    BY <2>3
  <2> HIDE DEF f, h
  <2>5. \A k \in 1..n : f[k] = IF k = 1 THEN seqs[k] ELSE f[k - 1] \o seqs[k]
    BY <2>4 DEF Flat
  <2> DEFINE good == {k \in 0..n : k = 0 \/ f[k] = g[k]}
  <2>6. \A k \in 1..n : k - 1 \in good => k \in good
    <3> SUFFICES ASSUME NEW k \in 1..n, k - 1 \in good PROVE f[k] = g[k]
      OBVIOUS
    <3>1. CASE k = 1
      <4>0. k - 1 = 0
        BY <3>1
      <4>1. g[k] = <<>> \o seqs[k]
        BY <1>6, <4>0
      <4> QED
        BY <1>1, <2>5, <3>1, <4>1, ConcatEmptySeq
    <3>2. CASE k # 1
      <4>1. f[k - 1] = g[k - 1]
        BY <3>2
      <4> QED
        BY <1>6, <2>5, <3>2, <4>1
    <3> QED
      BY <3>1, <3>2
  <2>7. n \in good
    <3>1. 0 \in good
      OBVIOUS
    <3> HIDE DEF good
    <3> QED
      BY <2>6, <3>1, TurnsKeep
  <2>8. f[n] = g[n]
    BY <1>8, <2>7
  <2> QED
    BY <1>6, <2>1, <2>8 DEF Spelt
<1> QED
  BY <1>7, <1>8

\* A concatenation is empty when all of its parts are.
LEMMA FlatEmpty ==
  ASSUME NEW n \in Nat, NEW X, NEW seqs \in [1..n -> Seq(X)]
  PROVE  /\ FlattenSeq(seqs) \in Seq(X)
         /\ FlattenSeq(seqs) = <<>> <=> \A k \in 1..n : seqs[k] = <<>>
<1>1. PICK g : Spelt(g, n, seqs, X)
  BY Flattening
<1>2. /\ g \in [0..n -> Seq(X)] /\ g[0] = <<>> /\ FlattenSeq(seqs) = g[n]
      /\ \A k \in 1..n : g[k] = g[k - 1] \o seqs[k]
  BY <1>1 DEF Spelt
<1>3. \A k \in 1..n : g[k] = <<>> <=> g[k - 1] = <<>> /\ seqs[k] = <<>>
  <2> SUFFICES ASSUME NEW k \in 1..n
               PROVE  g[k] = <<>> <=> g[k - 1] = <<>> /\ seqs[k] = <<>>
    OBVIOUS
  <2>1. k - 1 \in 0..n
    OBVIOUS
  <2>2. g[k - 1] \in Seq(X) /\ seqs[k] \in Seq(X)
    BY <1>2, <2>1
  <2>3. g[k] = g[k - 1] \o seqs[k]
    BY <1>2
  <2> QED
    BY <2>2, <2>3, ConcatEqualIffEmpty
<1> DEFINE good == {k \in 0..n : g[k] = <<>> <=> \A j \in 1..k : seqs[j] = <<>>}
<1>4. 0 \in good
  BY <1>2
<1>5. \A k \in 1..n : k - 1 \in good => k \in good
  <2> SUFFICES ASSUME NEW k \in 1..n, k - 1 \in good PROVE k \in good
    OBVIOUS
  <2>1. \A j : j \in 1..k <=> j \in 1..(k - 1) \/ j = k
    OBVIOUS
  <2> QED
    BY <1>3, <2>1
<1>6. n \in good
  <2> HIDE DEF good
  <2> QED
    BY <1>4, <1>5, TurnsKeep
<1> QED
  BY <1>2, <1>6

\* Of two concatenations that differ in one part at most, the parts tell.
LEMMA FlatDiffers ==
  ASSUME NEW n \in Nat, NEW X, NEW seqs \in [1..n -> Seq(X)], NEW other \in [1..n -> Seq(X)],
         NEW m \in 1..n, \A k \in 1..n : k # m => other[k] = seqs[k]
  PROVE  FlattenSeq(other) = FlattenSeq(seqs) <=> other[m] = seqs[m]
<1>1. PICK g : Spelt(g, n, seqs, X)
  BY Flattening
<1>2. PICK h : Spelt(h, n, other, X)
  BY Flattening
<1>3. /\ g \in [0..n -> Seq(X)] /\ g[0] = <<>> /\ FlattenSeq(seqs) = g[n]
      /\ h \in [0..n -> Seq(X)] /\ h[0] = <<>> /\ FlattenSeq(other) = h[n]
      /\ \A k \in 1..n : g[k] = g[k - 1] \o seqs[k] /\ h[k] = h[k - 1] \o other[k]
  BY <1>1, <1>2 DEF Spelt
<1> DEFINE good == {k \in 0..n : h[k] = g[k] <=> (k < m \/ other[m] = seqs[m])}
<1>4. 0 \in good
  BY <1>3
<1>5. ASSUME NEW k \in 1..n, k - 1 \in good
      PROVE  k \in good
  <2> SUFFICES h[k] = g[k] <=> (k < m \/ other[m] = seqs[m])
    OBVIOUS
  <2>0. k - 1 \in 0..n
    OBVIOUS
  <2>1. /\ g[k - 1] \in Seq(X) /\ h[k - 1] \in Seq(X) /\ seqs[k] \in Seq(X) /\ other[k] \in Seq(X)
        /\ h[k - 1] = g[k - 1] <=> (k - 1 < m \/ other[m] = seqs[m])
    BY <1>3, <1>5, <2>0
  <2>a. g[k] = g[k - 1] \o seqs[k] /\ h[k] = h[k - 1] \o other[k]
    BY <1>3
  <2>2. CASE k < m
    <3>1. other[k] = seqs[k] /\ h[k - 1] = g[k - 1]
      BY <2>1, <2>2
    <3> QED
      BY <2>2, <2>a, <3>1
  <2>3. CASE k = m
    <3>1. h[k - 1] = g[k - 1]
      BY <2>1, <2>3
    <3>2. h[k] = g[k] <=> other[k] = seqs[k]
      BY <2>1, <2>a, <3>1, ConcatSimplifications
    <3> QED
      BY <2>3, <3>2
  <2>4. CASE k > m
    <3>1. other[k] = seqs[k]
      BY <2>4
    <3>2. \A s, t, v \in Seq(X) : s \o v = t \o v => s = t
      BY ConcatSimplifications
    <3>3. h[k] = g[k] <=> h[k - 1] = g[k - 1]
      BY <2>1, <2>a, <3>1, <3>2
    <3> QED
      BY <2>1, <2>4, <3>3
  <2> QED
    BY <2>2, <2>3, <2>4
<1>6. n \in good
  <2> HIDE DEF good
  <2> QED
    BY <1>4, <1>5, TurnsKeep
<1> QED
  BY <1>3, <1>6

\* Where the others are when one more stands after p.
Below(p, k) == IF k <= p THEN k ELSE k + 1

\* An empty part more leaves a concatenation as it is.
WithEmpty(n, X, seqs, p, other) ==
    /\ seqs \in [1..n -> Seq(X)] /\ p \in 0..n
    /\ other \in [1..(n + 1) -> Seq(X)] /\ other[p + 1] = <<>>
    /\ \A k \in 1..n : other[Below(p, k)] = seqs[k]

LEMMA FlatWithEmpty ==
  ASSUME NEW n \in Nat, NEW X, NEW seqs, NEW p, NEW other, WithEmpty(n, X, seqs, p, other)
  PROVE  FlattenSeq(other) = FlattenSeq(seqs)
<1> USE DEF WithEmpty
<1>1. PICK g : Spelt(g, n, seqs, X)
  BY Flattening
<1>2. PICK h : Spelt(h, n + 1, other, X)
  <2> DEFINE N == n + 1
  <2>1. N \in Nat /\ other \in [1..N -> Seq(X)]
    OBVIOUS
  <2> HIDE DEF N
  <2>2. \E h : Spelt(h, N, other, X)
    BY <2>1, Flattening
  <2> QED
    BY <2>2 DEF N
<1>3. /\ g \in [0..n -> Seq(X)] /\ g[0] = <<>> /\ FlattenSeq(seqs) = g[n]
      /\ h \in [0..(n + 1) -> Seq(X)] /\ h[0] = <<>> /\ FlattenSeq(other) = h[n + 1]
      /\ \A k \in 1..n : g[k] = g[k - 1] \o seqs[k]
      /\ \A k \in 1..(n + 1) : h[k] = h[k - 1] \o other[k]
  BY <1>1, <1>2 DEF Spelt
<1> DEFINE good == {k \in 0..(n + 1) : h[k] = IF k <= p THEN g[k] ELSE g[k - 1]}
<1>4. 0 \in good
  BY <1>3
<1>5. ASSUME NEW k \in 1..(n + 1), k - 1 \in good
      PROVE  k \in good
  <2> SUFFICES h[k] = IF k <= p THEN g[k] ELSE g[k - 1]
    OBVIOUS
  <2>1. h[k] = h[k - 1] \o other[k]
    BY <1>3
  <2>a. h[k - 1] = IF k - 1 <= p THEN g[k - 1] ELSE g[(k - 1) - 1]
    BY <1>5
  <2>2. CASE k <= p
    <3>1. k - 1 <= p /\ k \in 1..n
      BY <2>2
    <3>2. h[k - 1] = g[k - 1] /\ other[k] = seqs[k] /\ g[k] = g[k - 1] \o seqs[k]
      BY <1>3, <2>2, <2>a, <3>1 DEF Below
    <3> QED
      BY <2>1, <2>2, <3>2
  <2>3. CASE k = p + 1
    <3>1. h[k - 1] = g[k - 1] /\ k - 1 \in 0..n /\ other[k] = <<>> /\ ~(k <= p)
      BY <2>3, <2>a
    <3>2. h[k - 1] \o <<>> = h[k - 1]
      BY <1>3, <3>1, ConcatEmptySeq
    <3> QED
      BY <2>1, <2>3, <3>1, <3>2
  <2>4. CASE k > p + 1
    <3>1. h[k - 1] = g[(k - 1) - 1] /\ k - 1 \in 1..n /\ ~(k - 1 <= p) /\ ~(k <= p)
          /\ (k - 1) + 1 = k
      BY <2>4, <2>a
    <3>2. other[k] = seqs[k - 1]
      BY <3>1 DEF Below
    <3>3. g[k - 1] = g[(k - 1) - 1] \o seqs[k - 1]
      BY <1>3, <3>1
    <3> QED
      BY <2>1, <2>4, <3>1, <3>2, <3>3
  <2> QED
    BY <2>2, <2>3, <2>4
<1>6. n + 1 \in good
  <2> HIDE DEF good
  <2> QED
    BY <1>4, <1>5, TurnsKeep
<1>7. h[n + 1] = g[n]
  BY <1>6
<1> QED
  BY <1>3, <1>7

\* Where each part of a flattened sequence lies in it.
Laid(o, n, seqs, s) ==
    /\ o \in [0..n -> Nat] /\ o[0] = 0 /\ Len(s) = o[n]
    /\ \A k \in 1..n : /\ o[k] = o[k - 1] + Len(seqs[k]) /\ o[k] <= o[n]
                       /\ \A j \in 1..Len(seqs[k]) : s[o[k - 1] + j] = seqs[k][j]
    /\ \A p \in 1..o[n] : \E k \in 1..n : o[k - 1] < p /\ p <= o[k]

\* As Laid, of the first m parts.
LaidOut(m, g, seqs) ==
    /\ \A k \in 0..m : /\ Len(g[k]) <= Len(g[m])
                       /\ \A p \in 1..Len(g[k]) : g[m][p] = g[k][p]
    /\ \A p \in 1..Len(g[m]) : \E k \in 1..m : Len(g[k - 1]) < p /\ p <= Len(g[k])

\* Flattening lays the parts one after the other, and nothing else.
LEMMA FlatLaid ==
  ASSUME NEW n \in Nat, NEW X, NEW seqs \in [1..n -> Seq(X)]
  PROVE  /\ FlattenSeq(seqs) \in Seq(X)
         /\ \E o : Laid(o, n, seqs, FlattenSeq(seqs))
<1>1. PICK g : Spelt(g, n, seqs, X)
  BY Flattening
<1>2. /\ g \in [0..n -> Seq(X)] /\ g[0] = <<>> /\ FlattenSeq(seqs) = g[n]
      /\ \A k \in 1..n : g[k] = g[k - 1] \o seqs[k]
  BY <1>1 DEF Spelt
<1>3. \A k \in 0..n : g[k] \in Seq(X) /\ Len(g[k]) \in Nat
  BY <1>2, LenProperties
<1>4. ASSUME NEW k \in 1..n
      PROVE  /\ k - 1 \in 0..n /\ k \in 0..n /\ seqs[k] \in Seq(X) /\ Len(seqs[k]) \in Nat
             /\ Len(g[k]) = Len(g[k - 1]) + Len(seqs[k])
             /\ \A p \in 1..Len(g[k - 1]) : g[k][p] = g[k - 1][p]
             /\ \A j \in 1..Len(seqs[k]) : g[k][Len(g[k - 1]) + j] = seqs[k][j]
  <2>1. k - 1 \in 0..n /\ k \in 0..n
    OBVIOUS
  <2>2. g[k - 1] \in Seq(X) /\ seqs[k] \in Seq(X) /\ Len(seqs[k]) \in Nat
    BY <1>2, <2>1, LenProperties
  <2>3. g[k] = g[k - 1] \o seqs[k]
    BY <1>2
  <2> QED
    BY <1>3, <2>1, <2>2, <2>3, ConcatProperties
<1> DEFINE good == {m \in 0..n : LaidOut(m, g, seqs)}
<1>5. 0 \in good
  <2>1. Len(g[0]) = 0
    BY <1>2, EmptySeq
  <2>2. \A k \in 0..0 : k = 0
    OBVIOUS
  <2> QED
    BY <2>1, <2>2 DEF LaidOut
<1>6. ASSUME NEW m \in 1..n, m - 1 \in good
      PROVE  m \in good
  <2>1. LaidOut(m - 1, g, seqs)
    BY <1>6
  <2>2. \A k : (k \in 0..m <=> k \in 0..(m - 1) \/ k = m) /\ (k \in 0..m => k \in 0..n)
    OBVIOUS
  <2>3. ASSUME NEW k \in 0..m
        PROVE  /\ Len(g[k]) <= Len(g[m])
               /\ \A p \in 1..Len(g[k]) : g[m][p] = g[k][p]
    <3>1. CASE k = m
      BY <1>3, <2>2, <3>1
    <3>2. CASE k \in 0..(m - 1)
      <4>1. Len(g[k]) <= Len(g[m - 1]) /\ \A p \in 1..Len(g[k]) : g[m - 1][p] = g[k][p]
        BY <2>1, <3>2 DEF LaidOut
      <4>2. Len(g[k]) \in Nat /\ Len(g[m - 1]) \in Nat /\ Len(g[m]) \in Nat
        BY <1>3, <1>4, <2>2
      <4>3. /\ Len(g[m]) = Len(g[m - 1]) + Len(seqs[m]) /\ Len(seqs[m]) \in Nat
            /\ \A p \in 1..Len(g[m - 1]) : g[m][p] = g[m - 1][p]
        BY <1>4
      <4>4. \A p \in 1..Len(g[k]) : p \in 1..Len(g[m - 1])
        BY <4>1, <4>2
      <4> QED
        BY <4>1, <4>2, <4>3, <4>4
    <3> QED
      BY <2>2, <3>1, <3>2
  <2>4. ASSUME NEW p \in 1..Len(g[m])
        PROVE  \E k \in 1..m : Len(g[k - 1]) < p /\ p <= Len(g[k])
    <3>1. Len(g[m - 1]) \in Nat /\ Len(g[m]) \in Nat
      BY <1>3, <1>4
    <3>2. CASE p <= Len(g[m - 1])
      <4>1. p \in 1..Len(g[m - 1])
        BY <3>1, <3>2
      <4>2. PICK k \in 1..(m - 1) : Len(g[k - 1]) < p /\ p <= Len(g[k])
        BY <2>1, <4>1 DEF LaidOut
      <4> QED
        BY <4>2
    <3>3. CASE ~(p <= Len(g[m - 1]))
      <4>1. Len(g[m - 1]) < p /\ p <= Len(g[m]) /\ m \in 1..m
        BY <3>1, <3>3
      <4> QED
        BY <4>1
    <3> QED
      BY <3>2, <3>3
  <2>5. LaidOut(m, g, seqs)
    BY <2>3, <2>4 DEF LaidOut
  <2> QED
    BY <2>5
<1>7. LaidOut(n, g, seqs)
  <2>1. n \in good
    <3> HIDE DEF good
    <3> QED
      BY <1>5, <1>6, TurnsKeep
  <2> QED
    BY <2>1
<1> DEFINE o == [k \in 0..n |-> Len(g[k])]
<1>8. /\ o \in [0..n -> Nat] /\ o[0] = 0 /\ n \in 0..n
      /\ \A k \in 0..n : o[k] = Len(g[k])
  BY <1>2, <1>3, EmptySeq
<1> HIDE DEF o
<1>9. ASSUME NEW k \in 1..n
      PROVE  /\ o[k] = o[k - 1] + Len(seqs[k]) /\ o[k] <= o[n]
             /\ \A j \in 1..Len(seqs[k]) : g[n][o[k - 1] + j] = seqs[k][j]
  <2>1. /\ Len(g[k]) <= Len(g[n])
        /\ \A p \in 1..Len(g[k]) : g[n][p] = g[k][p]
    BY <1>4, <1>7 DEF LaidOut
  <2>2. \A j \in 1..Len(seqs[k]) : Len(g[k - 1]) + j \in 1..Len(g[k])
    BY <1>3, <1>4
  <2> QED
    BY <1>4, <1>8, <2>1, <2>2
<1>10. \A p \in 1..o[n] : \E k \in 1..n : o[k - 1] < p /\ p <= o[k]
  BY <1>4, <1>7, <1>8 DEF LaidOut
<1>11. Laid(o, n, seqs, g[n])
  BY <1>8, <1>9, <1>10 DEF Laid
<1> QED
  BY <1>2, <1>8, <1>11

\* Every element of a flattened sequence is of one of its parts.
LEMMA FlatElements ==
  ASSUME NEW n \in Nat, NEW X, NEW seqs \in [1..n -> Seq(X)]
  PROVE  \A p \in DOMAIN FlattenSeq(seqs) :
            \E k \in 1..n : \E j \in DOMAIN seqs[k] : FlattenSeq(seqs)[p] = seqs[k][j]
<1>1. FlattenSeq(seqs) \in Seq(X)
  BY FlatLaid
<1>2. PICK o : Laid(o, n, seqs, FlattenSeq(seqs))
  BY FlatLaid
<1> SUFFICES ASSUME NEW p \in DOMAIN FlattenSeq(seqs)
             PROVE  \E k \in 1..n : \E j \in DOMAIN seqs[k] : FlattenSeq(seqs)[p] = seqs[k][j]
  OBVIOUS
<1>3. p \in 1..o[n]
  BY <1>1, <1>2, LenProperties DEF Laid
<1>4. PICK k \in 1..n : o[k - 1] < p /\ p <= o[k]
  BY <1>2, <1>3 DEF Laid
<1>5. seqs[k] \in Seq(X) /\ Len(seqs[k]) \in Nat /\ DOMAIN seqs[k] = 1..Len(seqs[k])
  BY LenProperties
<1>6. k - 1 \in 0..n /\ k \in 0..n /\ o \in [0..n -> Nat] /\ p \in Nat
  <2>1. o \in [0..n -> Nat]
    BY <1>2 DEF Laid
  <2>3. n \in 0..n /\ k - 1 \in 0..n /\ k \in 0..n
    OBVIOUS
  <2>2. o[n] \in Nat
    BY <2>1, <2>3
  <2> QED
    BY <1>3, <2>1, <2>2, <2>3
<1>7. o[k] \in Nat /\ o[k - 1] \in Nat /\ o[k] = o[k - 1] + Len(seqs[k])
  BY <1>2, <1>6 DEF Laid
<1>8. p - o[k - 1] \in 1..Len(seqs[k]) /\ o[k - 1] + (p - o[k - 1]) = p
  BY <1>4, <1>5, <1>6, <1>7
<1>9. FlattenSeq(seqs)[o[k - 1] + (p - o[k - 1])] = seqs[k][p - o[k - 1]]
  BY <1>2, <1>8 DEF Laid
<1> QED
  BY <1>5, <1>8, <1>9

\* What grows part by part from nothing is the flattened sequence.
LEMMA FlatSteps ==
  ASSUME NEW n \in Nat, NEW X, NEW seqs \in [1..n -> Seq(X)], NEW g, g[0] = <<>>,
         \A k \in 1..n : g[k] = g[k - 1] \o seqs[k]
  PROVE  FlattenSeq(seqs) = g[n]
<1>1. PICK h : Spelt(h, n, seqs, X)
  BY Flattening
<1> DEFINE good == {k \in 0..n : h[k] = g[k]}
<1>2. 0 \in good
  BY <1>1 DEF Spelt
<1>3. ASSUME NEW k \in 1..n, k - 1 \in good
      PROVE  k \in good
  <2>1. h[k] = h[k - 1] \o seqs[k] /\ g[k] = g[k - 1] \o seqs[k]
    BY <1>1 DEF Spelt
  <2>2. h[k - 1] = g[k - 1] /\ k \in 0..n
    BY <1>3
  <2>3. h[k] = g[k]
    BY <2>1, <2>2
  <2> QED
    BY <2>2, <2>3
<1>4. n \in good
  <2> HIDE DEF good
  <2> QED
    BY <1>2, <1>3, TurnsKeep
<1> QED
  BY <1>1, <1>4 DEF Spelt

\* Flattening what is written one after the other.
LEMMA FlatConcat ==
  ASSUME NEW X, NEW s \in Seq(Seq(X)), NEW t \in Seq(Seq(X))
  PROVE  FlattenSeq(s \o t) = FlattenSeq(s) \o FlattenSeq(t)
<1> DEFINE n == Len(s)
           m == Len(t)
           st == s \o t
<1>1. n \in Nat /\ m \in Nat /\ s \in [1..n -> Seq(X)] /\ t \in [1..m -> Seq(X)]
  BY LenProperties
<1>2. /\ st \in Seq(Seq(X)) /\ Len(st) = n + m
      /\ \A k \in 1..(n + m) : st[k] = IF k <= n THEN s[k] ELSE t[k - n]
  BY ConcatProperties
<1>3. st \in [1..(n + m) -> Seq(X)]
  BY <1>2, LenProperties
<1>4. PICK g : Spelt(g, n, s, X)
  BY <1>1, Flattening
<1>5. PICK h : Spelt(h, m, t, X)
  BY <1>1, Flattening
<1>6. /\ g \in [0..n -> Seq(X)] /\ g[0] = <<>> /\ FlattenSeq(s) = g[n]
      /\ \A k \in 1..n : g[k] = g[k - 1] \o s[k]
  BY <1>4 DEF Spelt
<1>7. /\ h \in [0..m -> Seq(X)] /\ h[0] = <<>> /\ FlattenSeq(t) = h[m]
      /\ \A k \in 1..m : h[k] = h[k - 1] \o t[k]
  BY <1>5 DEF Spelt
<1> HIDE DEF n, m, st
<1>8. n \in 0..n /\ g[n] \in Seq(X)
  BY <1>1, <1>6
<1> DEFINE f == [k \in 0..(n + m) |-> IF k <= n THEN g[k] ELSE g[n] \o h[k - n]]
<1>9. \A j \in 0..m : f[n + j] = g[n] \o h[j]
  <2> SUFFICES ASSUME NEW j \in 0..m PROVE f[n + j] = g[n] \o h[j]
    OBVIOUS
  <2>1. n + j \in 0..(n + m) /\ (n + j) - n = j /\ (n + j <= n => j = 0)
    BY <1>1
  <2>2. CASE j = 0
    BY <1>1, <1>7, <1>8, <2>1, <2>2, ConcatEmptySeq
  <2>3. CASE j # 0
    BY <2>1, <2>3
  <2> QED
    BY <2>2, <2>3
<1>10. \A k \in 0..n : f[k] = g[k]
  BY <1>1
<1> HIDE DEF f
<1>11. f[0] = <<>> /\ f[n + m] = g[n] \o h[m]
  BY <1>1, <1>6, <1>9, <1>10
<1>12. ASSUME NEW k \in 1..(n + m)
       PROVE  f[k] = f[k - 1] \o st[k]
  <2>1. CASE k <= n
    <3>1. k \in 1..n /\ k - 1 \in 0..n /\ k \in 0..n
      BY <1>1, <2>1
    <3> QED
      BY <1>2, <1>6, <1>10, <2>1, <3>1
  <2>2. CASE ~(k <= n)
    <3> DEFINE j == k - n
    <3>1. j \in 1..m /\ j - 1 \in 0..m /\ j \in 0..m /\ k = n + j /\ k - 1 = n + (j - 1)
      BY <1>1, <2>2
    <3>2. st[k] = t[j]
      BY <1>2, <2>2
    <3> HIDE DEF j
    <3>3. f[k] = g[n] \o h[j] /\ f[k - 1] = g[n] \o h[j - 1]
      BY <1>9, <3>1
    <3>4. h[j] = h[j - 1] \o t[j] /\ h[j - 1] \in Seq(X) /\ t[j] \in Seq(X)
      BY <1>1, <1>7, <3>1
    <3>5. g[n] \o (h[j - 1] \o t[j]) = (g[n] \o h[j - 1]) \o t[j]
      <4>1. \A a, b, c \in Seq(X) : a \o (b \o c) = (a \o b) \o c
        BY ConcatAssociative
      <4> QED
        BY <1>8, <3>4, <4>1
    <3> QED
      BY <3>2, <3>3, <3>4, <3>5
  <2> QED
    BY <2>1, <2>2
<1>13. n + m \in Nat
  BY <1>1
<1>14. FlattenSeq(st) = f[n + m]
  BY <1>3, <1>11, <1>12, <1>13, FlatSteps
<1> QED
  BY <1>6, <1>7, <1>11, <1>14 DEF st

\* One part alone.
LEMMA FlatOne ==
  ASSUME NEW X, NEW s \in Seq(X)
  PROVE  FlattenSeq(<<s>>) = s
<1> DEFINE n == 1
           seqs == <<s>>
<1>1. n \in Nat /\ n = 1 /\ seqs \in [1..n -> Seq(X)] /\ seqs[1] = s
  OBVIOUS
<1> HIDE DEF n, seqs
<1>2. PICK g : Spelt(g, n, seqs, X)
  BY <1>1, Flattening
<1>3. g[0] = <<>> /\ FlattenSeq(seqs) = g[n] /\ \A k \in 1..n : g[k] = g[k - 1] \o seqs[k]
  BY <1>2 DEF Spelt
<1>4. g[1] = <<>> \o s
  <2>1. 1 \in 1..n /\ 1 - 1 = 0
    BY <1>1
  <2> QED
    BY <1>1, <1>3, <2>1
<1>5. <<>> \o s = s
  BY ConcatEmptySeq
<1> QED
  BY <1>1, <1>3, <1>4, <1>5 DEF seqs

\* Flattening twice is flattening each part first.
LEMMA FlatNested ==
  ASSUME NEW n \in Nat, NEW X, NEW seqs \in [1..n -> Seq(Seq(X))]
  PROVE  FlattenSeq(FlattenSeq(seqs)) = FlattenSeq([k \in 1..n |-> FlattenSeq(seqs[k])])
<1> DEFINE inner == [k \in 1..n |-> FlattenSeq(seqs[k])]
<1>1. PICK g : Spelt(g, n, seqs, Seq(X))
  BY Flattening
<1>2. /\ g \in [0..n -> Seq(Seq(X))] /\ g[0] = <<>> /\ FlattenSeq(seqs) = g[n]
      /\ \A k \in 1..n : g[k] = g[k - 1] \o seqs[k]
  BY <1>1 DEF Spelt
<1>3. \A s \in Seq(Seq(X)) : FlattenSeq(s) \in Seq(X)
  <2> SUFFICES ASSUME NEW s \in Seq(Seq(X)) PROVE FlattenSeq(s) \in Seq(X)
    OBVIOUS
  <2>1. Len(s) \in Nat /\ s \in [1..Len(s) -> Seq(X)]
    BY LenProperties
  <2> QED
    BY <2>1, FlatLaid
<1>4. inner \in [1..n -> Seq(X)]
  BY <1>3
<1> DEFINE h == [k \in 0..n |-> FlattenSeq(g[k])]
<1>5. h[0] = <<>>
  <2>1. FlattenSeq(<<>>) = <<>>
    BY EmptySeq DEF FlattenSeq
  <2> QED
    BY <1>2, <2>1
<1>6. \A k \in 1..n : h[k] = h[k - 1] \o inner[k]
  <2> SUFFICES ASSUME NEW k \in 1..n PROVE h[k] = h[k - 1] \o inner[k]
    OBVIOUS
  <2>1. k - 1 \in 0..n /\ k \in 0..n
    OBVIOUS
  <2>2. g[k - 1] \in Seq(Seq(X)) /\ seqs[k] \in Seq(Seq(X)) /\ g[k] = g[k - 1] \o seqs[k]
    BY <1>2, <2>1
  <2>3. FlattenSeq(g[k]) = FlattenSeq(g[k - 1]) \o FlattenSeq(seqs[k])
    BY <2>2, FlatConcat
  <2> QED
    BY <2>1, <2>3
<1>7. h[n] = FlattenSeq(FlattenSeq(seqs))
  BY <1>2
<1> HIDE DEF h, inner
<1>8. FlattenSeq(inner) = h[n]
  BY <1>4, <1>5, <1>6, FlatSteps
<1> QED
  BY <1>7, <1>8 DEF inner
=============================================================================
