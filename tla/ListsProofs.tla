----------------------------- MODULE ListsProofs -----------------------------
(***************************************************************************)
(* What Ordered and Picked return, and the two forms of induction that the *)
(* other proofs need: a nonempty set of naturals has a least element, and  *)
(* a function defined by primitive recursion exists.                       *)
(***************************************************************************)
EXTENDS Lists, FiniteSetTheorems, WellFoundedInduction, TLAPS

-----------------------------------------------------------------------------
(* Induction.  The induction theorems of the library are about operators;  *)
(* its theorems about well-founded relations are about sets.               *)

\* Every nonempty set of natural numbers has a least element.
LEMMA LeastNatural ==
  ASSUME NEW S \in SUBSET Nat, S # {}
  PROVE  \E m \in S : \A n \in S : m <= n
<1> DEFINE R == OpToRel(<, Nat)
<1>1. IsWellFoundedOn(R, Nat)
  BY NatLessThanWellFounded
<1>2. ASSUME NEW m \in Nat, NEW n \in Nat, n < m PROVE <<n, m>> \in R
  BY <1>2 DEF OpToRel
<1> HIDE DEF R
<1>3. PICK m \in S : \A n \in S : <<n, m>> \notin R
  BY <1>1, WFMin
<1>4. ASSUME NEW n \in S PROVE m <= n
  <2>1. m \in Nat /\ n \in Nat
    OBVIOUS
  <2>2. ~(n < m)
    BY <1>2, <1>3, <2>1
  <2> QED
    BY <2>1, <2>2
<1> QED
  BY <1>4

\* Induction up to n over a set.
LEMMA InductionUpTo ==
  ASSUME NEW n \in Nat, NEW S, 0 \in S,
         \A k \in 1..n : k - 1 \in S => k \in S
  PROVE  0..n \subseteq S
<1> DEFINE Bad == {k \in 0..n : k \notin S}
<1>1. SUFFICES ASSUME Bad # {} PROVE FALSE
  OBVIOUS
<1>2. Bad \in SUBSET Nat
  OBVIOUS
<1>3. PICK m \in Bad : \A k \in Bad : m <= k
  BY <1>1, <1>2, LeastNatural
<1>4. m \in 1..n /\ m - 1 \in 0..n /\ ~(m <= m - 1)
  BY <1>3
<1>5. m - 1 \in S
  BY <1>3, <1>4
<1> QED
  BY <1>3, <1>4, <1>5

\* There is a function that starts with "first" and goes on by "step".
LEMMA PrimitiveRecursion ==
  ASSUME NEW V, NEW first \in V, NEW n \in Nat,
         NEW step \in [1..n -> [V -> V]]
  PROVE  \E f \in [0..n -> V] :
            f[0] = first /\ \A k \in 1..n : f[k] = step[k][f[k - 1]]
<1> DEFINE Defined(m) == {f \in [0..m -> V] :
                  f[0] = first /\ \A k \in 1..m : f[k] = step[k][f[k - 1]]}
           Good == {m \in 0..n : Defined(m) # {}}
<1>1. 0 \in Good
  <2>1. [i \in 0..0 |-> first] \in Defined(0)
    OBVIOUS
  <2> QED
    BY <2>1
<1>2. ASSUME NEW m \in 1..n, m - 1 \in Good PROVE m \in Good
  <2>1. PICK f \in [0..m - 1 -> V] :
           f[0] = first /\ \A k \in 1..m - 1 : f[k] = step[k][f[k - 1]]
    BY <1>2
  <2> DEFINE g == [k \in 0..m |-> IF k = m THEN step[m][f[m - 1]] ELSE f[k]]
  <2>2. g \in [0..m -> V]
    BY <2>1
  <2>3. g[0] = first
    BY <2>1
  <2>4. ASSUME NEW k \in 1..m PROVE g[k] = step[k][g[k - 1]]
    <3>1. g[k - 1] = f[k - 1]
      OBVIOUS
    <3>2. CASE k = m
      BY <3>1, <3>2
    <3>3. CASE k # m
      <4>1. k \in 1..m - 1
        BY <3>3
      <4> QED
        BY <2>1, <3>1, <3>3, <4>1
    <3> QED
      BY <3>2, <3>3
  <2> HIDE DEF g
  <2>5. g \in Defined(m)
    <3>1. \A k \in 1..m : g[k] = step[k][g[k - 1]]
      BY <2>4
    <3> QED
      BY <2>2, <2>3, <3>1
  <2>6. m \in 0..n
    OBVIOUS
  <2> HIDE DEF Defined
  <2> QED
    BY <2>5, <2>6
<1>3. n \in Good
  <2> HIDE DEF Good
  <2>1. 0..n \subseteq Good
    BY <1>1, <1>2, InductionUpTo
  <2> QED
    BY <2>1
<1> QED
  BY <1>3

-----------------------------------------------------------------------------
(* Ordered.                                                                *)

StrictlyOrders(below, S) ==
    /\ below \in [S -> SUBSET S]
    /\ \A x \in S : x \notin below[x]
    /\ \A x, y \in S : x \in below[y] => below[x] \subseteq below[y]
    /\ \A x, y \in S : x = y \/ x \in below[y] \/ y \in below[x]

\* Ordered lists each element once, each before those it is to be before.
LEMMA OrderedProperties ==
  ASSUME NEW S, IsFiniteSet(S), NEW below, StrictlyOrders(below, S)
  PROVE  /\ Cardinality(S) \in Nat
         /\ Ordered(S, below) \in [1..Cardinality(S) -> S]
         /\ \A i, j \in 1..Cardinality(S) :
               i < j => Ordered(S, below)[i] \in below[Ordered(S, below)[j]]
         /\ \A x \in S : \E i \in 1..Cardinality(S) : Ordered(S, below)[i] = x
<1> DEFINE n == Cardinality(S)
           rank == [x \in S |-> Cardinality(below[x]) + 1]
<1>1. n \in Nat
  BY FS_CardinalityType
<1>2. ASSUME NEW x \in S
      PROVE  /\ IsFiniteSet(below[x]) /\ Cardinality(below[x]) \in Nat
             /\ Cardinality(below[x]) < n
  <2>1. IsFiniteSet(S \ {x}) /\ Cardinality(S \ {x}) = n - 1
    BY FS_RemoveElement
  <2>2. below[x] \in SUBSET (S \ {x})
    BY DEF StrictlyOrders
  <2>3. IsFiniteSet(below[x]) /\ Cardinality(below[x]) <= Cardinality(S \ {x})
    BY <2>1, <2>2, FS_Subset
  <2>4. Cardinality(below[x]) \in Nat
    BY <2>3, FS_CardinalityType
  <2> QED
    BY <1>1, <2>1, <2>3, <2>4
<1>3. ASSUME NEW x \in S, NEW y \in S, x \in below[y]
      PROVE  rank[x] < rank[y]
  <2>1. /\ IsFiniteSet(below[x] \cup {x})
        /\ Cardinality(below[x] \cup {x}) = Cardinality(below[x]) + 1
    <3>1. x \notin below[x]
      BY DEF StrictlyOrders
    <3> QED
      BY <1>2, <3>1, FS_AddElement
  <2>2. below[x] \cup {x} \in SUBSET below[y]
    BY <1>3 DEF StrictlyOrders
  <2>3. Cardinality(below[x] \cup {x}) <= Cardinality(below[y])
    BY <1>2, <2>2, FS_Subset
  <2> QED
    BY <1>2, <2>1, <2>3
<1>4. rank \in [S -> 1..n]
  <2>1. ASSUME NEW x \in S PROVE Cardinality(below[x]) + 1 \in 1..n
    <3> QED
      BY <1>1, <1>2
  <2> QED
    BY <2>1
<1>5. rank \in Injection(S, 1..n)
  <2> HIDE DEF rank
  <2>1. ASSUME NEW x \in S, NEW y \in S, x # y PROVE rank[x] # rank[y]
    <3>1. rank[x] < rank[y] \/ rank[y] < rank[x]
      BY <1>3, <2>1 DEF StrictlyOrders
    <3>2. rank[x] \in Int /\ rank[y] \in Int
      BY <1>4
    <3> QED
      BY <3>1, <3>2
  <2> QED
    BY <1>4, <2>1 DEF Injection, IsInjective
<1>6. rank \in Surjection(S, 1..n)
  <2>1. IsFiniteSet(1..n) /\ Cardinality(1..n) = n
    BY <1>1, FS_Interval
  <2> HIDE DEF rank
  <2> QED
    BY <1>5, <2>1, FS_Injection
<1>7. ASSUME NEW k \in 1..n
      PROVE  /\ Ordered(S, below)[k] \in S
             /\ rank[Ordered(S, below)[k]] = k
  <2>1. PICK x \in S : rank[x] = k
    BY <1>6 DEF Surjection
  <2>2. Cardinality(below[x]) = k - 1
    <3> QED
      BY <1>2, <2>1
  <2>3. Ordered(S, below)[k] =
           CHOOSE y \in S : Cardinality(below[y]) = k - 1
    BY DEF Ordered
  <2>4. /\ Ordered(S, below)[k] \in S
        /\ Cardinality(below[Ordered(S, below)[k]]) = k - 1
    BY <2>2, <2>3
  <2> QED
    BY <2>4
<1>8. Ordered(S, below) \in [1..n -> S]
  BY <1>7 DEF Ordered
<1> HIDE DEF rank
<1>9. ASSUME NEW i \in 1..n, NEW j \in 1..n, i < j
      PROVE  Ordered(S, below)[i] \in below[Ordered(S, below)[j]]
  <2> DEFINE x == Ordered(S, below)[i]
             y == Ordered(S, below)[j]
  <2>1. x \in S /\ y \in S /\ rank[x] = i /\ rank[y] = j
    BY <1>7
  <2>2. ~(rank[y] < rank[x]) /\ x # y
    BY <1>9, <2>1
  <2>3. y \notin below[x]
    BY <1>3, <2>1, <2>2
  <2> QED
    BY <2>1, <2>2, <2>3 DEF StrictlyOrders
<1>10. ASSUME NEW x \in S PROVE \E i \in 1..n : Ordered(S, below)[i] = x
  <2>1. rank[x] \in 1..n
    BY <1>4
  <2>2. Ordered(S, below)[rank[x]] \in S
        /\ rank[Ordered(S, below)[rank[x]]] = rank[x]
    BY <1>7, <2>1
  <2> QED
    BY <1>5, <2>1, <2>2 DEF Injection, IsInjective
<1> QED
  BY <1>1, <1>8, <1>9, <1>10

-----------------------------------------------------------------------------
(* Picked.                                                                 *)

\* A set of indices is finite and no larger than the list.
LEMMA InInterval ==
  ASSUME NEW n \in Nat, NEW I \in SUBSET (1..n)
  PROVE  IsFiniteSet(I) /\ Cardinality(I) \in Nat /\ Cardinality(I) <= n
<1>1. IsFiniteSet(1..n) /\ Cardinality(1..n) = n
  BY FS_Interval
<1> QED
  BY <1>1, FS_Subset, FS_CardinalityType

\* Picked lists the chosen entries, each once and in the order of s: at is
\* where in s they stand.
LEMMA PickedProperties ==
  ASSUME NEW S, NEW s \in Seq(S), NEW I \in SUBSET (DOMAIN s)
  PROVE  /\ Picked(s, I) \in Seq(S)
         /\ Len(Picked(s, I)) = Cardinality(I)
         /\ Len(Picked(s, I)) <= Len(s)
         /\ \E at \in [1..Cardinality(I) -> I] :
               /\ \A k \in 1..Cardinality(I) : Picked(s, I)[k] = s[at[k]]
               /\ \A j, k \in 1..Cardinality(I) : j < k => at[j] < at[k]
               /\ \A i \in I : \E k \in 1..Cardinality(I) : at[k] = i
<1> DEFINE below == [i \in I |-> {j \in I : j < i}]
           at == Ordered(I, below)
           n == Cardinality(I)
<1>1. Len(s) \in Nat /\ DOMAIN s = 1..Len(s)
  OBVIOUS
<1>2. IsFiniteSet(I) /\ n \in Nat /\ n <= Len(s)
  BY <1>1, InInterval
<1>3. I \subseteq Nat
  BY <1>1
<1>4. StrictlyOrders(below, I)
  BY <1>3 DEF StrictlyOrders
<1>5. /\ at \in [1..n -> I]
      /\ \A j, k \in 1..n : j < k => at[j] \in below[at[k]]
      /\ \A i \in I : \E k \in 1..n : at[k] = i
  <2> HIDE DEF below
  <2> QED
    BY <1>2, <1>4, OrderedProperties
<1>6. \A j, k \in 1..n : j < k => at[j] < at[k]
  <2> HIDE DEF at
  <2> QED
    BY <1>5
<1>7. Picked(s, I) = [k \in DOMAIN at |-> s[at[k]]]
  BY DEF Picked
<1> HIDE DEF at, below
<1>8. /\ Picked(s, I) \in [1..n -> S]
      /\ \A k \in 1..n : Picked(s, I)[k] = s[at[k]]
  BY <1>1, <1>5, <1>7
<1>9. Picked(s, I) \in Seq(S) /\ Len(Picked(s, I)) = n
  BY <1>2, <1>8
<1> QED
  BY <1>2, <1>5, <1>6, <1>8, <1>9

\* What is in Picked is in s, at an index in I, and the other way round.
LEMMA PickedRange ==
  ASSUME NEW S, NEW s \in Seq(S), NEW I \in SUBSET (DOMAIN s)
  PROVE  {Picked(s, I)[k] : k \in DOMAIN Picked(s, I)} = {s[i] : i \in I}
<1>1. PICK at \in [1..Cardinality(I) -> I] :
         /\ \A k \in 1..Cardinality(I) : Picked(s, I)[k] = s[at[k]]
         /\ \A i \in I : \E k \in 1..Cardinality(I) : at[k] = i
  BY PickedProperties
<1>2. DOMAIN Picked(s, I) = 1..Cardinality(I)
  BY PickedProperties
<1> QED
  BY <1>1, <1>2

\* A list without duplicates stays one.
LEMMA PickedDistinct ==
  ASSUME NEW S, NEW s \in Seq(S), NEW I \in SUBSET (DOMAIN s),
         \A i, j \in DOMAIN s : s[i] = s[j] => i = j
  PROVE  \A j, k \in DOMAIN Picked(s, I) :
            Picked(s, I)[j] = Picked(s, I)[k] => j = k
<1>1. PICK at \in [1..Cardinality(I) -> I] :
         /\ \A k \in 1..Cardinality(I) : Picked(s, I)[k] = s[at[k]]
         /\ \A j, k \in 1..Cardinality(I) : j < k => at[j] < at[k]
  BY PickedProperties
<1>2. DOMAIN Picked(s, I) = 1..Cardinality(I) /\ Cardinality(I) \in Nat
  BY PickedProperties
<1>3. ASSUME NEW j \in 1..Cardinality(I), NEW k \in 1..Cardinality(I), j # k
      PROVE  at[j] # at[k] /\ at[j] \in DOMAIN s /\ at[k] \in DOMAIN s
  BY <1>1, <1>3, <1>2
<1> QED
  BY <1>1, <1>2, <1>3

-----------------------------------------------------------------------------
(* Two lists.                                                              *)

LEMMA ConcatenationProperties ==
  ASSUME NEW S, NEW s \in Seq(S), NEW t \in Seq(S)
  PROVE  /\ s \o t \in Seq(S) /\ Len(s \o t) = Len(s) + Len(t)
         /\ DOMAIN (s \o t) = 1..Len(s) + Len(t)
         /\ \A k \in 1..Len(s) : (s \o t)[k] = s[k] /\ s[k] \in Range(s)
         /\ \A k \in 1..Len(s) + Len(t) : k \notin 1..Len(s) =>
               /\ k - Len(s) \in DOMAIN t
               /\ (s \o t)[k] = t[k - Len(s)] /\ t[k - Len(s)] \in Range(t)
<1>1. s \o t \in Seq(S) /\ Len(s \o t) = Len(s) + Len(t)
      /\ DOMAIN (s \o t) = 1..Len(s) + Len(t)
  OBVIOUS
<1>2. \A k \in 1..Len(s) : (s \o t)[k] = s[k] /\ s[k] \in Range(s)
  BY DEF Range
<1>3. \A k \in 1..Len(s) + Len(t) : k \notin 1..Len(s) =>
         /\ k - Len(s) \in DOMAIN t
         /\ (s \o t)[k] = t[k - Len(s)] /\ t[k - Len(s)] \in Range(t)
  BY DEF Range
<1> QED
  BY <1>1, <1>2, <1>3

\* Two lists without duplicates that have no entry in common.
LEMMA ConcatenationIsInjective ==
  ASSUME NEW S, NEW s \in Seq(S), NEW t \in Seq(S),
         IsInjective(s), IsInjective(t), Range(s) \cap Range(t) = {}
  PROVE  s \o t \in Seq(S) /\ IsInjective(s \o t)
<1>1. s \o t \in Seq(S) /\ DOMAIN (s \o t) = 1..Len(s) + Len(t)
  BY ConcatenationProperties
<1>2. \A i \in 1..Len(s) : (s \o t)[i] = s[i] /\ s[i] \in Range(s)
  BY ConcatenationProperties
<1>3. \A i \in 1..Len(s) + Len(t) : i \notin 1..Len(s) =>
         /\ i - Len(s) \in DOMAIN t
         /\ (s \o t)[i] = t[i - Len(s)] /\ t[i - Len(s)] \in Range(t)
  BY ConcatenationProperties
<1>4. ASSUME NEW i \in 1..Len(s) + Len(t), NEW j \in 1..Len(s) + Len(t),
             (s \o t)[i] = (s \o t)[j]
      PROVE  i = j
  <2>1. CASE i \in 1..Len(s) /\ j \in 1..Len(s)
    BY <1>2, <1>4, <2>1 DEF IsInjective
  <2>2. CASE i \notin 1..Len(s) /\ j \notin 1..Len(s)
    <3>1. i - Len(s) = j - Len(s)
      BY <1>3, <1>4, <2>2 DEF IsInjective
    <3> QED
      BY <3>1
  <2>3. CASE i \in 1..Len(s) /\ j \notin 1..Len(s)
    BY <1>2, <1>3, <1>4, <2>3
  <2>4. CASE i \notin 1..Len(s) /\ j \in 1..Len(s)
    BY <1>2, <1>3, <1>4, <2>4
  <2> QED
    BY <2>1, <2>2, <2>3, <2>4
<1> QED
  BY <1>1, <1>4 DEF IsInjective
=============================================================================
