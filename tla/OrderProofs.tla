------------------------------ MODULE OrderProofs ------------------------------
(***************************************************************************)
(* Facts about numbers and ordered sets that the proofs share.  Induction  *)
(* is by a least counterexample, which needs no operator as a parameter.   *)
(***************************************************************************)
EXTENDS Naturals, Sequences, SequencesExt, FiniteSets, FiniteSetTheorems,
        WellFoundedInduction, TLAPS

\* Every set of numbers that is not empty has a least one.
LEMMA LeastNumber ==
  ASSUME NEW S, S \subseteq Nat, S # {}
  PROVE  \E n \in S : \A m \in S : n <= m
<1>1. PICK n \in S : \A m \in S : ~(<<m, n>> \in OpToRel(<, Nat))
  BY NatLessThanWellFounded, WFMin
<1>2. \A m \in S : m < n => <<m, n>> \in OpToRel(<, Nat)
  BY DEF OpToRel
<1>3. \A m \in S : ~(m < n)
  BY <1>1, <1>2, Zenon
<1> QED BY <1>3

\* A set of numbers that is bounded and not empty has a largest one.
LEMMA LargestNumber ==
  ASSUME NEW n \in Nat, NEW S, S \subseteq 0..n, S # {}
  PROVE  \E k \in S : \A m \in S : m <= k
<1> DEFINE D == {d \in Nat : n - d \in S}
<1>1. D # {}
  <2>1. PICK k : k \in S
    OBVIOUS
  <2>2. n - k \in Nat /\ n - (n - k) = k
    BY <2>1
  <2> QED BY <2>1, <2>2
<1>2. PICK d \in D : \A e \in D : d <= e
  BY <1>1, LeastNumber
<1>3. ASSUME NEW m \in S PROVE m <= n - d
  <2>1. n - m \in Nat /\ n - (n - m) = m /\ m \in Nat
    BY <1>3
  <2>2. d <= n - m
    BY <1>2, <1>3, <2>1
  <2> QED BY <2>1, <2>2
<1> QED BY <1>3

\* R orders the elements of E, strictly and totally.
Orders(R, E) ==
  /\ \A x, y \in E : x # y => (<<x, y>> \in R \/ <<y, x>> \in R)
  /\ \A x, y, z \in E : <<x, y>> \in R /\ <<y, z>> \in R => <<x, z>> \in R

Sorted(s, R) == \A k, l \in DOMAIN s : k < l => <<s[k], s[l]>> \in R

\* An element can be put in its place among others that are sorted.
LEMMA Insert ==
  ASSUME NEW T, NEW R, Orders(R, T), NEW x \in T, NEW n \in Nat,
         NEW s \in [1..n -> T \ {x}], Sorted(s, R),
         \A k, l \in 1..n : k # l => s[k] # s[l]
  PROVE  \E g \in [1..(n + 1) -> T] :
            Sorted(g, R) /\ \A k, l \in 1..(n + 1) : k # l => g[k] # g[l]
<1> DEFINE P == {k \in 1..n : <<x, s[k]>> \in R} \cup {n + 1}
<1>0. P \subseteq Nat /\ P # {}
  BY SMTT(30)
<1>1. PICK p \in P : \A k \in P : p <= k
  BY <1>0, LeastNumber
<1>2. p \in 1..(n + 1)
  OBVIOUS
<1>3. \A k \in 1..n : k < p => <<s[k], x>> \in R
  <2> TAKE k \in 1..n
  <2> HAVE k < p
  <2>1. ~(<<x, s[k]>> \in R)
    BY <1>1, <1>2
  <2> QED BY <2>1 DEF Orders
<1>4. \A k \in 1..n : k >= p => <<x, s[k]>> \in R
  <2> TAKE k \in 1..n
  <2> HAVE k >= p
  <2>1. p \in 1..n /\ <<x, s[p]>> \in R
    BY <1>2
  <2>2. k = p \/ <<s[p], s[k]>> \in R
    BY <2>1 DEF Sorted
  <2> QED BY <2>1, <2>2 DEF Orders
<1> HIDE DEF P
<1> DEFINE g == [i \in 1..(n + 1) |-> IF i < p THEN s[i] ELSE IF i = p THEN x ELSE s[i - 1]]
<1>5. \A i \in 1..(n + 1) : /\ i < p => i \in 1..n /\ g[i] = s[i]
                            /\ i = p => g[i] = x
                            /\ i > p => i - 1 \in 1..n /\ g[i] = s[i - 1]
  BY <1>2
<1>6. g \in [1..(n + 1) -> T]
  BY <1>2, <1>5
<1>7. DOMAIN g = 1..(n + 1)
  OBVIOUS
<1> HIDE DEF g
<1>8. ASSUME NEW k \in 1..(n + 1), NEW l \in 1..(n + 1), k < l
      PROVE  <<g[k], g[l]>> \in R /\ g[k] # g[l]
  <2>1. CASE l < p
    BY <1>2, <1>5, <1>8, <2>1 DEF Sorted
  <2>2. CASE l = p
    BY <1>2, <1>3, <1>5, <1>8, <2>2
  <2>3. CASE l > p /\ k < p
    <3>1. k \in 1..n /\ l - 1 \in 1..n /\ k < l - 1
      BY <1>2, <2>3
    <3> QED BY <1>5, <2>3, <3>1 DEF Sorted
  <2>4. CASE l > p /\ k = p
    <3>1. l - 1 \in 1..n /\ l - 1 >= p
      BY <1>2, <2>4
    <3> QED BY <1>4, <1>5, <2>4, <3>1
  <2>5. CASE l > p /\ k > p
    <3>1. k - 1 \in 1..n /\ l - 1 \in 1..n /\ k - 1 < l - 1
      BY <1>2, <1>8, <2>5
    <3>2. g[k] = s[k - 1] /\ g[l] = s[l - 1]
      BY <1>5, <2>5
    <3>3. DOMAIN s = 1..n
      OBVIOUS
    <3>4. \A a, b \in 1..n : a < b => <<s[a], s[b]>> \in R /\ s[a] # s[b]
      BY <3>3 DEF Sorted
    <3>5. <<s[k - 1], s[l - 1]>> \in R /\ s[k - 1] # s[l - 1]
      BY <3>1, <3>4
    <3> QED BY <3>2, <3>5
  <2> QED BY <1>2, <2>1, <2>2, <2>3, <2>4, <2>5
<1>9. Sorted(g, R)
  BY <1>7, <1>8 DEF Sorted
<1>10. \A k, l \in 1..(n + 1) : k # l => g[k] # g[l]
  <2> TAKE k, l \in 1..(n + 1)
  <2> HAVE k # l
  <2>1. k < l \/ l < k
    BY <1>2
  <2> QED BY <1>8, <2>1
<1> QED BY <1>6, <1>9, <1>10

\* A finite set that is ordered can be enumerated in that order.
LEMMA SortedExists ==
  ASSUME NEW E, IsFiniteSet(E), NEW R, Orders(R, E)
  PROVE  \E s \in SetToSeqs(E) : Sorted(s, R)
<1> DEFINE Enum(T, n) == \E s \in [1..n -> T] :
                            Sorted(s, R) /\ \A k, l \in 1..n : k # l => s[k] # s[l]
           Bad == {n \in Nat : \E T \in SUBSET E : Cardinality(T) = n /\ ~Enum(T, n)}
<1>1. Bad = {}
  <2> SUFFICES ASSUME Bad # {} PROVE FALSE
    OBVIOUS
  <2>1. PICK n \in Bad : \A m \in Bad : n <= m
    BY LeastNumber
  <2>2. PICK T \in SUBSET E : Cardinality(T) = n /\ ~Enum(T, n)
    OBVIOUS
  <2>3. IsFiniteSet(T)
    BY FS_Subset
  <2>4. n # 0
    <3> SUFFICES ASSUME n = 0 PROVE Enum(T, 0)
      BY <2>2
    <3> DEFINE z == [i \in 1..0 |-> 0]
    <3>1. z \in [1..0 -> T] /\ DOMAIN z = {} /\ 1..0 = {}
      OBVIOUS
    <3> HIDE DEF z
    <3> QED BY <3>1 DEF Sorted
  <2>5. PICK x : x \in T
    BY <2>2, <2>4, FS_EmptySet
  <2>6. Cardinality(T \ {x}) = n - 1 /\ n - 1 \in Nat /\ T \ {x} \in SUBSET E
    <3>1. Cardinality(T \ {x}) = IF x \in T THEN Cardinality(T) - 1 ELSE Cardinality(T)
      BY <2>3, FS_RemoveElement
    <3> QED BY <2>2, <2>4, <2>5, <3>1
  <2>7. Enum(T \ {x}, n - 1)
    BY <2>1, <2>6
  <2>8. Orders(R, T)
    BY DEF Orders
  <2>9. Enum(T, (n - 1) + 1)
    BY <2>5, <2>6, <2>7, <2>8, Insert
  <2> QED BY <2>2, <2>6, <2>9
<1>2. Cardinality(E) \in Nat
  BY FS_CardinalityType
<1>3. Enum(E, Cardinality(E))
  BY <1>1, <1>2
<1> QED BY <1>3 DEF SetToSeqs

\* Enumerations of a finite set miss none of its elements.
LEMMA EnumerationIsOnto ==
  ASSUME NEW E, IsFiniteSet(E), NEW s \in SetToSeqs(E)
  PROVE  /\ s \in Seq(E) /\ DOMAIN s = 1..Cardinality(E) /\ Len(s) = Cardinality(E)
         /\ \A k, l \in DOMAIN s : k # l => s[k] # s[l]
         /\ \A x \in E : \E k \in DOMAIN s : s[k] = x
<1>1. Cardinality(E) \in Nat
  BY FS_CardinalityType
<1>2. s \in [1..Cardinality(E) -> E] /\ \A k, l \in 1..Cardinality(E) : k # l => s[k] # s[l]
  BY DEF SetToSeqs
<1>3. s \in Injection(1..Cardinality(E), E)
  BY <1>2 DEF Injection, IsInjective
<1>4. IsFiniteSet(1..Cardinality(E)) /\ Cardinality(1..Cardinality(E)) = Cardinality(E)
  BY <1>1, FS_Interval
<1>5. s \in Surjection(1..Cardinality(E), E)
  BY <1>3, <1>4, FS_Injection
<1>6. \A x \in E : \E k \in 1..Cardinality(E) : s[k] = x
  BY <1>5 DEF Surjection
<1> QED BY <1>1, <1>2, <1>6
=============================================================================
