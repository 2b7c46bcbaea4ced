---------------------------- MODULE NumberLemmas ----------------------------
(***************************************************************************)
(* Lemmas that several proofs need: least and greatest elements of sets of *)
(* integers, the median of Samples, and sums over finite sets.             *)
(***************************************************************************)
EXTENDS Samples, FiniteSetsExt, TLAPS, FiniteSetTheorems, SequenceTheorems

\* A set of naturals that is not empty has a least element.
LEMMA LeastNatural ==
    ASSUME NEW S \in SUBSET Nat, S # {}
    PROVE  \E x \in S : \A y \in S : x =< y
<1>1. PICK R : R = OpToRel(<, Nat)
  OBVIOUS
<1>2. PICK x \in S : \A y \in S : ~(<<y, x>> \in R)
  <2>1. IsWellFoundedOn(R, Nat)
    BY <1>1, NatLessThanWellFounded
  <2> QED BY <2>1, WFMin
<1>3. ASSUME NEW y \in S PROVE x =< y
  <2>1. R = {p \in Nat \X Nat : p[1] < p[2]}
    BY <1>1 DEF OpToRel
  <2>2. x \in Nat /\ y \in Nat
    OBVIOUS
  <2>3. y < x => <<y, x>> \in R
    BY <2>1, <2>2
  <2> QED BY <1>2, <2>2, <2>3
<1> QED BY <1>3

\* A set of integers of an interval that is not empty has a greatest element.
LEMMA MaxOfInterval ==
    ASSUME NEW a \in Int, NEW b \in Int, NEW S \in SUBSET (a..b), S # {}
    PROVE  Max(S) \in S /\ \A x \in S : x =< Max(S)
<1> DEFINE D == {n \in Nat : b - n \in S}
<1>1. D # {}
  <2>1. PICK x \in S : TRUE
    OBVIOUS
  <2>2. b - x \in Nat /\ b - (b - x) = x
    BY <2>1
  <2> QED BY <2>1, <2>2
<1>2. PICK n \in D : \A m \in D : n =< m
  <2> HIDE DEF D
  <2>1. D \in SUBSET Nat
    BY DEF D
  <2> QED BY <2>1, <1>1, LeastNatural
<1>3. ASSUME NEW x \in S PROVE x =< b - n
  <2>1. b - x \in D /\ x \in Int /\ n \in Nat
    BY <1>2, <1>3
  <2>2. n =< b - x
    BY <1>2, <2>1
  <2> HIDE DEF D
  <2> QED BY <2>1, <2>2
<1>4. \E x \in S : \A y \in S : x >= y
  BY <1>2, <1>3
<1> QED BY <1>4 DEF Max

\* And a least one.
LEMMA MinOfInterval ==
    ASSUME NEW a \in Int, NEW b \in Int, NEW S \in SUBSET (a..b), S # {}
    PROVE  Min(S) \in S /\ \A x \in S : Min(S) =< x
<1> DEFINE D == {n \in Nat : a + n \in S}
<1>1. D # {}
  <2>1. PICK x \in S : TRUE
    OBVIOUS
  <2>2. x - a \in Nat /\ a + (x - a) = x
    BY <2>1
  <2> QED BY <2>1, <2>2
<1>2. PICK n \in D : \A m \in D : n =< m
  <2> HIDE DEF D
  <2>1. D \in SUBSET Nat
    BY DEF D
  <2> QED BY <2>1, <1>1, LeastNatural
<1>3. ASSUME NEW x \in S PROVE a + n =< x
  <2>1. x - a \in D /\ x \in Int /\ n \in Nat
    BY <1>2, <1>3
  <2>2. n =< x - a
    BY <1>2, <2>1
  <2> HIDE DEF D
  <2> QED BY <2>1, <2>2
<1>4. \E x \in S : \A y \in S : x =< y
  BY <1>2, <1>3
<1> QED BY <1>4 DEF Min

\* The smaller of two.
LEMMA MinOfTwo ==
    ASSUME NEW x \in Int, NEW y \in Int
    PROVE  Min({x, y}) \in Int /\ Min({x, y}) = IF x =< y THEN x ELSE y
<1>1. PICK a \in Int, b \in Int : a =< x /\ a =< y /\ x =< b /\ y =< b
  <2>1. CASE x =< y
    BY <2>1
  <2>2. CASE y =< x
    BY <2>2
  <2> QED BY <2>1, <2>2
<1>2. PICK S : S = {x, y}
  OBVIOUS
<1>3. S \in SUBSET (a..b) /\ S # {}
  <2>1. \A z \in S : z \in Int /\ a =< z /\ z =< b
    BY <1>1, <1>2
  <2>2. \A z \in S : z \in a..b
    BY <2>1
  <2> QED BY <1>2, <2>2
<1>4. Min(S) \in S /\ \A z \in S : Min(S) =< z
  BY <1>3, MinOfInterval
<1> QED BY <1>2, <1>4

\* The last n of a sequence.
LEMMA LastOfType ==
    ASSUME NEW T, NEW s \in Seq(T), NEW n \in Nat \ {0}
    PROVE  LastOf(s, n) \in Seq(T) /\ Len(LastOf(s, n)) =< n /\ (s # <<>> => LastOf(s, n) # <<>>)
<1>1. CASE Len(s) =< n
  BY <1>1 DEF LastOf
<1>2. CASE ~(Len(s) =< n)
  <2>1. PICK first : first = Len(s) - n + 1
    OBVIOUS
  <2>2. first \in Nat \ {0} /\ first =< Len(s) /\ Len(s) - first + 1 = n
    BY <1>2, <2>1
  <2>3. SubSeq(s, first, Len(s)) \in Seq(T) /\ Len(SubSeq(s, first, Len(s))) = n
    BY <2>2
  <2>4. LastOf(s, n) = SubSeq(s, first, Len(s))
    BY <1>2, <2>1 DEF LastOf
  <2>5. PICK last : last = LastOf(s, n)
    OBVIOUS
  <2>6. last \in Seq(T) /\ Len(last) = n
    BY <2>3, <2>4, <2>5
  <2>7. last # <<>>
    <3>1. Len(last) # 0
      BY <2>6
    <3> QED BY <3>1
  <2> QED BY <2>5, <2>6, <2>7
<1> QED BY <1>1, <1>2

-----------------------------------------------------------------------------
(* Medians.                                                                *)

\* The indices of a sequence below and above a value, and how many there are.
LEMMA SidesOf ==
    ASSUME NEW s \in Seq(Int), NEW v \in Int
    PROVE  LET below == {i \in DOMAIN s : s[i] < v}
               above == {i \in DOMAIN s : s[i] > v}
           IN  /\ IsFiniteSet(below) /\ Cardinality(below) \in Nat
               /\ IsFiniteSet(above) /\ Cardinality(above) \in Nat
               /\ Cardinality(DOMAIN s \ above) = Len(s) - Cardinality(above)
<1> DEFINE below == {i \in DOMAIN s : s[i] < v}
           above == {i \in DOMAIN s : s[i] > v}
<1>1. DOMAIN s = 1..Len(s) /\ Len(s) \in Nat
  OBVIOUS
<1>2. IsFiniteSet(DOMAIN s) /\ Cardinality(DOMAIN s) = Len(s)
  BY <1>1, FS_Interval
<1>3. below \subseteq DOMAIN s /\ above \subseteq DOMAIN s
  OBVIOUS
<1> HIDE DEF below, above
<1>4. /\ IsFiniteSet(below) /\ Cardinality(below) \in Nat
      /\ IsFiniteSet(above) /\ Cardinality(above) \in Nat
  BY <1>2, <1>3, FS_Subset, FS_CardinalityType
<1>5. DOMAIN s \cap above = above
  BY <1>3
<1>6. Cardinality(DOMAIN s \ above) = Len(s) - Cardinality(above)
  <2>1. PICK D : D = DOMAIN s
    OBVIOUS
  <2>2. Cardinality(D \ above) = Cardinality(D) - Cardinality(D \cap above)
    BY <1>2, <2>1, FS_Difference
  <2> QED BY <1>2, <1>5, <2>1, <2>2
<1> QED BY <1>4, <1>6 DEF below, above

\* A sequence that is not empty has a middle: of the values with at most half of the
\* samples below them, the greatest has at most half above it, or else the next
\* greater value would have at most half below it too.
LEMMA MiddleExists ==
    ASSUME NEW a \in Int, NEW b \in Int, NEW s \in Seq(a..b), s # <<>>
    PROVE  MiddleOf(s) \in SUBSET (a..b) /\ MiddleOf(s) # {}
<1> DEFINE n == Len(s)
           V == ToSet(s)
           below(v) == {i \in DOMAIN s : s[i] < v}
           above(v) == {i \in DOMAIN s : s[i] > v}
           L == {v \in V : 2 * Cardinality(below(v)) =< n}
<1>1. /\ s \in Seq(Int) /\ n \in Nat
      /\ V \in SUBSET (a..b) /\ V # {}
      /\ \A i \in DOMAIN s : s[i] \in V
  <2>1. s \in Seq(Int) /\ n \in Nat /\ 1 \in DOMAIN s
    OBVIOUS
  <2>2. V = {s[i] : i \in DOMAIN s}
    BY DEF ToSet
  <2>3. \A i \in DOMAIN s : s[i] \in a..b
    OBVIOUS
  <2> HIDE DEF V
  <2> QED BY <2>1, <2>2, <2>3
<1>2. \A v \in V : v \in Int
  BY <1>1
<1>3. MiddleOf(s) = {v \in V : 2 * Cardinality(below(v)) =< n /\ 2 * Cardinality(above(v)) =< n}
  BY DEF MiddleOf
<1> HIDE DEF n, V
<1>4. L # {} /\ L \in SUBSET (a..b)
  <2>1. PICK u \in V : \A v \in V : u =< v
    BY <1>1, MinOfInterval
  <2>2. below(u) = {}
    BY <2>1, <1>1, <1>2
  <2>3. 2 * Cardinality(below(u)) =< n
    <3>1. Cardinality(below(u)) = 0
      BY <2>2, FS_EmptySet
    <3> HIDE DEF below
    <3> QED BY <3>1, <1>1
  <2> QED BY <2>3, <1>1
<1>5. PICK v \in L : \A u \in L : u =< v
  <2> HIDE DEF L
  <2> QED BY <1>4, MaxOfInterval
<1>6. 2 * Cardinality(above(v)) =< n
  <2> SUFFICES ASSUME ~(2 * Cardinality(above(v)) =< n) PROVE FALSE
    OBVIOUS
  <2>0. v \in V /\ v \in Int
    BY <1>2
  <2>1. /\ Cardinality(above(v)) \in Nat
        /\ Cardinality(DOMAIN s \ above(v)) = n - Cardinality(above(v))
    BY <1>1, <2>0, SidesOf DEF n
  <2>2. 2 * Cardinality(DOMAIN s \ above(v)) < n
    BY <2>1, <1>1
  <2>3. above(v) # {}
    <3> SUFFICES ASSUME above(v) = {} PROVE FALSE
      OBVIOUS
    <3>1. Cardinality(above(v)) = 0
      BY FS_EmptySet
    <3> HIDE DEF above
    <3> QED BY <3>1, <1>1
  <2> DEFINE G == {u \in V : u > v}
  <2>4. G # {} /\ G \in SUBSET (a..b)
    BY <2>3, <1>1
  <2>5. PICK u \in G : \A x \in G : u =< x
    <3> HIDE DEF G
    <3> QED BY <2>4, MinOfInterval
  <2>6. below(u) = DOMAIN s \ above(v)
    <3>1. ASSUME NEW i \in DOMAIN s
          PROVE  s[i] < u <=> ~(s[i] > v)
      <4>1. s[i] \in V /\ s[i] \in Int /\ u \in Int /\ u > v
        BY <1>1, <1>2
      <4>2. s[i] > v => u =< s[i]
        BY <4>1, <2>5
      <4> QED BY <4>1, <4>2, <2>0
    <3> QED BY <3>1
  <2>7. u \in L
    <3>1. 2 * Cardinality(below(u)) < n /\ u \in V
      BY <2>2, <2>5, <2>6
    <3>2. Cardinality(below(u)) \in Nat
      BY <3>1, <1>1, <1>2, SidesOf
    <3> HIDE DEF below
    <3> QED BY <3>1, <3>2, <1>1
  <2> QED BY <2>0, <2>5, <2>7, <1>2, <1>5
<1>7. v \in MiddleOf(s)
  BY <1>3, <1>6
<1> QED BY <1>1, <1>3, <1>7

\* The median of samples lies between any bounds of them.
LEMMA MedianInBounds ==
    ASSUME NEW a \in Int, NEW b \in Int, NEW s \in Seq(a..b), s # <<>>
    PROVE  Median(s) \in a..b
<1>1. PICK M : M = MiddleOf(s)
  OBVIOUS
<1>2. M \in SUBSET (a..b) /\ M # {}
  BY <1>1, MiddleExists
<1>3. Min(M) \in a..b /\ Max(M) \in a..b
  BY <1>2, MinOfInterval, MaxOfInterval
<1>4. \A x, y \in a..b : (x + y) \div 2 \in a..b
  OBVIOUS
<1> QED BY <1>1, <1>3, <1>4 DEF Median

\* So does that of samples from a set within the bounds.
LEMMA MedianOfSamples ==
    ASSUME NEW a \in Int, NEW b \in Int, NEW S \in SUBSET (a..b), NEW s \in Seq(S), s # <<>>
    PROVE  Median(s) \in Int /\ Median(s) \in a..b
<1>1. PICK T : T = a..b
  OBVIOUS
<1>2. s \in Seq(T)
  BY <1>1, SeqMonotonic
<1>3. s \in Seq(a..b)
  BY <1>1, <1>2
<1>4. Median(s) \in a..b
  BY <1>3, MedianInBounds
<1> QED BY <1>4

-----------------------------------------------------------------------------
(* Sums over a finite set.  Induction over its subsets is a set of those   *)
(* for which a claim holds, since a claim cannot be a parameter.           *)

\* A set Good of subsets of S has all of them, if it has each one of which it has
\* all smaller ones.
LEMMA AllSubsets ==
    ASSUME NEW S, IsFiniteSet(S), NEW Good,
           \A T \in SUBSET S : (\A U \in SUBSET T : U # T => U \in Good) => T \in Good
    PROVE  \A T \in SUBSET S : T \in Good
<1> DEFINE Bad == {n \in Nat : \E T \in SUBSET S : T \notin Good /\ Cardinality(T) = n}
<1> SUFFICES ASSUME NEW R \in SUBSET S, R \notin Good PROVE FALSE
  OBVIOUS
<1>1. Cardinality(R) \in Bad
  BY FS_Subset, FS_CardinalityType
<1>2. PICK n \in Bad : \A m \in Bad : n =< m
  <2>1. Bad \in SUBSET Nat /\ Bad # {}
    BY <1>1
  <2> HIDE DEF Bad
  <2> QED BY <2>1, LeastNatural
<1>3. PICK T \in SUBSET S : T \notin Good /\ Cardinality(T) = n
  BY <1>2
<1>4. PICK U \in SUBSET T : U # T /\ U \notin Good
  BY <1>3
<1>5. IsFiniteSet(T) /\ IsFiniteSet(U)
  BY FS_Subset
<1>6. Cardinality(U) =< Cardinality(T) /\ Cardinality(U) # Cardinality(T)
  BY <1>4, <1>5, FS_Subset
<1>7. Cardinality(U) \in Nat /\ Cardinality(T) \in Nat
  BY <1>5, FS_CardinalityType
<1>8. Cardinality(U) \in Bad
  BY <1>4, <1>7
<1> HIDE DEF Bad
<1> QED BY <1>2, <1>3, <1>6, <1>7, <1>8

\* The sum of f over S.
SumOf(f, S) == MapThenSumSet(LAMBDA x : f[x], S)

First(s) == CHOOSE x \in s : TRUE

\* g sums f over every subset of S, one element after the other.
Sums(g, f, S) ==
    g = [s \in SUBSET S |-> IF s = {} THEN 0 ELSE f[First(s)] + g[s \ {First(s)}]]

Summing(f, S) == CHOOSE g : Sums(g, f, S)

\* The sum is the last step of such a function, if there is one.
LEMMA SumIsLast == \A f, S : SumOf(f, S) = Summing(f, S)[S]
BY DEF SumOf, MapThenSumSet, MapThenFoldSet, Summing, Sums, First

\* There is at most one, and it sums over subsets of subsets as well.
LEMMA SumsAgree ==
    ASSUME NEW f, NEW S, IsFiniteSet(S), NEW T \in SUBSET S, NEW g, NEW h,
           Sums(g, f, S), Sums(h, f, T)
    PROVE  \A s \in SUBSET T : g[s] = h[s]
<1> DEFINE Good == {s \in SUBSET T : g[s] = h[s]}
<1>1. ASSUME NEW s \in SUBSET T, \A u \in SUBSET s : u # s => u \in Good
      PROVE  s \in Good
  <2>1. CASE s = {}
    BY <2>1 DEF Sums
  <2>2. CASE s # {}
    <3>1. First(s) \in s
      BY <2>2 DEF First
    <3>2. PICK r : r = s \ {First(s)}
      OBVIOUS
    <3>3. r \in SUBSET s /\ r # s
      BY <3>1, <3>2
    <3>4. g[r] = h[r]
      BY <1>1, <3>3
    <3>5. g[s] = f[First(s)] + g[r] /\ h[s] = f[First(s)] + h[r]
      BY <2>2, <3>2 DEF Sums
    <3> QED BY <3>4, <3>5
  <2> QED BY <2>1, <2>2
<1>2. IsFiniteSet(T)
  BY FS_Subset
<1> HIDE DEF Good
<1>3. \A s \in SUBSET T : s \in Good
  BY <1>1, <1>2, AllSubsets
<1> QED BY <1>3 DEF Good

\* There is one.
LEMMA SumsExist ==
    ASSUME NEW f, NEW S, IsFiniteSet(S)
    PROVE  \A T \in SUBSET S : Sums(Summing(f, T), f, T)
<1> DEFINE Good == {T \in SUBSET S : Sums(Summing(f, T), f, T)}
<1>1. ASSUME NEW T \in SUBSET S, \A U \in SUBSET T : U # T => U \in Good
      PROVE  T \in Good
  <2> DEFINE LastStep(U) == Summing(f, U)[U]
             g == [s \in SUBSET T |-> IF s = {} THEN 0
                                      ELSE f[First(s)] + LastStep(s \ {First(s)})]
  <2>1. \A U \in SUBSET T : U # T => Sums(Summing(f, U), f, U)
    BY <1>1
  <2>2. ASSUME NEW U \in SUBSET T, U # T
        PROVE  g[U] = LastStep(U)
    <3>1. CASE U = {}
      <4>1. LastStep(U) = 0
        BY <2>1, <2>2, <3>1 DEF Sums
      <4> QED BY <3>1, <4>1
    <3>2. CASE U # {}
      <4>1. PICK x : x = First(U)
        OBVIOUS
      <4>2. x \in U
        BY <3>2, <4>1 DEF First
      <4>3. PICK r : r = U \ {x}
        OBVIOUS
      <4>4. r \in SUBSET U /\ r \in SUBSET T /\ r # T
        BY <2>2, <4>3
      <4>5. Sums(Summing(f, U), f, U) /\ Sums(Summing(f, r), f, r)
        BY <2>1, <2>2, <4>4
      <4>6. IsFiniteSet(U)
        <5>1. U \in SUBSET S
          OBVIOUS
        <5> QED BY <5>1, FS_Subset
      <4>7. Summing(f, U)[r] = LastStep(r)
        <5>1. r \in SUBSET r
          OBVIOUS
        <5> QED BY <4>4, <4>5, <4>6, <5>1, SumsAgree
      <4>8. LastStep(U) = f[x] + Summing(f, U)[r]
        <5>1. PICK h : h = Summing(f, U)
          OBVIOUS
        <5>2. h[U] = f[x] + h[r]
          BY <3>2, <4>1, <4>3, <4>5, <5>1 DEF Sums
        <5> QED BY <5>1, <5>2
      <4>9. g[U] = f[x] + LastStep(r)
        BY <3>2, <4>1, <4>3
      <4> QED BY <4>7, <4>8, <4>9
    <3> QED BY <3>1, <3>2
  <2>3. Sums(g, f, T)
    <3>1. ASSUME NEW s \in SUBSET T, s # {}
          PROVE  g[s \ {First(s)}] = LastStep(s \ {First(s)})
      <4>1. First(s) \in s
        BY <3>1 DEF First
      <4>2. PICK r : r = s \ {First(s)}
        OBVIOUS
      <4>3. r \in SUBSET T /\ r # T
        BY <4>1, <4>2
      <4> HIDE DEF g, LastStep
      <4> QED BY <2>2, <4>2, <4>3
    <3>2. PICK h : h = g
      OBVIOUS
    <3>3. h = [s \in SUBSET T |-> IF s = {} THEN 0
                                  ELSE f[First(s)] + LastStep(s \ {First(s)})]
      BY <3>2
    <3>4. \A s \in SUBSET T : s # {} => h[s \ {First(s)}] = LastStep(s \ {First(s)})
      BY <3>1, <3>2
    <3> HIDE DEF g, LastStep
    <3>5. h = [s \in SUBSET T |-> IF s = {} THEN 0 ELSE f[First(s)] + h[s \ {First(s)}]]
      BY <3>3, <3>4
    <3> QED BY <3>2, <3>5 DEF Sums
  <2> HIDE DEF g, LastStep
  <2>4. Sums(Summing(f, T), f, T)
    BY <2>3 DEF Summing
  <2> QED BY <2>4
<1> HIDE DEF Good
<1>2. \A T \in SUBSET S : T \in Good
  BY <1>1, AllSubsets
<1> QED BY <1>2 DEF Good

\* The sum over the empty set, and over any other the first element first.
LEMMA SumFirst ==
    ASSUME NEW f, NEW S, IsFiniteSet(S)
    PROVE  /\ SumOf(f, {}) = 0
           /\ S # {} => First(S) \in S /\ SumOf(f, S) = f[First(S)] + SumOf(f, S \ {First(S)})
<1>1. \A T \in SUBSET S : Sums(Summing(f, T), f, T)
  BY SumsExist
<1>2. SumOf(f, {}) = 0
  <2>1. PICK h : h = Summing(f, {})
    OBVIOUS
  <2>2. h[{}] = 0
    BY <1>1, <2>1 DEF Sums
  <2> QED BY <2>1, <2>2, SumIsLast
<1>3. ASSUME S # {}
      PROVE  First(S) \in S /\ SumOf(f, S) = f[First(S)] + SumOf(f, S \ {First(S)})
  <2>1. First(S) \in S
    BY <1>3 DEF First
  <2>2. PICK r : r = S \ {First(S)}
    OBVIOUS
  <2>3. r \in SUBSET S /\ S \in SUBSET S /\ r \in SUBSET r
    BY <2>2
  <2>4. PICK h : h = Summing(f, S)
    OBVIOUS
  <2>5. Sums(h, f, S) /\ Sums(Summing(f, r), f, r)
    BY <1>1, <2>3, <2>4
  <2>6. h[r] = Summing(f, r)[r]
    BY <2>3, <2>5, SumsAgree
  <2>7. h[S] = f[First(S)] + h[r]
    BY <1>3, <2>2, <2>5 DEF Sums
  <2> QED BY <2>1, <2>2, <2>4, <2>6, <2>7, SumIsLast
<1> QED BY <1>2, <1>3

\* A sum of integers is one, and of naturals a natural.
LEMMA SumType ==
    ASSUME NEW f, NEW S, IsFiniteSet(S)
    PROVE  /\ (\A x \in S : f[x] \in Int) => SumOf(f, S) \in Int
           /\ (\A x \in S : f[x] \in Nat) => SumOf(f, S) \in Nat
<1>1. ASSUME NEW N, N = Int \/ N = Nat, \A x \in S : f[x] \in N
      PROVE  SumOf(f, S) \in N
  <2> DEFINE Good == {T \in SUBSET S : SumOf(f, T) \in N}
  <2>1. ASSUME NEW T \in SUBSET S, \A U \in SUBSET T : U # T => U \in Good
        PROVE  T \in Good
    <3>1. IsFiniteSet(T) /\ 0 \in N
      BY <1>1, FS_Subset
    <3>2. CASE T = {}
      BY <3>1, <3>2, SumFirst
    <3>3. CASE T # {}
      <4>1. PICK x : x = First(T)
        OBVIOUS
      <4>2. PICK u : u = SumOf(f, T \ {x})
        OBVIOUS
      <4>3. x \in T /\ SumOf(f, T) = f[x] + u
        BY <3>1, <3>3, <4>1, <4>2, SumFirst
      <4>4. u \in N
        BY <2>1, <4>2, <4>3
      <4>5. f[x] \in N /\ f[x] + u \in N
        BY <1>1, <4>3, <4>4
      <4> QED BY <4>3, <4>5
    <3> QED BY <3>2, <3>3
  <2> HIDE DEF Good
  <2>2. \A T \in SUBSET S : T \in Good
    BY <2>1, AllSubsets
  <2> QED BY <2>2 DEF Good
<1> QED BY <1>1

\* Any element may be taken first.
LEMMA SumRemove ==
    ASSUME NEW f, NEW S, IsFiniteSet(S), \A x \in S : f[x] \in Int, NEW y \in S
    PROVE  SumOf(f, S) = f[y] + SumOf(f, S \ {y})
<1> DEFINE Good == {T \in SUBSET S : \A x \in T : SumOf(f, T) = f[x] + SumOf(f, T \ {x})}
<1>1. ASSUME NEW T \in SUBSET S, \A U \in SUBSET T : U # T => U \in Good
      PROVE  T \in Good
  <2>1. ASSUME NEW x \in T
        PROVE  SumOf(f, T) = f[x] + SumOf(f, T \ {x})
    <3>1. IsFiniteSet(T)
      BY FS_Subset
    <3>2. PICK a : a = First(T)
      OBVIOUS
    <3>3. a \in T /\ SumOf(f, T) = f[a] + SumOf(f, T \ {a})
      BY <2>1, <3>1, <3>2, SumFirst
    <3>4. ASSUME a # x
          PROVE  SumOf(f, T) = f[x] + SumOf(f, T \ {x})
      <4>1. T \ {a} \in Good /\ T \ {x} \in Good
        BY <1>1, <3>3
      <4>2. PICK u : u = SumOf(f, T \ {a, x})
        OBVIOUS
      <4>3. (T \ {a}) \ {x} = T \ {a, x} /\ (T \ {x}) \ {a} = T \ {a, x}
        OBVIOUS
      <4>4. SumOf(f, T \ {a}) = f[x] + u
        BY <3>4, <4>1, <4>2, <4>3
      <4>5. SumOf(f, T \ {x}) = f[a] + u
        BY <3>3, <3>4, <4>1, <4>2, <4>3
      <4>6. u \in Int
        <5>1. IsFiniteSet(T \ {a, x}) /\ \A z \in T \ {a, x} : f[z] \in Int
          BY <3>1, FS_Subset
        <5> QED BY <4>2, <5>1, SumType
      <4>7. f[a] \in Int /\ f[x] \in Int
        BY <3>3
      <4> HIDE DEF Good
      <4> QED BY <3>3, <4>4, <4>5, <4>6, <4>7
    <3> QED BY <3>3, <3>4
  <2> QED BY <2>1
<1> HIDE DEF Good
<1>2. \A T \in SUBSET S : T \in Good
  BY <1>1, AllSubsets
<1> QED BY <1>2 DEF Good

\* Equal terms have equal sums.
LEMMA SumSame ==
    ASSUME NEW f, NEW g, NEW S, IsFiniteSet(S), \A x \in S : f[x] = g[x]
    PROVE  SumOf(f, S) = SumOf(g, S)
<1> DEFINE Good == {T \in SUBSET S : SumOf(f, T) = SumOf(g, T)}
<1>1. ASSUME NEW T \in SUBSET S, \A U \in SUBSET T : U # T => U \in Good
      PROVE  T \in Good
  <2>1. IsFiniteSet(T)
    BY FS_Subset
  <2>2. CASE T = {}
    BY <2>1, <2>2, SumFirst
  <2>3. CASE T # {}
    <3>1. PICK x : x = First(T)
      OBVIOUS
    <3>2. /\ x \in T
          /\ SumOf(f, T) = f[x] + SumOf(f, T \ {x})
          /\ SumOf(g, T) = g[x] + SumOf(g, T \ {x})
      BY <2>1, <2>3, <3>1, SumFirst
    <3>3. SumOf(f, T \ {x}) = SumOf(g, T \ {x})
      BY <1>1, <3>2
    <3> QED BY <3>2, <3>3
  <2> QED BY <2>2, <2>3
<1> HIDE DEF Good
<1>2. \A T \in SUBSET S : T \in Good
  BY <1>1, AllSubsets
<1> QED BY <1>2 DEF Good

\* The sum over two disjoint sets.
LEMMA SumDisjoint ==
    ASSUME NEW f, NEW S, NEW R, IsFiniteSet(S), IsFiniteSet(R), S \cap R = {},
           \A x \in S \cup R : f[x] \in Int
    PROVE  SumOf(f, S \cup R) = SumOf(f, S) + SumOf(f, R)
<1> DEFINE Good == {T \in SUBSET S : SumOf(f, T \cup R) = SumOf(f, T) + SumOf(f, R)}
<1>0. SumOf(f, R) \in Int
  BY SumType
<1>1. ASSUME NEW T \in SUBSET S, \A U \in SUBSET T : U # T => U \in Good
      PROVE  T \in Good
  <2>1. IsFiniteSet(T) /\ IsFiniteSet(T \cup R)
    BY FS_Subset, FS_Union
  <2>2. ASSUME T = {}
        PROVE  SumOf(f, T \cup R) = SumOf(f, T) + SumOf(f, R)
    <3>1. PICK r : r = SumOf(f, R)
      OBVIOUS
    <3>2. SumOf(f, T \cup R) = r
      <4>1. T \cup R = R
        BY <2>2
      <4> QED BY <3>1, <4>1
    <3>3. SumOf(f, T) = 0
      BY <2>1, <2>2, SumFirst
    <3> QED BY <1>0, <3>1, <3>2, <3>3
  <2>3. ASSUME NEW x \in T
        PROVE  SumOf(f, T \cup R) = SumOf(f, T) + SumOf(f, R)
    <3>1. (T \cup R) \ {x} = (T \ {x}) \cup R
      OBVIOUS
    <3>2. SumOf(f, T \cup R) = f[x] + SumOf(f, (T \ {x}) \cup R)
      <4>1. \A z \in T \cup R : f[z] \in Int
        OBVIOUS
      <4> QED BY <2>1, <3>1, <4>1, SumRemove
    <3>3. SumOf(f, T) = f[x] + SumOf(f, T \ {x})
      BY <2>1, SumRemove
    <3>4. SumOf(f, (T \ {x}) \cup R) = SumOf(f, T \ {x}) + SumOf(f, R)
      BY <1>1, <2>3
    <3>5. SumOf(f, T \ {x}) \in Int /\ f[x] \in Int
      <4>1. IsFiniteSet(T \ {x}) /\ \A z \in T \ {x} : f[z] \in Int
        BY <2>1, FS_Subset
      <4> QED BY <4>1, SumType
    <3> HIDE DEF Good
    <3> QED BY <1>0, <3>2, <3>3, <3>4, <3>5
  <2> QED BY <2>2, <2>3
<1> HIDE DEF Good
<1>2. \A T \in SUBSET S : T \in Good
  BY <1>1, AllSubsets
<1> QED BY <1>2 DEF Good

\* Terms that are zero may be left out.
LEMMA SumWithoutZeros ==
    ASSUME NEW f, NEW S, NEW R, IsFiniteSet(S), R \in SUBSET S,
           \A x \in R : f[x] \in Int, \A x \in S \ R : f[x] = 0
    PROVE  SumOf(f, S) = SumOf(f, R)
<1> DEFINE zero == [x \in S |-> 0]
           Good == {T \in SUBSET S : SumOf(zero, T) = 0}
<1>1. ASSUME NEW T \in SUBSET S, \A U \in SUBSET T : U # T => U \in Good
      PROVE  T \in Good
  <2>1. IsFiniteSet(T)
    BY FS_Subset
  <2>2. CASE T = {}
    BY <2>1, <2>2, SumFirst
  <2>3. CASE T # {}
    <3>1. PICK x : x = First(T)
      OBVIOUS
    <3>2. x \in T /\ SumOf(zero, T) = zero[x] + SumOf(zero, T \ {x})
      BY <2>1, <2>3, <3>1, SumFirst
    <3>3. SumOf(zero, T \ {x}) = 0
      BY <1>1, <3>2
    <3>4. zero[x] = 0
      BY <3>2
    <3> HIDE DEF zero
    <3>5. SumOf(zero, T) = 0
      BY <3>2, <3>3, <3>4
    <3> QED BY <3>5
  <2> QED BY <2>2, <2>3
<1>2. \A T \in SUBSET S : SumOf(zero, T) = 0
  <2> HIDE DEF Good
  <2>1. \A T \in SUBSET S : T \in Good
    BY <1>1, AllSubsets
  <2> QED BY <2>1 DEF Good
<1>3. IsFiniteSet(R) /\ IsFiniteSet(S \ R)
  BY FS_Subset
<1>4. SumOf(f, S \ R) = 0
  <2>1. \A x \in S \ R : f[x] = zero[x]
    OBVIOUS
  <2> HIDE DEF zero
  <2>2. SumOf(f, S \ R) = SumOf(zero, S \ R)
    BY <1>3, <2>1, SumSame
  <2> QED BY <1>2, <2>2
<1>5. (S \ R) \cup R = S /\ (S \ R) \cap R = {}
  OBVIOUS
<1>6. \A x \in (S \ R) \cup R : f[x] \in Int
  OBVIOUS
<1>7. PICK r : r = SumOf(f, R)
  OBVIOUS
<1>8. SumOf(f, (S \ R) \cup R) = SumOf(f, S \ R) + r
  BY <1>3, <1>5, <1>6, <1>7, SumDisjoint
<1>9. r \in Int
  BY <1>3, <1>7, SumType
<1> HIDE DEF zero, Good
<1>10. SumOf(f, (S \ R) \cup R) = r
  BY <1>4, <1>8, <1>9
<1> QED BY <1>5, <1>7, <1>10

\* As many ones.
LEMMA SumOfOnes ==
    ASSUME NEW f, NEW S, IsFiniteSet(S), \A x \in S : f[x] = 1
    PROVE  SumOf(f, S) = Cardinality(S)
<1> DEFINE Good == {T \in SUBSET S : SumOf(f, T) = Cardinality(T)}
<1>1. ASSUME NEW T \in SUBSET S, \A U \in SUBSET T : U # T => U \in Good
      PROVE  T \in Good
  <2>1. IsFiniteSet(T)
    BY FS_Subset
  <2>2. CASE T = {}
    BY <2>1, <2>2, SumFirst, FS_EmptySet
  <2>3. CASE T # {}
    <3>1. PICK x : x = First(T)
      OBVIOUS
    <3>2. x \in T /\ SumOf(f, T) = f[x] + SumOf(f, T \ {x})
      BY <2>1, <2>3, <3>1, SumFirst
    <3>3. SumOf(f, T \ {x}) = Cardinality(T \ {x})
      BY <1>1, <3>2
    <3>4. Cardinality(T \ {x}) = Cardinality(T) - 1 /\ Cardinality(T) \in Nat
      BY <2>1, <3>2, FS_RemoveElement, FS_CardinalityType
    <3> QED BY <3>2, <3>3, <3>4
  <2> QED BY <2>2, <2>3
<1> HIDE DEF Good
<1>2. \A T \in SUBSET S : T \in Good
  BY <1>1, AllSubsets
<1> QED BY <1>2 DEF Good

\* A sum is the sum of the sums of its parts, one part for each key.
LEMMA SumOfParts ==
    ASSUME NEW f, NEW S, IsFiniteSet(S), \A x \in S : f[x] \in Int,
           NEW K, IsFiniteSet(K), NEW key, \A x \in S : key[x] \in K,
           NEW g, \A k \in K : g[k] = SumOf(f, {x \in S : key[x] = k})
    PROVE  SumOf(g, K) = SumOf(f, S)
<1> DEFINE Of(T) == {x \in S : key[x] \in T}
           Good == {T \in SUBSET K : SumOf(g, T) = SumOf(f, Of(T))}
<1>1. ASSUME NEW T \in SUBSET K, \A U \in SUBSET T : U # T => U \in Good
      PROVE  T \in Good
  <2>1. IsFiniteSet(T)
    BY FS_Subset
  <2>2. ASSUME T = {}
        PROVE  SumOf(g, T) = SumOf(f, Of(T))
    <3>1. Of(T) = {}
      BY <2>2
    <3> HIDE DEF Of
    <3> QED BY <2>1, <2>2, <3>1, SumFirst
  <2>3. ASSUME T # {}
        PROVE  SumOf(g, T) = SumOf(f, Of(T))
    <3>1. PICK k : k = First(T)
      OBVIOUS
    <3>2. k \in T /\ SumOf(g, T) = g[k] + SumOf(g, T \ {k})
      BY <2>1, <2>3, <3>1, SumFirst
    <3>3. SumOf(g, T \ {k}) = SumOf(f, Of(T \ {k}))
      BY <1>1, <3>2
    <3>4. PICK A : A = {x \in S : key[x] = k}
      OBVIOUS
    <3>5. g[k] = SumOf(f, A)
      BY <3>2, <3>4
    <3>6. /\ Of(T) = A \cup Of(T \ {k}) /\ A \cap Of(T \ {k}) = {}
          /\ A \subseteq S /\ Of(T \ {k}) \subseteq S
      BY <3>2, <3>4
    <3> HIDE DEF Of, Good
    <3>7. IsFiniteSet(A) /\ IsFiniteSet(Of(T \ {k}))
      BY <3>6, FS_Subset
    <3>8. \A x \in A \cup Of(T \ {k}) : f[x] \in Int
      BY <3>6
    <3>9. SumOf(f, Of(T)) = SumOf(f, A) + SumOf(f, Of(T \ {k}))
      <4>1. PICK B : B = Of(T \ {k})
        OBVIOUS
      <4>2. SumOf(f, A \cup B) = SumOf(f, A) + SumOf(f, B)
        BY <3>6, <3>7, <3>8, <4>1, SumDisjoint
      <4>3. Of(T) = A \cup B
        BY <3>6, <4>1
      <4> QED BY <4>1, <4>2, <4>3
    <3> QED BY <3>2, <3>3, <3>5, <3>9
  <2> QED BY <2>2, <2>3
<1>2. \A T \in SUBSET K : SumOf(g, T) = SumOf(f, Of(T))
  <2> HIDE DEF Good
  <2>1. \A T \in SUBSET K : T \in Good
    BY <1>1, AllSubsets
  <2> QED BY <2>1 DEF Good
<1>3. Of(K) = S /\ K \in SUBSET K
  OBVIOUS
<1> QED BY <1>2, <1>3
=============================================================================
