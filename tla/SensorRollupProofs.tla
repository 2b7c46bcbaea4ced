------------------------- MODULE SensorRollupProofs -------------------------
(***************************************************************************)
(* Theorems about SensorRollup and RollupHistory, for every bucket size,   *)
(* lookback, retention and sequence of upserts and failures.               *)
(***************************************************************************)
EXTENDS RollupHistory, NumberLemmas, TLAPS

\* Quotient and remainder.
LEMMA DivMod ==
    ASSUME NEW t \in Nat, NEW n \in Nat \ {0}
    PROVE  /\ t \div n \in Nat
           /\ t % n \in 0..(n - 1)
           /\ t = n * (t \div n) + (t % n)
OBVIOUS

\* Multiplication is monotonic.
LEMMA Multiply ==
    ASSUME NEW a \in Nat, NEW b \in Nat, NEW n \in Nat, a =< b
    PROVE  n * a =< n * b
OBVIOUS

\* A multiple leaves no remainder.
LEMMA MultipleMod ==
    ASSUME NEW n \in Nat \ {0}, NEW k \in Nat
    PROVE  (n * k) % n = 0
OBVIOUS

\* Divisibility is transitive.
LEMMA Divides ==
    ASSUME NEW c \in Nat, NEW m \in Nat \ {0}, NEW n \in Nat \ {0}, c % m = 0, m % n = 0
    PROVE  c % n = 0
<1> DEFINE k == c \div m
           j == m \div n
<1>1. k \in Nat /\ j \in Nat /\ c = m * k /\ m = n * j
  BY DivMod
<1> HIDE DEF k, j
<1>2. c = n * (j * k) /\ j * k \in Nat
  BY <1>1
<1> QED BY <1>2, MultipleMod

\* time_bucket does not cross a bucket boundary.
LEMMA BucketNotBefore ==
    ASSUME NEW t \in Nat, NEW c \in Nat, NEW n \in Nat \ {0}, c % n = 0, t >= c
    PROVE  Bucket(n, t) >= c
<1> DEFINE q == t \div n
           k == c \div n
<1>1. /\ q \in Nat /\ k \in Nat /\ t % n \in 0..(n - 1)
      /\ t = n * q + (t % n) /\ c = n * k
  BY DivMod
<1>2. CASE k =< q
  <2>1. n * k =< n * q
    BY <1>1, <1>2, Multiply
  <2> QED BY <1>1, <2>1 DEF Bucket
<1>3. CASE q + 1 =< k
  <2>1. n * (q + 1) =< n * k
    BY <1>1, <1>3, Multiply
  <2>2. n * (q + 1) = n * q + n
    BY <1>1
  <2> HIDE DEF q, k
  <2> QED BY <1>1, <2>1, <2>2
<1> QED BY <1>1, <1>2, <1>3

\* Numbers have one quotient and remainder.
LEMMA ModOf ==
    ASSUME NEW n \in Nat \ {0}, NEW q \in Nat, NEW r \in 0..(n - 1)
    PROVE  (n * q + r) % n = r
<1>1. PICK t \in Nat : t = n * q + r
  OBVIOUS
<1> DEFINE k == t \div n
<1>2. k \in Nat /\ t % n \in 0..(n - 1) /\ t = n * k + (t % n)
  BY <1>1, DivMod
<1> HIDE DEF k
<1>3. ASSUME k < q PROVE FALSE
  <2>1. n * (k + 1) =< n * q
    BY <1>2, <1>3, Multiply
  <2>2. n * (k + 1) = n * k + n
    BY <1>2
  <2>3. PICK a \in Nat : a = n * q
    OBVIOUS
  <2>4. PICK c \in Nat : c = n * k
    BY <1>2
  <2>5. PICK d \in Nat : d = t % n
    BY <1>2
  <2> QED BY <1>1, <1>2, <2>1, <2>2, <2>3, <2>4, <2>5
<1>4. ASSUME q < k PROVE FALSE
  <2>1. n * (q + 1) =< n * k
    BY <1>2, <1>4, Multiply
  <2>2. n * (q + 1) = n * q + n
    OBVIOUS
  <2>3. PICK a \in Nat : a = n * q
    OBVIOUS
  <2>4. PICK c \in Nat : c = n * k
    BY <1>2
  <2>5. PICK d \in Nat : d = t % n
    BY <1>2
  <2> QED BY <1>1, <1>2, <2>1, <2>2, <2>3, <2>4, <2>5
<1>5. k = q
  BY <1>2, <1>3, <1>4
<1>6. PICK d \in Nat : d = t % n
  BY <1>2
<1>7. PICK a \in Nat : a = n * q
  OBVIOUS
<1> QED BY <1>1, <1>2, <1>5, <1>6, <1>7

\* time_bucket gives the start of a bucket, not after the time.
LEMMA BucketStart ==
    ASSUME NEW n \in Nat \ {0}, NEW t \in Nat
    PROVE  /\ Bucket(n, t) \in 0..t
           /\ Bucket(n, t) % n = 0
           /\ Bucket(n, t) = n * (t \div n)
<1> DEFINE q == t \div n
<1>1. q \in Nat /\ t % n \in 0..(n - 1) /\ t = n * q + (t % n)
  BY DivMod
<1> HIDE DEF q
<1>2. PICK d \in Nat : d = t % n
  BY <1>1
<1>3. PICK a \in Nat : a = n * q
  BY <1>1
<1>4. Bucket(n, t) = n * q
  BY <1>1, <1>2, <1>3 DEF Bucket
<1>5. (n * q) % n = 0
  BY <1>1, MultipleMod
<1>6. t = a + d
  BY <1>1, <1>2, <1>3
<1>7. Bucket(n, t) \in 0..t
  BY <1>3, <1>4, <1>6
<1>8. Bucket(n, t) % n = 0
  BY <1>4, <1>5
<1>9. Bucket(n, t) = n * (t \div n)
  BY <1>4 DEF q
<1> QED BY <1>7, <1>8, <1>9

\* Buckets nest where their sizes do.
LEMMA BucketsNest ==
    ASSUME NEW m \in Nat \ {0}, NEW n \in Nat \ {0}, n % m = 0, NEW t \in Nat
    PROVE  Bucket(n, Bucket(m, t)) = Bucket(n, t)
<1>1. PICK h : h = Bucket(m, t)
  OBVIOUS
<1>2. h \in 0..t
  BY <1>1, BucketStart
<1>3. PICK s : s = Bucket(n, t)
  OBVIOUS
<1>4. s % n = 0
  BY <1>3, BucketStart
<1>5. s \in 0..t
  BY <1>3, BucketStart
<1>6. s % m = 0
  <2>1. s \in Nat
    BY <1>5
  <2> QED BY <1>4, <2>1, Divides, Zenon
<1>7. h >= s
  BY <1>1, <1>5, <1>6, BucketNotBefore
<1>8. PICK d \in 0..(n - 1) : t = s + d
  <2>1. PICK e : e = t % n
    OBVIOUS
  <2>2. e \in 0..(n - 1)
    BY <2>1, DivMod
  <2>3. s = t - e
    BY <1>3, <2>1 DEF Bucket
  <2>4. t = s + e
    BY <1>5, <2>2, <2>3
  <2> QED BY <2>2, <2>4
<1>9. PICK r \in 0..(n - 1) : h = s + r
  BY <1>2, <1>5, <1>7, <1>8
<1>10. h % n = r
  <2>1. PICK q \in Nat : q = t \div n
    BY DivMod
  <2>2. s = n * q
    BY <1>3, <2>1, BucketStart
  <2>3. h = n * q + r
    BY <1>9, <2>2
  <2> QED BY <2>1, <2>3, ModOf
<1>11. Bucket(n, h) = s
  <2>1. Bucket(n, h) = h - r
    BY <1>10 DEF Bucket
  <2> QED BY <1>5, <1>9, <2>1
<1> QED BY <1>1, <1>3, <1>11

-----------------------------------------------------------------------------
(* Nothing is written before the cutoff.                                   *)

\* The cutoff is the start of a day, hence of a bucket of every table.
CutoffInv ==
    /\ clock \in Times
    /\ DOMAIN rollup = Targets
    /\ accuracy_cutoff # Nil => accuracy_cutoff \in Nat /\ accuracy_cutoff % Day = 0

\* The cutoff of a first run is the start of a day.
LEMMA DayStart ==
    ASSUME NEW t \in Nat
    PROVE  /\ Bucket(Day, t) + Day \in Nat
           /\ (Bucket(Day, t) + Day) % Day = 0
<1> DEFINE q == t \div Day
<1>1. Day \in Nat \ {0}
  BY ConstantsAssumption
<1>2. q \in Nat /\ t % Day \in 0..(Day - 1) /\ t = Day * q + (t % Day)
  BY <1>1, DivMod
<1> HIDE DEF q
<1>3. Bucket(Day, t) + Day = Day * (q + 1)
  <2>1. Bucket(Day, t) = Day * q
    BY <1>1, <1>2 DEF Bucket
  <2>2. Day * (q + 1) = Day * q + Day
    BY <1>1, <1>2
  <2> QED BY <2>1, <2>2
<1> QED BY <1>1, <1>2, <1>3, MultipleMod

\* Every action keeps the cutoff at the start of a day.
LEMMA CutoffStep == CutoffInv /\ [Next]_vars => CutoffInv'
<1> SUFFICES ASSUME CutoffInv, [Next]_vars PROVE CutoffInv'
  OBVIOUS
<1>1. CASE Tick
  BY <1>1, ConstantsAssumption DEF Tick, CutoffInv, Times
<1>2. CASE EnsureAccuracyCutoff
  <2>1. PICK oldest \in Times :
          accuracy_cutoff' = IF accuracy_cutoff = Nil THEN Bucket(Day, oldest) + Day
                                                      ELSE accuracy_cutoff
    BY <1>2 DEF EnsureAccuracyCutoff
  <2>2. oldest \in Nat
    BY ConstantsAssumption DEF Times
  <2>3. accuracy_cutoff' # Nil => accuracy_cutoff' \in Nat /\ accuracy_cutoff' % Day = 0
    BY <2>1, <2>2, DayStart DEF CutoffInv
  <2> QED BY <1>2, <2>3 DEF EnsureAccuracyCutoff, CutoffInv
<1>3. ASSUME NEW target \in Targets, RefreshRollup(target)
      PROVE  CutoffInv'
  <2>1. DOMAIN rollup' = Targets
    BY <1>3 DEF RefreshRollup, CutoffInv
  <2> QED BY <1>3, <2>1 DEF RefreshRollup, CutoffInv
<1>4. CASE UNCHANGED <<clock, rollup, accuracy_cutoff>>
  BY <1>4 DEF CutoffInv
<1> QED BY <1>1, <1>2, <1>3, <1>4
        DEF Next, Maintain, UpsertMinute, Wake, RetainSensorMinute, Fail, vars

\* Nothing before the accuracy cutoff is ever written again, for every bucket
\* size, lookback and retention that the configuration allows.
THEOREM OldBucketsPreserved == Spec => BeforeCutoffPreserved
<1>1. Init => CutoffInv
  BY ConstantsAssumption DEF Init, CutoffInv
<1>2. ASSUME CutoffInv, accuracy_cutoff # Nil, [Next]_vars,
             NEW target \in Targets, NEW b \in Times, b < accuracy_cutoff
      PROVE  rollup'[target][b] = rollup[target][b]
  <2>1. /\ accuracy_cutoff \in Nat
        /\ clock \in Nat /\ Lookback \in Nat /\ Times \subseteq Nat
    BY <1>2, ConstantsAssumption DEF CutoffInv, Times
  <2>2. From >= accuracy_cutoff /\ From \in Int
    BY <2>1 DEF From
  <2>3. ASSUME NEW other \in Targets
        PROVE  /\ Length[other] \in Nat \ {0}
               /\ accuracy_cutoff % Length[other] = 0
    <3>1. /\ Length[other] \in Nat \ {0}
          /\ Day \in Nat \ {0}
      BY ConstantsAssumption DEF Length, Targets
    <3>2. Day % Length[other] = 0
      <4>1. Day % Day = 0
        BY <3>1
      <4> QED BY <4>1, ConstantsAssumption DEF Length, Targets
    <3> QED BY <1>2, <2>1, <3>1, <3>2, Divides DEF CutoffInv
  <2>4. ASSUME NEW other \in Targets
        PROVE  InBucket(other, b) = {}
    <3> SUFFICES ASSUME NEW t \in InBucket(other, b) PROVE FALSE
      OBVIOUS
    <3>1. t \in Nat /\ t >= accuracy_cutoff /\ Bucket(Length[other], t) = b
      BY <2>1, <2>2 DEF InBucket
    <3>2. b >= accuracy_cutoff
      BY <2>1, <2>3, <3>1, BucketNotBefore
    <3> QED BY <1>2, <2>1, <3>2
  <2>5. ASSUME NEW other \in Targets, RefreshRollup(other)
        PROVE  rollup'[target][b] = rollup[target][b]
    <3>1. rollup'[target] = IF target = other
                            THEN [d \in Times |-> IF InBucket(other, d) = {} THEN rollup[other][d]
                                   ELSE Merged(Source(other), InBucket(other, d))]
                            ELSE rollup[target]
      BY <1>2, <2>5 DEF RefreshRollup, CutoffInv
    <3> QED BY <3>1, <2>4
  <2>6. \/ \E other \in Targets : RefreshRollup(other)
        \/ UNCHANGED rollup
    BY <1>2 DEF Next, Maintain, Tick, UpsertMinute, Wake, EnsureAccuracyCutoff,
                RetainSensorMinute, Fail, vars
  <2> QED BY <2>5, <2>6
<1>3. CutoffInv /\ [Next]_vars =>
        [accuracy_cutoff # Nil =>
            \A target \in Targets, b \in Times :
                b < accuracy_cutoff => rollup'[target][b] = rollup[target][b]]_vars
  BY <1>2
<1> QED BY <1>1, <1>3, CutoffStep, PTL DEF Spec, BeforeCutoffPreserved

-----------------------------------------------------------------------------
(* Types: a merged row is a sum and a number.                              *)

\* The sizes are numbers that nest.
LEMMA Sizes ==
    ASSUME NEW target \in Targets
    PROVE  /\ Length[target] \in Nat \ {0} /\ Hour \in Nat \ {0}
           /\ Length[target] % Hour = 0
           /\ Length["sensor_1hour"] = Hour
<1>1. Hour \in Nat \ {0} /\ HalfDay \in Nat \ {0} /\ Day \in Nat \ {0}
  BY ConstantsAssumption
<1>2. Hour % Hour = 0
  BY <1>1
<1> QED BY <1>1, <1>2, ConstantsAssumption DEF Length, Targets

\* Times are finitely many naturals.
LEMMA TimesFinite == IsFiniteSet(Times) /\ Times \subseteq Nat
  BY ConstantsAssumption, FS_Interval DEF Times

\* The sum of the field sum is the sum of a function.
LEMMA SumOfSums ==
    ASSUME NEW source, NEW C
    PROVE  MapThenSumSet(LAMBDA t : source[t].sum, C) = SumOf([t \in C |-> source[t].sum], C)
<1>1. PICK f : f = [t \in C |-> source[t].sum]
  OBVIOUS
<1>2. ASSUME NEW s \in SUBSET C, s # {}
      PROVE  f[CHOOSE x \in s : TRUE] = source[CHOOSE x \in s : TRUE].sum
  <2>1. PICK x : x = CHOOSE y \in s : TRUE
    OBVIOUS
  <2>2. x \in C
    BY <1>2, <2>1
  <2>3. f[x] = source[x].sum
    BY <1>1, <2>2
  <2> QED BY <2>1, <2>3
<1> DEFINE F(g) == [s \in SUBSET C |-> IF s = {} THEN 0
                      ELSE source[CHOOSE x \in s : TRUE].sum + g[s \ {CHOOSE x \in s : TRUE}]]
           G(g) == [s \in SUBSET C |-> IF s = {} THEN 0
                      ELSE f[CHOOSE x \in s : TRUE] + g[s \ {CHOOSE x \in s : TRUE}]]
<1>3. ASSUME NEW g
      PROVE  F(g) = G(g)
  BY <1>2
<1>4. MapThenSumSet(LAMBDA t : source[t].sum, C) = (CHOOSE g : g = F(g))[C]
  BY DEF MapThenSumSet, MapThenFoldSet
<1>5. SumOf(f, C) = (CHOOSE g : g = G(g))[C]
  BY DEF SumOf, MapThenSumSet, MapThenFoldSet
<1> HIDE DEF F, G
<1>6. (CHOOSE g : g = F(g)) = (CHOOSE g : g = G(g))
  BY <1>3, Zenon
<1> QED BY <1>1, <1>4, <1>5, <1>6

\* The sum of the field count is the sum of a function.
LEMMA SumOfCounts ==
    ASSUME NEW source, NEW C
    PROVE  MapThenSumSet(LAMBDA t : source[t].count, C) = SumOf([t \in C |-> source[t].count], C)
<1>1. PICK f : f = [t \in C |-> source[t].count]
  OBVIOUS
<1>2. ASSUME NEW s \in SUBSET C, s # {}
      PROVE  f[CHOOSE x \in s : TRUE] = source[CHOOSE x \in s : TRUE].count
  <2>1. PICK x : x = CHOOSE y \in s : TRUE
    OBVIOUS
  <2>2. x \in C
    BY <1>2, <2>1
  <2>3. f[x] = source[x].count
    BY <1>1, <2>2
  <2> QED BY <2>1, <2>3
<1> DEFINE F(g) == [s \in SUBSET C |-> IF s = {} THEN 0
                      ELSE source[CHOOSE x \in s : TRUE].count + g[s \ {CHOOSE x \in s : TRUE}]]
           G(g) == [s \in SUBSET C |-> IF s = {} THEN 0
                      ELSE f[CHOOSE x \in s : TRUE] + g[s \ {CHOOSE x \in s : TRUE}]]
<1>3. ASSUME NEW g
      PROVE  F(g) = G(g)
  BY <1>2
<1>4. MapThenSumSet(LAMBDA t : source[t].count, C) = (CHOOSE g : g = F(g))[C]
  BY DEF MapThenSumSet, MapThenFoldSet
<1>5. SumOf(f, C) = (CHOOSE g : g = G(g))[C]
  BY DEF SumOf, MapThenSumSet, MapThenFoldSet
<1> HIDE DEF F, G
<1>6. (CHOOSE g : g = F(g)) = (CHOOSE g : g = G(g))
  BY <1>3, Zenon
<1> QED BY <1>1, <1>4, <1>5, <1>6

\* Both fields of a row that is merged from rows with a count are sums.
LEMMA MergedIsSum ==
    ASSUME NEW source, NEW S, Counted(source, S) # {}
    PROVE  LET counted == Counted(source, S)
           IN  Merged(source, S) =
                 [sum   |-> SumOf([t \in counted |-> source[t].sum], counted),
                  count |-> SumOf([t \in counted |-> source[t].count], counted)]
<1>1. PICK C : C = Counted(source, S)
  OBVIOUS
<1>2. Merged(source, S) = [sum   |-> MapThenSumSet(LAMBDA t : source[t].sum, C),
                           count |-> MapThenSumSet(LAMBDA t : source[t].count, C)]
  BY <1>1 DEF Merged
<1> QED BY <1>1, <1>2, SumOfSums, SumOfCounts

\* A merged row is a row, or has no count either.
LEMMA MergedType ==
    ASSUME NEW source, NEW S, IsFiniteSet(S),
           \A t \in S : source[t].count # Nil => source[t] \in Row
    PROVE  Merged(source, S) \in Row \cup {OldRow}
<1>1. PICK C : C = Counted(source, S)
  OBVIOUS
<1>2. IsFiniteSet(C) /\ \A t \in C : source[t] \in Row
  <2>1. C \in SUBSET S
    BY <1>1 DEF Counted
  <2> QED BY <1>1, <2>1, FS_Subset DEF Counted
<1>3. PICK f : f = [t \in C |-> source[t].sum]
  OBVIOUS
<1>4. PICK g : g = [t \in C |-> source[t].count]
  OBVIOUS
<1>5. (\A t \in C : f[t] \in Int) /\ (\A t \in C : g[t] \in Nat)
  BY <1>2, <1>3, <1>4 DEF Row
<1>6. SumOf(f, C) \in Int /\ SumOf(g, C) \in Nat
  BY <1>2, <1>5, SumType
<1>7. ASSUME C # {}
      PROVE  Merged(source, S) = [sum |-> SumOf(f, C), count |-> SumOf(g, C)]
  BY <1>1, <1>3, <1>4, <1>7, MergedIsSum
<1>8. ASSUME C = {}
      PROVE  Merged(source, S) = OldRow
  BY <1>1, <1>8 DEF Merged
<1> QED BY <1>6, <1>7, <1>8 DEF Row

\* A minute as sum and count, of no more than one value.
LEMMA SampleType ==
    ASSUME NEW v \in Values \cup {Nil, NoRow}, v # NoRow
    PROVE  /\ Sample(v) \in Row
           /\ v = Nil => Sample(v).sum = 0 /\ Sample(v).count = 0
           /\ v # Nil => Sample(v).sum = v /\ Sample(v).count = 1
<1>1. Values \subseteq Int
  BY ConstantsAssumption
<1>2. CASE v = Nil
  BY <1>2 DEF Sample, Row
<1>3. CASE v # Nil
  <2>1. v \in Int
    BY <1>1, <1>3
  <2> QED BY <1>3, <2>1 DEF Sample, Row
<1> QED BY <1>2, <1>3

\* The rows a refresh merges are rows with a count, or of the older version.
LEMMA SourceRows ==
    ASSUME TypeOK, NEW target \in Targets, NEW b \in Times
    PROVE  \A t \in InBucket(target, b) :
              Source(target)[t].count # Nil => Source(target)[t] \in Row
<1> SUFFICES ASSUME NEW t \in InBucket(target, b), Source(target)[t].count # Nil
             PROVE  Source(target)[t] \in Row
  OBVIOUS
<1>1. t \in Times /\ Source(target)[t] # NoRow
  BY DEF InBucket
<1>2. ASSUME target = "sensor_1hour"
      PROVE  Source(target)[t] \in Row
  <2>1. Source(target) =
          [u \in Times |-> IF sensor_minute[u] = NoRow THEN NoRow ELSE Sample(sensor_minute[u])]
    BY <1>2 DEF Source
  <2>2. Source(target)[t] = IF sensor_minute[t] = NoRow THEN NoRow ELSE Sample(sensor_minute[t])
    BY <1>1, <2>1
  <2>3. sensor_minute[t] # NoRow /\ Source(target)[t] = Sample(sensor_minute[t])
    BY <1>1, <2>2
  <2>4. sensor_minute[t] \in Values \cup {Nil}
    BY <1>1, <2>3 DEF TypeOK
  <2>5. Sample(sensor_minute[t]) \in Row
    BY <1>1, <2>3, <2>4, SampleType
  <2> QED BY <2>3, <2>5
<1>3. ASSUME target # "sensor_1hour"
      PROVE  Source(target)[t] \in Row
  <2>1. Source(target)[t] = rollup["sensor_1hour"][t]
    BY <1>3 DEF Source
  <2>2. rollup["sensor_1hour"][t] \in Row \cup {OldRow, NoRow}
    BY <1>1 DEF TypeOK, Targets
  <2>3. Source(target)[t] # OldRow
    BY DEF OldRow
  <2> QED BY <1>1, <2>1, <2>2, <2>3
<1> QED BY <1>2, <1>3

\* What a refresh may write.
LEMMA RefreshedRow ==
    ASSUME TypeOK, DOMAIN rollup = Targets, NEW target \in Targets, RefreshRollup(target),
           NEW b \in Times
    PROVE  /\ \A other \in Targets : other # target => rollup'[other] = rollup[other]
           /\ InBucket(target, b) = {} => rollup'[target][b] = rollup[target][b]
           /\ InBucket(target, b) # {} =>
                 /\ rollup'[target][b] = Merged(Source(target), InBucket(target, b))
                 /\ rollup'[target][b] \in Row \cup {OldRow}
                 /\ b % Length[target] = 0
<1>1. /\ \A other \in Targets : other # target => rollup'[other] = rollup[other]
      /\ rollup'[target][b] = IF InBucket(target, b) = {} THEN rollup[target][b]
                              ELSE Merged(Source(target), InBucket(target, b))
  BY DEF RefreshRollup
<1>2. Merged(Source(target), InBucket(target, b)) \in Row \cup {OldRow}
  <2>1. IsFiniteSet(InBucket(target, b))
    <3>1. InBucket(target, b) \in SUBSET Times
      BY DEF InBucket
    <3> QED BY <3>1, TimesFinite, FS_Subset
  <2> QED BY <2>1, SourceRows, MergedType
<1>3. ASSUME NEW t \in InBucket(target, b)
      PROVE  b % Length[target] = 0
  <2>1. t \in Nat /\ b = Bucket(Length[target], t)
    BY <1>3, TimesFinite DEF InBucket
  <2>2. Length[target] \in Nat \ {0}
    BY Sizes
  <2> QED BY <2>1, <2>2, BucketStart
<1> QED BY <1>1, <1>2, <1>3

\* The rows are typed and the statements of a run come after its cutoff.
Typed ==
    /\ TypeOK
    /\ CutoffInv
    /\ pc \notin {"sleep", "cutoff"} => accuracy_cutoff # Nil

LEMMA TypedInit == Init => Typed
<1> SUFFICES ASSUME Init PROVE Typed
  OBVIOUS
<1>1. CutoffInv
  BY ConstantsAssumption DEF Init, CutoffInv
<1>2. PICK oldest \in 0..Start, v \in Values :
        /\ sensor_minute = [t \in Times |-> IF t = oldest THEN v ELSE NoRow]
        /\ rollup = [target \in Targets |-> [t \in Times |->
                        IF t < oldest /\ t % Length[target] = 0 THEN OldRow ELSE NoRow]]
  BY DEF Init
<1>3. \A target \in Targets, t \in Times :
        /\ rollup[target][t] \in Row \cup {OldRow, NoRow}
        /\ rollup[target][t] # NoRow => t % Length[target] = 0
  BY <1>2
<1>4. sensor_minute \in [Times -> Values \cup {Nil, NoRow}]
  BY <1>2
<1> QED BY <1>1, <1>3, <1>4, ConstantsAssumption DEF Init, TypeOK, Typed, Step

LEMMA TypedStep == Typed /\ [Next]_vars => Typed'
<1> SUFFICES ASSUME Typed, [Next]_vars PROVE Typed'
  OBVIOUS
<1>1. CutoffInv'
  BY CutoffStep DEF Typed
<1>2. TypeOK /\ CutoffInv
  BY DEF Typed
<1>3. ASSUME Tick PROVE Typed'
  BY <1>1, <1>2, <1>3, ConstantsAssumption DEF Tick, Typed, TypeOK, Times
<1>4. ASSUME NEW t \in Times, NEW v \in Values \cup {Nil}, UpsertMinute(t, v) PROVE Typed'
  <2>1. sensor_minute' \in [Times -> Values \cup {Nil, NoRow}]
    BY <1>2, <1>4 DEF UpsertMinute, TypeOK
  <2>2. upserts' \in 0..MaxUpserts
    BY <1>2, <1>4, ConstantsAssumption DEF UpsertMinute, TypeOK
  <2> QED BY <1>1, <1>2, <1>4, <2>1, <2>2 DEF UpsertMinute, Typed, TypeOK
<1>5. ASSUME Wake PROVE Typed'
  BY <1>1, <1>2, <1>5 DEF Wake, Typed, TypeOK, Step
<1>6. ASSUME EnsureAccuracyCutoff PROVE Typed'
  <2>1. accuracy_cutoff' # Nil
    <3>1. PICK oldest \in Times :
            accuracy_cutoff' = IF accuracy_cutoff = Nil THEN Bucket(Day, oldest) + Day
                                                        ELSE accuracy_cutoff
      BY <1>6 DEF EnsureAccuracyCutoff
    <3>2. Bucket(Day, oldest) + Day \in Nat
      BY TimesFinite, DayStart
    <3> QED BY <3>1, <3>2, ConstantsAssumption
  <2>2. accuracy_cutoff' \in Nat
    BY <1>1, <2>1 DEF CutoffInv
  <2> QED BY <1>1, <1>2, <1>6, <2>1, <2>2 DEF EnsureAccuracyCutoff, Typed, TypeOK, Step, Targets
<1>7. ASSUME NEW target \in Targets, RefreshRollup(target) PROVE Typed'
  <2>1. DOMAIN rollup = Targets
    BY <1>2 DEF CutoffInv
  <2>2. ASSUME NEW other \in Targets, NEW b \in Times
        PROVE  /\ rollup'[other][b] \in Row \cup {OldRow, NoRow}
               /\ rollup'[other][b] # NoRow => b % Length[other] = 0
    <3>1. /\ rollup[other][b] \in Row \cup {OldRow, NoRow}
          /\ rollup[other][b] # NoRow => b % Length[other] = 0
      BY <1>2 DEF TypeOK
    <3>2. ASSUME other = target
          PROVE  \/ rollup'[other][b] = rollup[other][b]
                 \/ rollup'[other][b] \in Row \cup {OldRow} /\ b % Length[other] = 0
      BY <1>2, <1>7, <2>1, <3>2, RefreshedRow
    <3>3. ASSUME other # target
          PROVE  rollup'[other][b] = rollup[other][b]
      BY <1>2, <1>7, <2>1, <3>3, RefreshedRow
    <3> QED BY <3>1, <3>2, <3>3
  <2>3. accuracy_cutoff # Nil
    BY <1>7 DEF RefreshRollup, Typed, Targets
  <2>4. pc' \in Step
    BY <1>7 DEF RefreshRollup, NextStep, Step, Targets
  <2> QED BY <1>1, <1>2, <1>7, <2>2, <2>3, <2>4 DEF RefreshRollup, Typed, TypeOK
<1>8. ASSUME RetainSensorMinute PROVE Typed'
  <2>1. sensor_minute' \in [Times -> Values \cup {Nil, NoRow}]
    BY <1>2, <1>8 DEF RetainSensorMinute, TypeOK
  <2> QED BY <1>1, <1>2, <1>8, <2>1 DEF RetainSensorMinute, Typed, TypeOK, Step
<1>9. ASSUME Fail PROVE Typed'
  <2>1. failures' \in 0..MaxFailures
    BY <1>2, <1>9, ConstantsAssumption DEF Fail, TypeOK
  <2> QED BY <1>1, <1>2, <1>9, <2>1 DEF Fail, Typed, TypeOK, Step
<1>10. CASE UNCHANGED vars
  BY <1>10 DEF vars, Typed, TypeOK, CutoffInv
<1> QED BY <1>3, <1>4, <1>5, <1>6, <1>7, <1>8, <1>9, <1>10 DEF Next, Maintain

\* Rows have the sum and the count of something, or neither, and stand at the
\* start of their bucket, whatever the order of upserts, runs and failures.
THEOREM TypeCorrect == Spec => []TypeOK
<1>1. Typed => TypeOK
  BY DEF Typed
<1> QED BY <1>1, TypedInit, TypedStep, PTL DEF Spec

-----------------------------------------------------------------------------
(* Accuracy in terms of sums.                                              *)

\* The sum and the count that the minutes S add up to.
MinuteSum   == [t \in Times |-> IF sensor_minute[t] = NoRow THEN 0 ELSE Sample(sensor_minute[t]).sum]
MinuteCount == [t \in Times |-> IF sensor_minute[t] = NoRow THEN 0 ELSE Sample(sensor_minute[t]).count]
Exact(S) == [sum |-> SumOf(MinuteSum, S), count |-> SumOf(MinuteCount, S)]

LEMMA MinuteTypes ==
    ASSUME TypeOK, NEW t \in Times
    PROVE  /\ MinuteSum[t] \in Int /\ MinuteCount[t] \in Nat
           /\ sensor_minute[t] # NoRow => /\ Sample(sensor_minute[t]) \in Row
                                          /\ MinuteSum[t] = Sample(sensor_minute[t]).sum
                                          /\ MinuteCount[t] = Sample(sensor_minute[t]).count
<1>1. sensor_minute[t] \in Values \cup {Nil, NoRow}
  BY DEF TypeOK
<1>2. PICK r : r = Sample(sensor_minute[t])
  OBVIOUS
<1>3. /\ MinuteSum[t] = IF sensor_minute[t] = NoRow THEN 0 ELSE r.sum
      /\ MinuteCount[t] = IF sensor_minute[t] = NoRow THEN 0 ELSE r.count
  BY <1>2 DEF MinuteSum, MinuteCount
<1>4. sensor_minute[t] # NoRow => r \in Row
  BY <1>1, <1>2, SampleType
<1>5. r \in Row => r.sum \in Int /\ r.count \in Nat
  BY DEF Row
<1> QED BY <1>2, <1>3, <1>4, <1>5

\* Minutes add up to a row.
LEMMA ExactType ==
    ASSUME TypeOK, NEW S \in SUBSET Times
    PROVE  Exact(S) \in Row
<1>1. IsFiniteSet(S)
  BY TimesFinite, FS_Subset
<1>2. SumOf(MinuteSum, S) \in Int
  <2>1. \A t \in S : MinuteSum[t] \in Int
    BY MinuteTypes
  <2> QED BY <1>1, <2>1, SumType
<1>3. SumOf(MinuteCount, S) \in Nat
  <2>1. \A t \in S : MinuteCount[t] \in Nat
    BY MinuteTypes
  <2> QED BY <1>1, <2>1, SumType
<1> QED BY <1>2, <1>3 DEF Exact, Row

\* The definition of accuracy, with the sum named.
LEMMA AccurateIsSum ==
    ASSUME NEW target, NEW b
    PROVE  LET values == {t \in MinutesOf(target, b) : sensor_minute[t] # Nil}
           IN  Accurate(target, b) <=>
                 (MinutesOf(target, b) # {} =>
                     rollup[target][b] = [sum   |-> SumOf(sensor_minute, values),
                                          count |-> Cardinality(values)])
BY DEF Accurate, SumOf

\* Minutes add up to the values that are not null, and to their number.
LEMMA ExactIsSum ==
    ASSUME TypeOK, NEW M \in SUBSET MinuteRows
    PROVE  LET values == {t \in M : sensor_minute[t] # Nil}
           IN  Exact(M) = [sum |-> SumOf(sensor_minute, values), count |-> Cardinality(values)]
<1>1. PICK V : V = {t \in M : sensor_minute[t] # Nil}
  OBVIOUS
<1>2. /\ M \in SUBSET Times /\ V \in SUBSET M /\ IsFiniteSet(M) /\ IsFiniteSet(V)
      /\ \A t \in M : sensor_minute[t] # NoRow /\ sensor_minute[t] \in Values \cup {Nil, NoRow}
  <2>1. M \in SUBSET Times /\ V \in SUBSET M /\ \A t \in M : sensor_minute[t] # NoRow
    BY <1>1 DEF MinuteRows
  <2>2. IsFiniteSet(M) /\ IsFiniteSet(V)
    BY <2>1, TimesFinite, FS_Subset
  <2> QED BY <2>1, <2>2 DEF TypeOK
<1>3. /\ \A t \in V : MinuteSum[t] = sensor_minute[t] /\ MinuteCount[t] = 1
      /\ \A t \in M \ V : MinuteSum[t] = 0 /\ MinuteCount[t] = 0
      /\ \A t \in M : MinuteSum[t] \in Int /\ MinuteCount[t] \in Int
  <2>1. ASSUME NEW t \in M
        PROVE  /\ sensor_minute[t] # Nil => MinuteSum[t] = sensor_minute[t] /\ MinuteCount[t] = 1
               /\ sensor_minute[t] = Nil => MinuteSum[t] = 0 /\ MinuteCount[t] = 0
               /\ MinuteSum[t] \in Int /\ MinuteCount[t] \in Int
    BY <1>2, MinuteTypes, SampleType
  <2> QED BY <1>1, <2>1
<1>4. SumOf(MinuteSum, M) = SumOf(sensor_minute, V)
  <2>1. SumOf(MinuteSum, M) = SumOf(MinuteSum, V)
    BY <1>2, <1>3, SumWithoutZeros
  <2>2. SumOf(MinuteSum, V) = SumOf(sensor_minute, V)
    BY <1>2, <1>3, SumSame
  <2> QED BY <2>1, <2>2
<1>5. SumOf(MinuteCount, M) = Cardinality(V)
  <2>1. SumOf(MinuteCount, M) = SumOf(MinuteCount, V)
    BY <1>2, <1>3, SumWithoutZeros
  <2>2. SumOf(MinuteCount, V) = Cardinality(V)
    BY <1>2, <1>3, SumOfOnes
  <2> QED BY <2>1, <2>2
<1> QED BY <1>1, <1>4, <1>5 DEF Exact

\* An accurate row is what the minutes of its bucket add up to.
LEMMA AccurateIsExact ==
    ASSUME TypeOK, NEW target, NEW b
    PROVE  Accurate(target, b) <=>
             (MinutesOf(target, b) # {} => rollup[target][b] = Exact(MinutesOf(target, b)))
<1>1. PICK M : M = MinutesOf(target, b)
  OBVIOUS
<1>2. M \in SUBSET MinuteRows
  BY <1>1 DEF MinutesOf
<1>3. PICK e : e = [sum   |-> SumOf(sensor_minute, {t \in M : sensor_minute[t] # Nil}),
                    count |-> Cardinality({t \in M : sensor_minute[t] # Nil})]
  OBVIOUS
<1>4. Accurate(target, b) <=> (M # {} => rollup[target][b] = e)
  BY <1>1, <1>3, AccurateIsSum
<1>5. Exact(M) = e
  BY <1>2, <1>3, ExactIsSum
<1> QED BY <1>1, <1>4, <1>5

\* A refresh that writes what the minutes add up to leaves the row accurate.
LEMMA BecomesAccurate ==
    ASSUME TypeOK, NEW target, NEW b, UNCHANGED sensor_minute,
           MinutesOf(target, b) # {} => rollup'[target][b] = Exact(MinutesOf(target, b))
    PROVE  Accurate(target, b)'
<1>1. PICK M : M = MinutesOf(target, b)
  OBVIOUS
<1>2. M \in SUBSET MinuteRows
  BY <1>1 DEF MinutesOf
<1>3. PICK e : e = [sum   |-> SumOf(sensor_minute, {t \in M : sensor_minute[t] # Nil}),
                    count |-> Cardinality({t \in M : sensor_minute[t] # Nil})]
  OBVIOUS
<1>4. Exact(M) = e
  BY <1>2, <1>3, ExactIsSum
<1>5. M # {} => rollup'[target][b] = e
  BY <1>1, <1>4
<1>6. M = MinutesOf(target, b)'
  BY <1>1 DEF MinutesOf, MinuteRows
<1>7. e = [sum   |-> SumOf(sensor_minute', {t \in M : sensor_minute'[t] # Nil}),
           count |-> Cardinality({t \in M : sensor_minute'[t] # Nil})]
  BY <1>3
<1> QED BY <1>5, <1>6, <1>7 DEF Accurate, SumOf, MapThenSumSet, MapThenFoldSet

\* A row stays accurate while it and the minutes of its bucket stay.
LEMMA AccurateKept ==
    ASSUME NEW target \in Targets, NEW b \in Times, Accurate(target, b),
           rollup'[target][b] = rollup[target][b],
           \A t \in Times : Bucket(Length[target], t) = b => sensor_minute'[t] = sensor_minute[t]
    PROVE  Accurate(target, b)'
<1>1. PICK M : M = MinutesOf(target, b)
  OBVIOUS
<1>2. M = MinutesOf(target, b)'
  BY <1>1 DEF MinutesOf, MinuteRows
<1>3. PICK V : V = {t \in M : sensor_minute[t] # Nil}
  OBVIOUS
<1>4. \A t \in M : sensor_minute'[t] = sensor_minute[t]
  BY <1>1 DEF MinutesOf, MinuteRows
<1>5. V = {t \in M : sensor_minute'[t] # Nil}
  BY <1>3, <1>4
<1>6. SumOf(sensor_minute', V) = SumOf(sensor_minute, V)
  <2>1. V \in SUBSET Times /\ \A t \in V : sensor_minute'[t] = sensor_minute[t]
    BY <1>1, <1>3, <1>4 DEF MinutesOf, MinuteRows
  <2>2. IsFiniteSet(V)
    BY <2>1, TimesFinite, FS_Subset
  <2> QED BY <2>1, <2>2, SumSame
<1>7. M # {} => rollup[target][b] = [sum |-> SumOf(sensor_minute, V), count |-> Cardinality(V)]
  BY <1>1, <1>3, AccurateIsSum
<1>8. M # {} => rollup'[target][b] = [sum |-> SumOf(sensor_minute', V), count |-> Cardinality(V)]
  BY <1>6, <1>7
<1> QED BY <1>2, <1>5, <1>8 DEF Accurate, SumOf, MapThenSumSet, MapThenFoldSet

\* Refreshing an hour that its window covers makes it accurate.
LEMMA HourRefreshed ==
    ASSUME Typed, RefreshRollup("sensor_1hour"), NEW b \in Times, b % Hour = 0, Covered(b)
    PROVE  Accurate("sensor_1hour", b)'
<1> DEFINE target == "sensor_1hour"
<1>1. TypeOK /\ DOMAIN rollup = Targets /\ target \in Targets
  BY DEF Typed, CutoffInv, Targets
<1>2. From \in Int /\ b >= From
  <2>1. accuracy_cutoff \in Nat /\ clock \in Nat /\ Lookback \in Nat
    BY TimesFinite, ConstantsAssumption DEF Typed, CutoffInv, Covered
  <2> QED BY <2>1 DEF From, Covered
<1>3. PICK M : M = MinutesOf(target, b)
  OBVIOUS
<1>4. M \in SUBSET Times /\ IsFiniteSet(M)
  <2>1. M \in SUBSET Times
    BY <1>3 DEF MinutesOf, MinuteRows
  <2> QED BY <2>1, TimesFinite, FS_Subset
<1>5. PICK source : source = Source(target)
  OBVIOUS
<1>6. \A t \in Times : source[t] = IF sensor_minute[t] = NoRow THEN NoRow ELSE Sample(sensor_minute[t])
  BY <1>5 DEF Source
<1>7. \A t \in Times : sensor_minute[t] # NoRow => source[t] \in Row /\ source[t] # NoRow
  <2>1. \A t \in Times : sensor_minute[t] # NoRow => source[t] \in Row
    BY <1>1, <1>6, MinuteTypes
  <2> QED BY <2>1, ConstantsAssumption
<1>8. InBucket(target, b) = M
  <2>1. ASSUME NEW t \in Times, Bucket(Length[target], t) = b
        PROVE  t >= From
    <3>1. t \in Nat /\ Length[target] \in Nat \ {0}
      BY <1>1, TimesFinite, Sizes
    <3>2. b \in 0..t
      BY <2>1, <3>1, BucketStart
    <3>3. PICK from \in Int : from = From
      BY <1>2
    <3> QED BY <1>2, <3>1, <3>2, <3>3
  <2>2. \A t \in Times : source[t] # NoRow <=> sensor_minute[t] # NoRow
    BY <1>6, <1>7
  <2> QED BY <1>3, <1>5, <2>1, <2>2 DEF InBucket, MinutesOf, MinuteRows
<1>9. ASSUME M # {}
      PROVE  rollup'[target][b] = Exact(M)
  <2>1. rollup'[target][b] = Merged(source, M)
    BY <1>1, <1>5, <1>8, <1>9, RefreshedRow
  <2>2. \A t \in M : sensor_minute[t] # NoRow
    BY <1>3 DEF MinutesOf, MinuteRows
  <2>3. Counted(source, M) = M
    <3>1. \A t \in M : source[t] \in Row
      BY <1>4, <1>7, <2>2
    <3>2. \A t \in M : source[t].count # Nil
      BY <3>1, ConstantsAssumption DEF Row
    <3> QED BY <3>2 DEF Counted
  <2>4. PICK f : f = [t \in M |-> source[t].sum]
    OBVIOUS
  <2>5. PICK g : g = [t \in M |-> source[t].count]
    OBVIOUS
  <2>6. Merged(source, M) = [sum |-> SumOf(f, M), count |-> SumOf(g, M)]
    BY <1>9, <2>3, <2>4, <2>5, MergedIsSum
  <2>7. ASSUME NEW t \in M
        PROVE  f[t] = MinuteSum[t] /\ g[t] = MinuteCount[t]
    <3>1. t \in Times /\ source[t] = Sample(sensor_minute[t])
      BY <1>4, <1>6, <2>2
    <3>2. MinuteSum[t] = source[t].sum /\ MinuteCount[t] = source[t].count
      BY <1>1, <2>2, <3>1, MinuteTypes
    <3> QED BY <2>4, <2>5, <3>2
  <2>8. SumOf(f, M) = SumOf(MinuteSum, M) /\ SumOf(g, M) = SumOf(MinuteCount, M)
    BY <1>4, <2>7, SumSame
  <2> QED BY <2>1, <2>6, <2>8 DEF Exact
<1>10. UNCHANGED sensor_minute
  BY DEF RefreshRollup
<1> QED BY <1>1, <1>3, <1>9, <1>10, BecomesAccurate

-----------------------------------------------------------------------------
(* Refreshes leave what they cover accurate.                               *)

\* An hour whose row counts minutes and which retention spares has minutes.
HoursHaveMinutes ==
    \A h \in Times :
        (rollup["sensor_1hour"][h] \in Row /\ h >= clock - RetainMinute)
            => MinutesOf("sensor_1hour", h) # {}

\* The coarse tables have taken in no minute that the hours have not, and before
\* the first run none has taken in anything.
UnseenInv ==
    /\ unseen \in [Targets -> SUBSET Times]
    /\ \A target \in Targets : unseen["sensor_1hour"] \subseteq unseen[target]
    /\ accuracy_cutoff = Nil => \A target \in Targets : MinuteRows \subseteq unseen[target]

AccuracyInv == Typed /\ UnseenInv /\ HoursHaveMinutes /\ SeenBucketsAccurate

\* Where the window starts, once there is a cutoff.
LEMMA FromNumber ==
    ASSUME Typed, accuracy_cutoff # Nil
    PROVE  /\ From \in Int /\ From >= accuracy_cutoff /\ From >= clock - Lookback
           /\ From >= clock - RetainMinute /\ clock \in Nat /\ RetainMinute \in Nat
<1>1. accuracy_cutoff \in Nat /\ clock \in Nat /\ Lookback \in Nat /\ RetainMinute \in Nat
      /\ Lookback =< RetainMinute
  BY TimesFinite, ConstantsAssumption DEF Typed, CutoffInv
<1>2. From \in Int /\ From >= accuracy_cutoff /\ From >= clock - Lookback
  BY <1>1 DEF From
<1>3. PICK from \in Int : from = From
  BY <1>2
<1> QED BY <1>1, <1>2, <1>3

\* The hour of a minute in a bucket that the window covers.
LEMMA HourWithin ==
    ASSUME Typed, NEW target \in Targets, NEW b \in Times, b % Length[target] = 0, Covered(b),
           NEW t \in Times
    PROVE  /\ Bucket(Hour, t) \in Times /\ Bucket(Hour, t) % Hour = 0
           /\ Bucket(Length[target], Bucket(Hour, t)) = Bucket(Length[target], t)
           /\ Bucket(Length[target], t) = b => t >= b /\ Bucket(Hour, t) >= b /\ Covered(Bucket(Hour, t))
<1>1. /\ Length[target] \in Nat \ {0} /\ Hour \in Nat \ {0} /\ Length[target] % Hour = 0
      /\ t \in Nat /\ b \in Nat
  BY TimesFinite, Sizes
<1>2. PICK h : h = Bucket(Hour, t)
  OBVIOUS
<1>3. h \in 0..t
  BY <1>1, <1>2, BucketStart
<1>4. h \in Times
  BY <1>3, ConstantsAssumption DEF Times
<1>5. h % Hour = 0
  BY <1>1, <1>2, BucketStart
<1>6. Bucket(Length[target], h) = Bucket(Length[target], t)
  BY <1>1, <1>2, BucketsNest
<1>7. ASSUME Bucket(Length[target], t) = b
      PROVE  t >= b /\ h >= b /\ Covered(h)
  <2>1. b \in 0..t
    BY <1>1, <1>7, BucketStart
  <2>2. b % Hour = 0
    BY <1>1, Divides, Zenon
  <2>3. h >= b
    BY <1>1, <1>2, <2>1, <2>2, BucketNotBefore
  <2>4. From \in Int /\ b >= From /\ accuracy_cutoff # Nil
    BY FromNumber DEF Covered
  <2>5. h >= From
    <3>1. PICK from \in Int : from = From
      BY <2>4
    <3> QED BY <1>1, <1>3, <2>3, <2>4, <3>1
  <2> QED BY <1>1, <2>1, <2>3, <2>4, <2>5 DEF Covered
<1> QED BY <1>2, <1>4, <1>5, <1>6, <1>7

\* An hour in a bucket that target has taken in and the window covers is accurate.
LEMMA HourTakenIn ==
    ASSUME AccuracyInv, NEW target \in Targets, target # "sensor_1hour", RefreshRollup(target),
           unseen' = [unseen EXCEPT ![target] = {t \in @ : ~Takes(target, t)}],
           NEW b \in Times, b % Length[target] = 0, Covered(b), TakenIn(target, b)',
           NEW h \in Times, h % Hour = 0, Covered(h), Bucket(Length[target], h) = b
    PROVE  Accurate("sensor_1hour", h)
<1>1. Typed /\ UnseenInv /\ SeenBucketsAccurate /\ "sensor_1hour" \in Targets
  BY DEF AccuracyInv, Targets
<1>2. ASSUME NEW t \in unseen["sensor_1hour"], Bucket(Hour, t) = h
      PROVE  FALSE
  <2>1. t \in Times /\ t \in unseen[target]
    BY <1>1, <1>2 DEF UnseenInv
  <2>2. ~Takes(target, t)
    BY <1>2 DEF Takes
  <2>3. t \in unseen'[target]
    BY <1>1, <2>1, <2>2 DEF UnseenInv
  <2>4. Bucket(Length[target], t) = b
    BY <1>1, <1>2, <2>1, HourWithin
  <2> QED BY <2>3, <2>4 DEF TakenIn
<1>3. TakenIn("sensor_1hour", h)
  BY <1>2, Sizes DEF TakenIn
<1>4. h % Length["sensor_1hour"] = 0
  BY Sizes
<1> QED BY <1>1, <1>3, <1>4 DEF SeenBucketsAccurate

\* A refresh of half days or days makes a bucket accurate that its window covers
\* and whose hours have taken everything in.
LEMMA CoarseRefreshed ==
    ASSUME AccuracyInv, NEW target \in Targets, target # "sensor_1hour", RefreshRollup(target),
           unseen' = [unseen EXCEPT ![target] = {t \in @ : ~Takes(target, t)}],
           NEW b \in Times, b % Length[target] = 0, Covered(b), TakenIn(target, b)'
    PROVE  Accurate(target, b)'
<1>1. Typed /\ UnseenInv /\ HoursHaveMinutes /\ TypeOK /\ DOMAIN rollup = Targets
  BY DEF AccuracyInv, Typed, CutoffInv
<1>2. PICK M : M = MinutesOf(target, b)
  OBVIOUS
<1>3. M \in SUBSET Times /\ M \in SUBSET MinuteRows /\ IsFiniteSet(M)
  <2>1. M \in SUBSET Times /\ M \in SUBSET MinuteRows
    BY <1>2 DEF MinutesOf, MinuteRows
  <2> QED BY <2>1, TimesFinite, FS_Subset
<1>4. PICK hours : hours = rollup["sensor_1hour"]
  OBVIOUS
<1>5. Source(target) = hours
  BY <1>4 DEF Source
<1>6. PICK K : K = Counted(hours, InBucket(target, b))
  OBVIOUS
<1>7. K \in SUBSET InBucket(target, b) /\ K \in SUBSET Times /\ IsFiniteSet(K)
  <2>1. K \in SUBSET InBucket(target, b) /\ InBucket(target, b) \in SUBSET Times
    BY <1>6 DEF Counted, InBucket
  <2>2. K \in SUBSET Times
    BY <2>1
  <2> QED BY <2>1, <2>2, TimesFinite, FS_Subset
\* The hours that count have exact rows.
<1>8. ASSUME NEW h \in K
      PROVE  hours[h] = Exact({t \in M : Bucket(Hour, t) = h})
  <2>1. h \in Times /\ hours[h] # NoRow /\ hours[h].count # Nil /\ h >= From
        /\ Bucket(Length[target], h) = b
    BY <1>5, <1>6, <1>7 DEF Counted, InBucket
  <2>2. hours[h] \in Row /\ h % Hour = 0
    <3>1. hours[h] \in Row \cup {OldRow, NoRow}
          /\ (hours[h] # NoRow => h % Length["sensor_1hour"] = 0)
      BY <1>1, <1>4, <2>1 DEF TypeOK, Targets
    <3>2. hours[h] # OldRow
      BY <2>1 DEF OldRow
    <3> QED BY <2>1, <3>1, <3>2, Sizes
  <2>3. Covered(h)
    BY <2>1 DEF Covered
  <2>4. Accurate("sensor_1hour", h)
    BY <2>1, <2>2, <2>3, HourTakenIn
  <2>5. h >= clock - RetainMinute
    <3>1. /\ From \in Int /\ From >= clock - RetainMinute /\ clock \in Nat
          /\ RetainMinute \in Nat
      BY <1>1, FromNumber DEF Covered
    <3>2. h \in Nat
      BY <2>1, TimesFinite
    <3>3. PICK from \in Int : from = From
      BY <3>1
    <3> QED BY <2>1, <3>1, <3>2, <3>3
  <2>6. MinutesOf("sensor_1hour", h) # {}
    BY <1>1, <1>4, <2>1, <2>2, <2>5 DEF HoursHaveMinutes
  <2>7. hours[h] = Exact(MinutesOf("sensor_1hour", h))
    BY <1>1, <1>4, <2>4, <2>6, AccurateIsExact
  <2>8. MinutesOf("sensor_1hour", h) = {t \in M : Bucket(Hour, t) = h}
    <3>1. ASSUME NEW t \in MinuteRows, Bucket(Hour, t) = h
          PROVE  Bucket(Length[target], t) = b
      <4>1. t \in Times
        BY DEF MinuteRows
      <4> QED BY <1>1, <2>1, <3>1, <4>1, HourWithin
    <3> QED BY <1>2, <3>1, Sizes DEF MinutesOf
  <2> QED BY <2>7, <2>8
\* Every minute lies in such an hour.
<1>9. ASSUME NEW t \in M
      PROVE  Bucket(Hour, t) \in K
  <2>1. t \in Times /\ t \in MinuteRows /\ Bucket(Length[target], t) = b
    BY <1>2, <1>3 DEF MinutesOf
  <2>2. PICK h : h = Bucket(Hour, t)
    OBVIOUS
  <2>3. h \in Times /\ h % Hour = 0 /\ Covered(h) /\ Bucket(Length[target], h) = b
    BY <1>1, <2>1, <2>2, HourWithin
  <2>4. Accurate("sensor_1hour", h)
    BY <2>3, HourTakenIn
  <2>5. MinutesOf("sensor_1hour", h) # {} /\ MinutesOf("sensor_1hour", h) \in SUBSET Times
    BY <2>1, <2>2, Sizes DEF MinutesOf, MinuteRows
  <2>6. hours[h] \in Row
    <3>1. hours[h] = Exact(MinutesOf("sensor_1hour", h))
      BY <1>1, <1>4, <2>4, <2>5, AccurateIsExact
    <3> QED BY <1>1, <2>5, <3>1, ExactType
  <2>7. hours[h] # NoRow /\ hours[h].count # Nil
    BY <2>6, ConstantsAssumption DEF Row
  <2> QED BY <1>5, <1>6, <2>2, <2>3, <2>7 DEF Counted, InBucket, Covered
<1>10. PICK key : key = [t \in M |-> Bucket(Hour, t)]
  OBVIOUS
<1>11. ASSUME NEW h \in K
       PROVE  /\ hours[h].sum = SumOf(MinuteSum, {t \in M : key[t] = h})
              /\ hours[h].count = SumOf(MinuteCount, {t \in M : key[t] = h})
  <2>1. PICK P : P = {t \in M : key[t] = h}
    OBVIOUS
  <2>2. P = {t \in M : Bucket(Hour, t) = h}
    BY <1>10, <2>1
  <2>3. hours[h] = Exact(P)
    BY <1>8, <2>2
  <2> QED BY <2>1, <2>3 DEF Exact
<1>12. PICK f : f = [h \in K |-> hours[h].sum]
  OBVIOUS
<1>13. PICK g : g = [h \in K |-> hours[h].count]
  OBVIOUS
<1>14. SumOf(f, K) = SumOf(MinuteSum, M)
  <2>1. \A h \in K : f[h] = SumOf(MinuteSum, {t \in M : key[t] = h})
    BY <1>11, <1>12
  <2>2. \A t \in M : key[t] \in K
    BY <1>9, <1>10
  <2>3. \A t \in M : MinuteSum[t] \in Int
    BY <1>1, <1>3, MinuteTypes
  <2>4. PICK term : term = MinuteSum
    OBVIOUS
  <2> QED BY <1>3, <1>7, <2>1, <2>2, <2>3, <2>4, SumOfParts
<1>15. SumOf(g, K) = SumOf(MinuteCount, M)
  <2>1. \A h \in K : g[h] = SumOf(MinuteCount, {t \in M : key[t] = h})
    BY <1>11, <1>13
  <2>2. \A t \in M : key[t] \in K
    BY <1>9, <1>10
  <2>3. \A t \in M : MinuteCount[t] \in Int
    BY <1>1, <1>3, MinuteTypes
  <2>4. PICK term : term = MinuteCount
    OBVIOUS
  <2> QED BY <1>3, <1>7, <2>1, <2>2, <2>3, <2>4, SumOfParts
<1>16. ASSUME M # {}
       PROVE  rollup'[target][b] = Exact(M)
  <2>1. InBucket(target, b) # {} /\ K # {}
    BY <1>7, <1>9, <1>16
  <2>2. rollup'[target][b] = Merged(hours, InBucket(target, b))
    BY <1>1, <1>5, <2>1, RefreshedRow
  <2>3. Merged(hours, InBucket(target, b)) = [sum |-> SumOf(f, K), count |-> SumOf(g, K)]
    BY <1>6, <1>12, <1>13, <2>1, MergedIsSum
  <2> QED BY <1>14, <1>15, <2>2, <2>3 DEF Exact
<1>17. UNCHANGED sensor_minute
  BY DEF RefreshRollup
<1> QED BY <1>1, <1>2, <1>16, <1>17, BecomesAccurate

-----------------------------------------------------------------------------
(* The steps of the record, and the theorem.                               *)

\* The record only watches: every step is one of SensorRollup.
LEMMA HistoryIsStep == [HistoryNext]_historyVars => [Next]_vars
BY DEF HistoryNext, Write, Refresh, Other, Next, Maintain, historyVars, vars

\* What the record says of itself is kept.
LEMMA UnseenStep == Typed /\ UnseenInv /\ [HistoryNext]_historyVars => UnseenInv'
<1> SUFFICES ASSUME Typed, UnseenInv, [HistoryNext]_historyVars PROVE UnseenInv'
  OBVIOUS
<1>1. "sensor_1hour" \in Targets
  BY DEF Targets
<1>2. ASSUME NEW t \in Times, NEW v \in Values \cup {Nil}, UpsertMinute(t, v),
             unseen' = [target \in Targets |-> unseen[target] \cup {t}]
      PROVE  UnseenInv'
  <2>1. MinuteRows' \subseteq MinuteRows \cup {t}
    <3>1. sensor_minute \in [Times -> Values \cup {Nil, NoRow}]
      BY DEF Typed, TypeOK
    <3>2. \A u \in Times : u # t => sensor_minute'[u] = sensor_minute[u]
      BY <1>2, <3>1 DEF UpsertMinute
    <3> QED BY <3>2 DEF MinuteRows
  <2>2. accuracy_cutoff' = accuracy_cutoff
    BY <1>2 DEF UpsertMinute
  <2>3. \A target \in Targets : unseen'[target] = unseen[target] \cup {t}
    BY <1>2
  <2>4. unseen' \in [Targets -> SUBSET Times]
    BY <1>2 DEF UnseenInv
  <2>5. \A target \in Targets : unseen["sensor_1hour"] \cup {t} \subseteq unseen[target] \cup {t}
    BY DEF UnseenInv
  <2>6. ASSUME accuracy_cutoff = Nil, NEW target \in Targets
        PROVE  MinuteRows' \subseteq unseen[target] \cup {t}
    BY <2>1, <2>6 DEF UnseenInv
  <2> QED BY <1>1, <2>2, <2>3, <2>4, <2>5, <2>6 DEF UnseenInv
<1>3. ASSUME NEW target \in Targets, RefreshRollup(target),
             unseen' = [unseen EXCEPT ![target] = {t \in @ : ~Takes(target, t)}]
      PROVE  UnseenInv'
  <2>1. accuracy_cutoff' # Nil
    BY <1>3 DEF RefreshRollup, Typed, Targets
  <2>2. PICK left : left = {t \in unseen[target] : ~Takes(target, t)}
    OBVIOUS
  <2>3. unseen' = [unseen EXCEPT ![target] = left]
    BY <1>3, <2>2
  <2>4. left \subseteq unseen[target] /\ unseen[target] \subseteq Times
    BY <2>2 DEF UnseenInv
  <2>5. unseen' \in [Targets -> SUBSET Times]
    BY <2>3, <2>4 DEF UnseenInv
  <2>6. ASSUME target # "sensor_1hour"
        PROVE  unseen["sensor_1hour"] \subseteq left
    BY <2>2, <2>6 DEF UnseenInv, Takes
  <2>7. ASSUME NEW other \in Targets
        PROVE  unseen'["sensor_1hour"] \subseteq unseen'[other]
    <3>1. unseen["sensor_1hour"] \subseteq unseen[other]
      BY DEF UnseenInv
    <3>2. /\ unseen'[other] = IF other = target THEN left ELSE unseen[other]
          /\ unseen'["sensor_1hour"] = IF "sensor_1hour" = target THEN left ELSE unseen["sensor_1hour"]
      BY <1>1, <2>3 DEF UnseenInv
    <3> QED BY <2>4, <2>6, <3>1, <3>2
  <2> QED BY <2>1, <2>5, <2>7 DEF UnseenInv
<1>4. ASSUME EnsureAccuracyCutoff, UNCHANGED unseen
      PROVE  UnseenInv'
  <2>1. PICK oldest \in Times :
          accuracy_cutoff' = IF accuracy_cutoff = Nil THEN Bucket(Day, oldest) + Day
                                                      ELSE accuracy_cutoff
    BY <1>4 DEF EnsureAccuracyCutoff
  <2>2. Bucket(Day, oldest) + Day \in Nat
    BY TimesFinite, DayStart
  <2>3. accuracy_cutoff' # Nil
    BY <2>1, <2>2, ConstantsAssumption
  <2> QED BY <1>4, <2>3 DEF UnseenInv
<1>5. ASSUME RetainSensorMinute, UNCHANGED unseen
      PROVE  UnseenInv'
  <2>1. MinuteRows' \subseteq MinuteRows
    BY <1>5 DEF RetainSensorMinute, MinuteRows
  <2> QED BY <1>5, <2>1 DEF RetainSensorMinute, UnseenInv
<1>6. ASSUME UNCHANGED <<sensor_minute, accuracy_cutoff, unseen>>
      PROVE  UnseenInv'
  BY <1>6 DEF UnseenInv, MinuteRows
<1> QED BY <1>2, <1>3, <1>4, <1>5, <1>6
        DEF HistoryNext, Write, Refresh, Other, Tick, Wake, Fail, historyVars, vars

\* Time and the cutoff go on, and so does the window.
LEMMA WindowMoves ==
    ASSUME Typed, [Next]_vars
    PROVE  /\ clock' \in Nat /\ clock' >= clock
           /\ accuracy_cutoff # Nil =>
                 /\ accuracy_cutoff' = accuracy_cutoff
                 /\ \A b \in Times : Covered(b)' => Covered(b)
<1>1. clock \in Nat /\ Lookback \in Nat
  BY TimesFinite, ConstantsAssumption DEF Typed, CutoffInv
<1>2. clock' \in Nat /\ clock' >= clock
  BY <1>1 DEF Next, Maintain, Tick, UpsertMinute, Wake, EnsureAccuracyCutoff, RefreshRollup,
              RetainSensorMinute, Fail, vars
<1>3. ASSUME accuracy_cutoff # Nil
      PROVE  accuracy_cutoff' = accuracy_cutoff
  BY <1>3 DEF Next, Maintain, Tick, UpsertMinute, Wake, EnsureAccuracyCutoff, RefreshRollup,
              RetainSensorMinute, Fail, vars
<1>4. ASSUME accuracy_cutoff # Nil, NEW b \in Times, Covered(b)'
      PROVE  Covered(b)
  <2>1. accuracy_cutoff \in Nat /\ b \in Nat
    BY <1>4, TimesFinite DEF Typed, CutoffInv
  <2>2. b >= IF clock' - Lookback > accuracy_cutoff THEN clock' - Lookback ELSE accuracy_cutoff
    <3>1. b >= From'
      BY <1>4 DEF Covered
    <3>2. From' = IF clock' - Lookback > accuracy_cutoff THEN clock' - Lookback
                                                         ELSE accuracy_cutoff
      BY <1>3, <1>4 DEF From
    <3> QED BY <3>1, <3>2
  <2>3. b >= IF clock - Lookback > accuracy_cutoff THEN clock - Lookback ELSE accuracy_cutoff
    <3>1. PICK now \in Nat : now = clock
      BY <1>1
    <3>2. PICK later \in Nat : later = clock' /\ later >= now
      BY <1>2, <3>1
    <3>3. PICK c \in Nat : c = accuracy_cutoff
      BY <2>1
    <3>4. PICK back \in Nat : back = Lookback
      BY <1>1
    <3>5. PICK start \in Nat : start = b
      BY <2>1
    <3>6. start >= IF later - back > c THEN later - back ELSE c
      BY <2>2, <3>2, <3>3, <3>4, <3>5
    <3>7. later >= now
      BY <3>2
    <3>8. start >= IF now - back > c THEN now - back ELSE c
      BY <3>6, <3>7
    <3> QED BY <3>1, <3>3, <3>4, <3>5, <3>8
  <2> QED BY <1>4, <2>3 DEF Covered, From
<1> QED BY <1>2, <1>3, <1>4

\* An hour keeps minutes while retention spares it.
LEMMA HoursHaveMinutesStep ==
    Typed /\ HoursHaveMinutes /\ [Next]_vars => HoursHaveMinutes'
<1> SUFFICES ASSUME Typed, HoursHaveMinutes, [Next]_vars,
                    NEW h \in Times, rollup'["sensor_1hour"][h] \in Row,
                    h >= clock' - RetainMinute
             PROVE  MinutesOf("sensor_1hour", h)' # {}
  BY DEF HoursHaveMinutes
<1>1. /\ TypeOK /\ DOMAIN rollup = Targets /\ "sensor_1hour" \in Targets
      /\ clock \in Nat /\ RetainMinute \in Nat /\ h \in Nat
      /\ Hour \in Nat \ {0} /\ Length["sensor_1hour"] = Hour
  BY TimesFinite, Sizes, ConstantsAssumption DEF Typed, CutoffInv, Targets
<1>2. PICK M : M = MinutesOf("sensor_1hour", h)
  OBVIOUS
<1>3. ASSUME rollup'["sensor_1hour"][h] = rollup["sensor_1hour"][h], h >= clock - RetainMinute
      PROVE  M # {}
  BY <1>2, <1>3 DEF HoursHaveMinutes
<1>4. ASSUME NEW t \in M, t \in MinuteRows'
      PROVE  MinutesOf("sensor_1hour", h)' # {}
  BY <1>2, <1>4 DEF MinutesOf
<1>5. ASSUME NEW t \in Times, NEW v \in Values \cup {Nil}, UpsertMinute(t, v)
      PROVE  MinutesOf("sensor_1hour", h)' # {}
  <2>1. MinuteRows \subseteq MinuteRows'
    <3>1. sensor_minute \in [Times -> Values \cup {Nil, NoRow}]
      BY <1>1 DEF TypeOK
    <3>2. v # NoRow
      BY ConstantsAssumption
    <3>3. \A u \in Times : sensor_minute[u] # NoRow => sensor_minute'[u] # NoRow
      BY <1>5, <3>1, <3>2 DEF UpsertMinute
    <3> QED BY <3>3 DEF MinuteRows
  <2>2. M # {}
    BY <1>3, <1>5 DEF UpsertMinute
  <2> QED BY <1>2, <1>4, <2>1, <2>2 DEF MinutesOf
<1>6. ASSUME NEW target \in Targets, RefreshRollup(target)
      PROVE  MinutesOf("sensor_1hour", h)' # {}
  <2>1. clock' = clock /\ MinuteRows' = MinuteRows
    BY <1>6 DEF RefreshRollup, MinuteRows
  <2>2. ASSUME rollup'["sensor_1hour"][h] # rollup["sensor_1hour"][h]
        PROVE  M # {}
    <3>1. target = "sensor_1hour"
      BY <1>1, <1>6, <2>2, RefreshedRow
    <3>2. InBucket(target, h) # {}
      BY <1>1, <1>6, <2>2, <3>1, RefreshedRow
    <3>3. PICK t \in Times : Source(target)[t] # NoRow /\ Bucket(Length[target], t) = h
      BY <3>2 DEF InBucket
    <3>4. sensor_minute[t] # NoRow
      BY <3>1, <3>3 DEF Source
    <3> QED BY <1>2, <3>1, <3>3, <3>4 DEF MinutesOf, MinuteRows
  <2>3. M # {}
    BY <1>3, <2>1, <2>2
  <2> QED BY <1>2, <1>4, <2>1, <2>3 DEF MinutesOf
<1>7. ASSUME RetainSensorMinute
      PROVE  MinutesOf("sensor_1hour", h)' # {}
  <2>1. h >= clock - RetainMinute
    BY <1>7 DEF RetainSensorMinute
  <2>2. PICK t \in M : TRUE
    BY <1>3, <1>7, <2>1 DEF RetainSensorMinute
  <2>3. t \in Times /\ sensor_minute[t] # NoRow /\ Bucket(Hour, t) = h
    BY <1>1, <1>2, <2>2 DEF MinutesOf, MinuteRows
  <2>4. t \in Nat /\ h \in 0..t
    BY <1>1, <2>3, TimesFinite, BucketStart
  <2>5. ~(t < clock - RetainMinute)
    BY <1>1, <2>1, <2>4
  <2>6. sensor_minute'[t] = sensor_minute[t]
    BY <1>7, <2>3, <2>5 DEF RetainSensorMinute
  <2> QED BY <1>4, <2>2, <2>3, <2>6 DEF MinuteRows
<1>8. ASSUME UNCHANGED <<sensor_minute, rollup>>
      PROVE  MinutesOf("sensor_1hour", h)' # {}
  <2>1. clock' \in Nat /\ clock' >= clock
    BY WindowMoves
  <2>2. h >= clock - RetainMinute
    BY <1>1, <2>1
  <2>3. M # {} /\ MinuteRows' = MinuteRows
    BY <1>3, <1>8, <2>2 DEF MinuteRows
  <2> QED BY <1>2, <2>3 DEF MinutesOf
<1> QED BY <1>5, <1>6, <1>7, <1>8
        DEF Next, Maintain, Tick, Wake, EnsureAccuracyCutoff, Fail, vars

\* And so is what it says of the rows.
LEMMA AccuracyStep == AccuracyInv /\ [HistoryNext]_historyVars => SeenBucketsAccurate'
<1> SUFFICES ASSUME AccuracyInv, [HistoryNext]_historyVars,
                    NEW target \in Targets, NEW b \in Times, b % Length[target] = 0,
                    Covered(b)', TakenIn(target, b)'
             PROVE  Accurate(target, b)'
  BY DEF SeenBucketsAccurate
<1>1. /\ Typed /\ UnseenInv /\ HoursHaveMinutes /\ SeenBucketsAccurate
      /\ TypeOK /\ DOMAIN rollup = Targets
  BY DEF AccuracyInv, Typed, CutoffInv
<1>2. ASSUME accuracy_cutoff # Nil
      PROVE  Covered(b)
  BY <1>1, <1>2, HistoryIsStep, WindowMoves
<1>3. ASSUME Covered(b), \A t \in unseen[target] : t \in unseen'[target],
             rollup'[target] = rollup[target],
             \A t \in Times : Bucket(Length[target], t) = b => sensor_minute'[t] = sensor_minute[t]
      PROVE  Accurate(target, b)'
  <2>1. TakenIn(target, b)
    BY <1>3 DEF TakenIn
  <2>2. Accurate(target, b)
    BY <1>1, <1>3, <2>1 DEF SeenBucketsAccurate
  <2> QED BY <1>3, <2>2, AccurateKept
<1>4. ASSUME NEW t \in Times, NEW v \in Values \cup {Nil}, UpsertMinute(t, v),
             unseen' = [other \in Targets |-> unseen[other] \cup {t}]
      PROVE  Accurate(target, b)'
  <2>1. t \in unseen'[target] /\ \A u \in unseen[target] : u \in unseen'[target]
    BY <1>4
  <2>2. Bucket(Length[target], t) # b
    BY <2>1 DEF TakenIn
  <2>3. \A u \in Times : u # t => sensor_minute'[u] = sensor_minute[u]
    BY <1>1, <1>4 DEF UpsertMinute, TypeOK
  <2>4. accuracy_cutoff # Nil
    BY <1>4 DEF UpsertMinute, Covered
  <2> QED BY <1>2, <1>3, <1>4, <2>1, <2>2, <2>3, <2>4 DEF UpsertMinute
<1>5. ASSUME NEW other \in Targets, RefreshRollup(other),
             unseen' = [unseen EXCEPT ![other] = {t \in @ : ~Takes(other, t)}]
      PROVE  Accurate(target, b)'
  <2>1. accuracy_cutoff # Nil /\ UNCHANGED sensor_minute
    BY <1>5 DEF RefreshRollup, Covered
  <2>2. Covered(b)
    BY <1>2, <2>1
  <2>3. ASSUME other # target
        PROVE  Accurate(target, b)'
    <3>1. rollup'[target] = rollup[target]
      BY <1>1, <1>5, <2>3, RefreshedRow
    <3>2. unseen'[target] = unseen[target]
      BY <1>1, <1>5, <2>3 DEF UnseenInv
    <3> QED BY <1>3, <2>1, <2>2, <3>1, <3>2
  <2>4. ASSUME other = target, target = "sensor_1hour"
        PROVE  Accurate(target, b)'
    BY <1>1, <1>5, <2>2, <2>4, HourRefreshed, Sizes
  <2>5. ASSUME other = target, target # "sensor_1hour"
        PROVE  Accurate(target, b)'
    BY <1>5, <2>2, <2>5, CoarseRefreshed
  <2> QED BY <2>3, <2>4, <2>5
<1>6. ASSUME EnsureAccuracyCutoff, UNCHANGED unseen
      PROVE  Accurate(target, b)'
  <2>1. UNCHANGED <<sensor_minute, rollup>>
    BY <1>6 DEF EnsureAccuracyCutoff
  <2>2. ASSUME accuracy_cutoff = Nil
        PROVE  Accurate(target, b)'
    <3>1. MinutesOf(target, b) = {}
      BY <1>1, <1>6, <2>2 DEF UnseenInv, MinutesOf, TakenIn
    <3> QED BY <1>1, <2>1, <3>1, BecomesAccurate
  <2> QED BY <1>2, <1>3, <1>6, <2>1, <2>2
<1>7. ASSUME RetainSensorMinute, UNCHANGED unseen
      PROVE  Accurate(target, b)'
  <2>1. accuracy_cutoff # Nil /\ UNCHANGED rollup
    BY <1>7 DEF RetainSensorMinute, Covered
  <2>2. Covered(b)
    BY <1>2, <2>1
  <2>3. ASSUME NEW t \in Times, Bucket(Length[target], t) = b
        PROVE  sensor_minute'[t] = sensor_minute[t]
    <3>1. t \in Nat /\ t >= b /\ b \in Nat
      BY <1>1, <2>2, <2>3, HourWithin, TimesFinite
    <3>2. /\ From \in Int /\ From >= clock - RetainMinute /\ clock \in Nat /\ RetainMinute \in Nat
          /\ b >= From
      BY <1>1, <2>1, <2>2, FromNumber DEF Covered
    <3>3. PICK from \in Int : from = From
      BY <3>2
    <3>4. ~(t < clock - RetainMinute)
      BY <3>1, <3>2, <3>3
    <3> QED BY <1>7, <2>3, <3>4 DEF RetainSensorMinute
  <2> QED BY <1>3, <1>7, <2>1, <2>2, <2>3
<1>8. ASSUME UNCHANGED <<sensor_minute, rollup, accuracy_cutoff, unseen>>
      PROVE  Accurate(target, b)'
  <2>1. accuracy_cutoff # Nil
    BY <1>8 DEF Covered
  <2> QED BY <1>2, <1>3, <1>8, <2>1
<1> QED BY <1>4, <1>5, <1>6, <1>7, <1>8
        DEF HistoryNext, Write, Refresh, Other, Tick, Wake, Fail, historyVars, vars

\* A row of a bucket that the next refresh covers is exact unless one of its
\* minutes was written since: for every bucket size, lookback and retention, and
\* every order of upserts, statements and failures.
THEOREM SeenBucketsAlwaysAccurate == HistorySpec => []SeenBucketsAccurate
<1>1. HistoryInit => AccuracyInv
  <2> SUFFICES ASSUME HistoryInit PROVE AccuracyInv
    OBVIOUS
  <2>1. Typed
    BY TypedInit DEF HistoryInit
  <2>2. UnseenInv
    BY DEF HistoryInit, UnseenInv, MinuteRows, Targets
  <2>3. HoursHaveMinutes
    <3>1. \A h \in Times : rollup["sensor_1hour"][h] \in {OldRow, NoRow}
      BY DEF HistoryInit, Init, Targets
    <3>2. OldRow \notin Row /\ NoRow \notin Row
      BY ConstantsAssumption DEF OldRow, Row
    <3> QED BY <3>1, <3>2 DEF HoursHaveMinutes
  <2>4. SeenBucketsAccurate
    BY DEF HistoryInit, Init, SeenBucketsAccurate, Covered
  <2> QED BY <2>1, <2>2, <2>3, <2>4 DEF AccuracyInv
<1>2. AccuracyInv /\ [HistoryNext]_historyVars => AccuracyInv'
  BY HistoryIsStep, TypedStep, UnseenStep, HoursHaveMinutesStep, AccuracyStep DEF AccuracyInv
<1>3. AccuracyInv => SeenBucketsAccurate
  BY DEF AccuracyInv
<1> QED BY <1>1, <1>2, <1>3, PTL DEF HistorySpec

\* The record adds nothing: its behaviours are behaviours of SensorRollup, so
\* what holds of those holds of these.
THEOREM RecordOnlyWatches == HistorySpec => Spec
<1>1. HistoryInit => Init
  BY DEF HistoryInit
<1> QED BY <1>1, HistoryIsStep, PTL DEF HistorySpec, Spec

\* The record is of minutes, by table.
THEOREM HistoryTypeCorrect == HistorySpec => []HistoryTypeOK
<1>1. HistoryInit => Typed /\ UnseenInv
  <2> SUFFICES ASSUME HistoryInit PROVE UnseenInv
    BY TypedInit DEF HistoryInit
  <2> QED BY DEF HistoryInit, UnseenInv, MinuteRows, Targets
<1>2. Typed /\ UnseenInv /\ [HistoryNext]_historyVars => (Typed /\ UnseenInv)'
  BY HistoryIsStep, TypedStep, UnseenStep
<1>3. Typed /\ UnseenInv => HistoryTypeOK
  BY DEF Typed, UnseenInv, HistoryTypeOK
<1> QED BY <1>1, <1>2, <1>3, PTL DEF HistorySpec
=============================================================================
