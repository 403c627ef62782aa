---------------------------- MODULE RecorderProofs ----------------------------
(* What the recorder of a run holds, for any round trip times, rates, numbers  *)
(* of packets and of buckets; what the report and the verdicts made of it say; *)
(* the types of both commands, and that a run of test is a ProbeRun.           *)
EXTENDS BatchCommandProofs, FiniteSetTheorems, SequenceTheorems, WellFoundedInduction

-----------------------------------------------------------------------------
(* Buckets *)

(* A bounded set of numbers has a largest one: the smallest distance from the  *)
(* bound belongs to it.                                                        *)
LEMMA LargestElement ==
    ASSUME NEW n \in Nat, NEW S \in SUBSET (0 .. n), S # {}
    PROVE  Max(S) \in S /\ \A y \in S : y <= Max(S)
<1> DEFINE Distances == {n - x : x \in S}
<1>1. \A x \in S : n - x \in Nat
    OBVIOUS
<1>2. Distances \subseteq Nat /\ Distances # {}
    BY <1>1
<1>3. PICK d \in Distances : \A e \in Distances : ~ (<<e, d>> \in OpToRel(<, Nat))
    BY <1>2, NatLessThanWellFounded, WFMin
<1>4. \A e \in Distances : ~ (e < d)
    BY <1>2, <1>3 DEF OpToRel
<1>5. PICK x \in S : d = n - x
    OBVIOUS
<1>6. \A y \in S : x >= y
  <2> SUFFICES ASSUME NEW y \in S PROVE x >= y
    OBVIOUS
  <2>1. ~ (n - y < n - x)
    BY <1>4, <1>5
  <2> QED
    BY <2>1
<1> HIDE DEF Distances
<1>7. Max(S) \in S /\ \A y \in S : Max(S) >= y
    BY <1>6 DEF Max
<1> QED
    BY <1>7

Within(v) == {b \in Buckets : b = 0 \/ 2^b <= v * v * v}

LEMMA BucketOf ==
    ASSUME NEW v \in Nat
    PROVE  Bucket(v) \in Within(v) /\ \A b \in Within(v) : b <= Bucket(v)
<1>1. BucketCount - 1 \in Nat /\ Within(v) \in SUBSET (0 .. BucketCount - 1) /\ 0 \in Within(v)
    BY BucketCountAssumption DEF Within, Buckets
<1>2. Max(Within(v)) \in Within(v) /\ \A b \in Within(v) : b <= Max(Within(v))
    BY <1>1, LargestElement
<1>3. Bucket(v) = Max(Within(v))
    BY DEF Bucket, Within
<1> QED
    BY <1>2, <1>3

LEMMA CubesGrow ==
    ASSUME NEW v \in Nat, NEW w \in Nat, v <= w
    PROVE  v * v * v <= w * w * w /\ v * v * v \in Nat /\ w * w * w \in Nat
<1>1. v * v <= w * w /\ v * v \in Nat /\ w * w \in Nat
    OBVIOUS
<1>2. ASSUME NEW a \in Nat, NEW c \in Nat, a <= c PROVE a * v <= c * w /\ a * v \in Nat /\ c * w \in Nat
    BY <1>2
<1> QED
    BY <1>1, <1>2

(* Longer latencies go into the same bucket or a later one. *)
LEMMA BucketsGrow ==
    ASSUME NEW v \in Nat, NEW w \in Nat, v <= w
    PROVE  Bucket(v) <= Bucket(w) /\ Bucket(v) \in Buckets /\ Bucket(w) \in Buckets
<1>1. Bucket(v) \in Within(v) /\ Bucket(w) \in Within(w)
    BY BucketOf
<1>2. Within(v) \subseteq Within(w)
  <2> SUFFICES ASSUME NEW b \in Buckets, 2^b <= v * v * v PROVE 2^b <= w * w * w
    BY DEF Within
  <2>1. ASSUME NEW x \in Nat, NEW y \in Nat, x <= y, 2^b <= x PROVE 2^b <= y
    BY <2>1 DEF Buckets
  <2> QED
    BY <2>1, CubesGrow
<1>3. Bucket(v) \in Within(w)
    BY <1>1, <1>2
<1>4. Bucket(v) <= Bucket(w)
    BY <1>3, BucketOf
<1> QED
    BY <1>1, <1>4 DEF Within

-----------------------------------------------------------------------------
(* Histograms *)

LEMMA OneRecorded ==
    ASSUME NEW h \in Histogram, NEW v \in Nat
    PROVE  /\ Recorded(h, v) \in Histogram
           /\ \A b \in Buckets : Recorded(h, v)[b] = IF b = Bucket(v) THEN h[b] + 1 ELSE h[b]
<1>1. Bucket(v) \in Buckets
    BY BucketsGrow
<1> QED
    BY <1>1 DEF Recorded, Histogram

(* What a slow packet held up waited at least one interval and less than it. *)
LEMMA MissingBetween ==
    ASSUME NEW v \in Nat, NEW i \in Nat, i > 0
    PROVE  Missing(v, i) \subseteq i .. v /\ IsFiniteSet(Missing(v, i))
<1>1. \A k \in 1 .. v : k * i \in Nat
    OBVIOUS
<1>2. Missing(v, i) \subseteq i .. v
    BY <1>1 DEF Missing
<1>3. IsFiniteSet(i .. v)
    BY FS_Interval
<1> QED
    BY <1>2, <1>3, FS_Subset

LEMMA CorrectedRecorded ==
    ASSUME NEW h \in Histogram, NEW v \in Nat, NEW i \in Nat, i > 0
    PROVE  /\ RecordedCorrected(h, v, i) \in Histogram
           /\ \A b \in Buckets :
                 /\ RecordedCorrected(h, v, i)[b] >= Recorded(h, v)[b]
                 /\ RecordedCorrected(h, v, i)[b] > Recorded(h, v)[b] =>
                       Bucket(i) <= b /\ b <= Bucket(v)
<1> DEFINE Held(b) == {m \in Missing(v, i) : Bucket(m) = b}
<1>1. ASSUME NEW b \in Buckets
      PROVE  Cardinality(Held(b)) \in Nat /\ (Cardinality(Held(b)) # 0 => Held(b) # {})
  <2>1. IsFiniteSet(Missing(v, i)) /\ Held(b) \in SUBSET Missing(v, i)
    BY MissingBetween
  <2>2. IsFiniteSet(Held(b))
    BY <2>1, FS_Subset
  <2> HIDE DEF Held
  <2> QED
    BY <2>2, FS_CardinalityType, FS_EmptySet
<1>2. ASSUME NEW b \in Buckets, Held(b) # {} PROVE Bucket(i) <= b /\ b <= Bucket(v)
  <2>1. PICK m \in Missing(v, i) : Bucket(m) = b
    BY <1>2
  <2>2. m \in Nat /\ i <= m /\ m <= v
    BY MissingBetween
  <2> QED
    BY <2>1, <2>2, BucketsGrow
<1>3. RecordedCorrected(h, v, i) = [b \in Buckets |-> Recorded(h, v)[b] + Cardinality(Held(b))]
    BY DEF RecordedCorrected
<1> HIDE DEF Held
<1>4. Recorded(h, v) \in [Buckets -> Nat]
    BY OneRecorded DEF Histogram
<1>5. ASSUME NEW b \in Buckets
      PROVE  /\ RecordedCorrected(h, v, i)[b] = Recorded(h, v)[b] + Cardinality(Held(b))
             /\ RecordedCorrected(h, v, i)[b] \in Nat /\ Recorded(h, v)[b] \in Nat
    BY <1>1, <1>3, <1>4
<1>6. RecordedCorrected(h, v, i) \in Histogram
    BY <1>3, <1>5 DEF Histogram
<1>7. ASSUME NEW b \in Buckets
      PROVE  /\ RecordedCorrected(h, v, i)[b] >= Recorded(h, v)[b]
             /\ RecordedCorrected(h, v, i)[b] > Recorded(h, v)[b] => Held(b) # {}
    BY <1>1, <1>5
<1> QED
    BY <1>2, <1>6, <1>7

(* The correction, said of two histograms. *)
Gaps(co, h, i) ==
    \A b \in Buckets :
        /\ co[b] >= h[b]
        /\ co[b] > h[b] => b >= Bucket(i) /\ \E c \in Buckets : c >= b /\ h[c] > 0

LEMMA GapsStay ==
    ASSUME NEW co \in Histogram, NEW h \in Histogram, NEW v \in Nat, NEW i \in Nat, i > 0,
           Gaps(co, h, i)
    PROVE  Gaps(RecordedCorrected(co, v, i), Recorded(h, v), i)
<1> DEFINE co2 == RecordedCorrected(co, v, i)
           h2 == Recorded(h, v)
           mid == Recorded(co, v)
<1>1. /\ h2 \in [Buckets -> Nat] /\ mid \in [Buckets -> Nat]
      /\ \A b \in Buckets : /\ h2[b] = IF b = Bucket(v) THEN h[b] + 1 ELSE h[b]
                            /\ mid[b] = IF b = Bucket(v) THEN co[b] + 1 ELSE co[b]
    BY OneRecorded DEF Histogram
<1>2. /\ co2 \in [Buckets -> Nat]
      /\ \A b \in Buckets : /\ co2[b] >= mid[b]
                            /\ co2[b] > mid[b] => Bucket(i) <= b /\ b <= Bucket(v)
    BY CorrectedRecorded DEF Histogram
<1>3. co \in [Buckets -> Nat] /\ h \in [Buckets -> Nat] /\ Bucket(v) \in Buckets /\ Bucket(i) \in Nat
      /\ Buckets \subseteq Nat
  <2>1. Bucket(v) \in Buckets /\ Bucket(i) \in Buckets
    BY BucketsGrow
  <2>2. Buckets \subseteq Nat
    BY DEF Buckets
  <2> QED
    BY <2>1, <2>2 DEF Histogram
<1> HIDE DEF co2, h2, mid
<1> SUFFICES ASSUME NEW b \in Buckets
             PROVE  /\ co2[b] >= h2[b]
                    /\ co2[b] > h2[b] => b >= Bucket(i) /\ \E c \in Buckets : c >= b /\ h2[c] > 0
    BY DEF Gaps, co2, h2
<1>4. co[b] >= h[b] /\ (co[b] > h[b] => b >= Bucket(i) /\ \E c \in Buckets : c >= b /\ h[c] > 0)
    BY DEF Gaps
<1>5. co2[b] \in Nat /\ mid[b] \in Nat /\ h2[b] \in Nat /\ co[b] \in Nat /\ h[b] \in Nat
    BY <1>1, <1>2, <1>3
<1>6. co2[b] >= h2[b]
    BY <1>1, <1>2, <1>4, <1>5
<1>7. CASE co2[b] > mid[b]
  <2>1. Bucket(i) <= b /\ b <= Bucket(v)
    BY <1>2, <1>7
  <2>2. h2[Bucket(v)] = h[Bucket(v)] + 1 /\ h[Bucket(v)] \in Nat
    BY <1>1, <1>3
  <2>3. b \in Nat /\ Bucket(v) \in Nat
    BY <1>3
  <2> QED
    BY <1>3, <1>6, <2>1, <2>2, <2>3
<1>8. CASE co2[b] <= mid[b] /\ co2[b] > h2[b]
  <2>1. co[b] > h[b]
    BY <1>1, <1>5, <1>8
  <2>2. PICK c \in Buckets : c >= b /\ h[c] > 0
    BY <1>4, <2>1
  <2>3. h2[c] > 0
    BY <1>1, <1>3, <2>2
  <2> QED
    BY <1>4, <1>6, <2>1, <2>2, <2>3
<1> QED
    BY <1>5, <1>6, <1>7, <1>8

LEMMA NothingRecorded ==
    /\ EmptyHistogram \in Histogram
    /\ \A i : Gaps(EmptyHistogram, EmptyHistogram, i)
BY DEF EmptyHistogram, Histogram, Gaps

-----------------------------------------------------------------------------
(* Sums over a histogram *)

(* Numbering the samples of every bucket turns a sum of counts into the size   *)
(* of a set, whose growth is easier to follow than a fold.                     *)
Samples(h, S) == {p \in S \X Nat : p[2] \in 1 .. h[p[1]]}

LEMMA SamplesAdd ==
    ASSUME NEW D, NEW h \in [D -> Nat], NEW S \in SUBSET D, IsFiniteSet(Samples(h, S)),
           NEW x \in D, x \notin S
    PROVE  /\ IsFiniteSet(Samples(h, S \union {x}))
           /\ Cardinality(Samples(h, S \union {x})) = h[x] + Cardinality(Samples(h, S))
<1> DEFINE Own == {x} \X (1 .. h[x])
<1>1. IsFiniteSet({x}) /\ Cardinality({x}) = 1
    BY FS_Singleton
<1>2. h[x] \in Nat /\ IsFiniteSet(1 .. h[x]) /\ Cardinality(1 .. h[x]) = h[x]
    BY FS_Interval
<1>3. IsFiniteSet(Own) /\ Cardinality(Own) = 1 * h[x]
    BY <1>1, <1>2, FS_Product
<1>4. Samples(h, S \union {x}) = Samples(h, S) \union Own /\ Samples(h, S) \intersect Own = {}
    BY DEF Samples
<1>5. Cardinality(Samples(h, S)) \in Nat
    BY FS_CardinalityType
<1> HIDE DEF Own
<1>6. Cardinality({}) = 0
    BY FS_EmptySet
<1>7. /\ IsFiniteSet(Samples(h, S) \union Own)
      /\ Cardinality(Samples(h, S) \union Own) =
             Cardinality(Samples(h, S)) + Cardinality(Own) - Cardinality(Samples(h, S) \intersect Own)
    BY <1>3, FS_Union
<1>8. Cardinality(Own) = h[x] /\ Cardinality(Samples(h, S) \intersect Own) = 0
  <2>1. \A n \in Nat : 1 * n = n
    OBVIOUS
  <2>2. Cardinality(Own) = h[x]
    BY <1>2, <1>3, <2>1
  <2> QED
    BY <1>4, <1>6, <2>2
<1>9. Cardinality(Samples(h, S) \union Own) = h[x] + Cardinality(Samples(h, S))
    BY <1>2, <1>5, <1>7, <1>8
<1> QED
    BY <1>4, <1>7, <1>9

(* Subsets of a finite set cannot shrink for ever. *)
LEMMA NoSmallest ==
    ASSUME NEW S, IsFiniteSet(S), NEW B \in SUBSET SUBSET S, B # {}
    PROVE  \E s \in B : \A t \in B : ~ (t \subseteq s /\ t # s)
<1>1. \A s \in SUBSET S : IsFiniteSet(s) /\ Cardinality(s) \in Nat
    BY FS_Subset, FS_CardinalityType
<1> DEFINE Sizes == {Cardinality(s) : s \in B}
<1>2. Sizes \subseteq Nat /\ Sizes # {}
    BY <1>1
<1> HIDE DEF Sizes
<1>3. PICK n \in Sizes : \A m \in Sizes : ~ (<<m, n>> \in OpToRel(<, Nat))
    BY <1>2, NatLessThanWellFounded, WFMin
<1>4. \A m \in Sizes : ~ (m < n)
    BY <1>2, <1>3 DEF OpToRel
<1>5. PICK s \in B : n = Cardinality(s)
    BY DEF Sizes
<1>6. ASSUME NEW t \in B, t \subseteq s, t # s PROVE FALSE
  <2>1. Cardinality(t) <= Cardinality(s) /\ (Cardinality(s) = Cardinality(t) => s = t)
    BY <1>1, <1>6, FS_Subset
  <2>2. Cardinality(t) \in Sizes
    BY DEF Sizes
  <2> QED
    BY <1>1, <1>4, <1>5, <1>6, <2>1, <2>2
<1> QED
    BY <1>6

(* The fold that defines the sum is a function on sets, and so is the number   *)
(* of samples; no smallest set tells them apart.                               *)
LEMMA SumCounts ==
    ASSUME NEW D, NEW h \in [D -> Nat], NEW S \in SUBSET D, IsFiniteSet(S)
    PROVE  /\ IsFiniteSet(Samples(h, S))
           /\ MapThenSumSet(LAMBDA i : h[i], S) = Cardinality(Samples(h, S))
<1> DEFINE Equation(f) ==
               f = [s \in SUBSET S |->
                       IF s = {} THEN 0 ELSE h[CHOOSE x \in s : TRUE] + f[s \ {CHOOSE x \in s : TRUE}]]
           counted == [s \in SUBSET S |-> Cardinality(Samples(h, s))]
           iter == CHOOSE f : Equation(f)
<1>1. ASSUME NEW s \in SUBSET S PROVE IsFiniteSet(Samples(h, s))
  <2> DEFINE B == {t \in SUBSET S : ~ IsFiniteSet(Samples(h, t))}
  <2> SUFFICES ASSUME B # {} PROVE FALSE
    OBVIOUS
  <2>0. B \in SUBSET SUBSET S
    OBVIOUS
  <2> HIDE DEF B
  <2>1. PICK t \in B : \A u \in B : ~ (u \subseteq t /\ u # t)
    BY <2>0, NoSmallest
  <2> USE DEF B
  <2>2. Samples(h, {}) = {} /\ IsFiniteSet({})
    BY FS_EmptySet DEF Samples
  <2>3. PICK x \in t : TRUE
    BY <2>1, <2>2
  <2>4. IsFiniteSet(Samples(h, t \ {x}))
    BY <2>1, <2>3
  <2>5. (t \ {x}) \union {x} = t /\ x \in D /\ t \ {x} \in SUBSET D /\ x \notin t \ {x}
    BY <2>3
  <2> QED
    BY <2>1, <2>4, <2>5, SamplesAdd
<1>2. Equation(counted)
  <2>1. Cardinality(Samples(h, {})) = 0
    BY FS_EmptySet DEF Samples
  <2>2. ASSUME NEW s \in SUBSET S, s # {}
        PROVE  counted[s] = h[CHOOSE x \in s : TRUE] + counted[s \ {CHOOSE x \in s : TRUE}]
    <3> DEFINE c == CHOOSE x \in s : TRUE
    <3>1. c \in s
      BY <2>2
    <3> HIDE DEF c
    <3>2. (s \ {c}) \union {c} = s /\ c \in D /\ s \ {c} \in SUBSET D /\ c \notin s \ {c} /\ s \ {c} \in SUBSET S
      BY <3>1
    <3>3. IsFiniteSet(Samples(h, s \ {c}))
      BY <1>1, <3>2
    <3>4. Cardinality(Samples(h, s)) = h[c] + Cardinality(Samples(h, s \ {c}))
      BY <3>2, <3>3, SamplesAdd
    <3>5. counted[s] = h[c] + counted[s \ {c}]
      BY <3>2, <3>4
    <3> QED
      BY <3>5 DEF c
  <2>3. \A s \in SUBSET S :
            counted[s] = IF s = {} THEN 0
                         ELSE h[CHOOSE x \in s : TRUE] + counted[s \ {CHOOSE x \in s : TRUE}]
    BY <2>1, <2>2
  <2>4. counted = [s \in SUBSET S |-> counted[s]]
    OBVIOUS
  <2> HIDE DEF counted
  <2> QED
    BY <2>3, <2>4
<1>3. Equation(iter)
    BY <1>2
<1>4. MapThenSumSet(LAMBDA i : h[i], S) = iter[S]
    BY DEF MapThenSumSet, MapThenFoldSet
<1> HIDE DEF iter
<1>5. iter[S] = counted[S]
  <2> DEFINE B == {t \in SUBSET S : iter[t] # counted[t]}
  <2> SUFFICES ASSUME B # {} PROVE FALSE
    OBVIOUS
  <2>0. B \in SUBSET SUBSET S
    OBVIOUS
  <2> HIDE DEF B
  <2>1. PICK t \in B : \A u \in B : ~ (u \subseteq t /\ u # t)
    BY <2>0, NoSmallest
  <2> USE DEF B
  <2>2. CASE t = {}
    BY <1>2, <1>3, <2>1, <2>2
  <2>3. CASE t # {}
    <3> DEFINE c == CHOOSE x \in t : TRUE
    <3>1. c \in t
      BY <2>3
    <3>2. iter[t] = h[c] + iter[t \ {c}] /\ counted[t] = h[c] + counted[t \ {c}]
      BY <1>2, <1>3, <2>3
    <3> HIDE DEF c, counted
    <3>3. t \ {c} \in SUBSET S /\ t \ {c} \subseteq t /\ t \ {c} # t
      BY <3>1
    <3>4. iter[t \ {c}] = counted[t \ {c}]
      BY <2>1, <3>3
    <3> QED
      BY <2>1, <3>2, <3>4
  <2> QED
    BY <2>2, <2>3
<1> QED
    BY <1>1, <1>4, <1>5

(* A power of two is the number of subsets, hence a number, and grows. *)
LEMMA PowType == \A n \in Nat : 2^n \in Nat
<1> SUFFICES ASSUME NEW n \in Nat PROVE 2^n \in Nat
    OBVIOUS
<1>1. IsFiniteSet(1 .. n) /\ Cardinality(1 .. n) = n
    BY FS_Interval
<1>2. IsFiniteSet(SUBSET (1 .. n)) /\ Cardinality(SUBSET (1 .. n)) = 2^n
    BY <1>1, FS_SUBSET
<1> QED
    BY <1>2, FS_CardinalityType

LEMMA PowGrow ==
    ASSUME NEW a \in Nat, NEW b \in Nat, a <= b
    PROVE  2^a <= 2^b
<1>1. IsFiniteSet(1 .. b) /\ Cardinality(1 .. b) = b /\ Cardinality(1 .. a) = a /\ IsFiniteSet(1 .. a)
    BY FS_Interval
<1>2. IsFiniteSet(SUBSET (1 .. b)) /\ Cardinality(SUBSET (1 .. b)) = 2^b
    BY <1>1, FS_SUBSET
<1>3. Cardinality(SUBSET (1 .. a)) = 2^a
    BY <1>1, FS_SUBSET
<1>4. SUBSET (1 .. a) \in SUBSET SUBSET (1 .. b)
    OBVIOUS
<1> QED
    BY <1>2, <1>3, <1>4, FS_Subset

LEMMA PowDouble ==
    ASSUME NEW n \in Nat
    PROVE  2^(n + 1) = 2 * 2^n
<1> DEFINE low == SUBSET (1 .. n)
           high == {s \union {n + 1} : s \in low}
           f == [s \in low |-> s \union {n + 1}]
<1>1. /\ IsFiniteSet(1 .. n) /\ Cardinality(1 .. n) = n
      /\ IsFiniteSet(1 .. (n + 1)) /\ Cardinality(1 .. (n + 1)) = n + 1
    BY FS_Interval
<1>2. IsFiniteSet(low) /\ Cardinality(low) = 2^n
    BY <1>1, FS_SUBSET
<1>3. Cardinality(SUBSET (1 .. (n + 1))) = 2^(n + 1)
    BY <1>1, FS_SUBSET
<1>4. n + 1 \notin 1 .. n /\ 1 .. (n + 1) = (1 .. n) \union {n + 1}
    OBVIOUS
<1>5. f \in Bijection(low, high)
  <2>1. \A s, t \in low : s \union {n + 1} = t \union {n + 1} => s = t
    <3> SUFFICES ASSUME NEW s \in low, NEW t \in low, s \union {n + 1} = t \union {n + 1}
                 PROVE  s = t
      OBVIOUS
    <3>1. n + 1 \notin s /\ n + 1 \notin t
      BY <1>4
    <3> QED
      BY <3>1
  <2>2. f \in [low -> high] /\ \A s \in low : f[s] = s \union {n + 1}
    OBVIOUS
  <2>3. \A h \in high : \E s \in low : f[s] = h
    OBVIOUS
  <2> HIDE DEF f, low, high
  <2> QED
    BY <2>1, <2>2, <2>3 DEF Bijection, Injection, Surjection, IsInjective
<1>6. IsFiniteSet(high) /\ Cardinality(high) = 2^n
    BY <1>2, <1>5, FS_Bijection DEF ExistsBijection
<1>7. SUBSET (1 .. (n + 1)) = low \union high
  <2>1. ASSUME NEW s \in SUBSET (1 .. (n + 1)) PROVE s \in low \union high
    <3>1. CASE n + 1 \in s
      <4>1. s \ {n + 1} \in low /\ s = (s \ {n + 1}) \union {n + 1}
        BY <1>4, <3>1
      <4> QED
        BY <4>1
    <3>2. CASE n + 1 \notin s
      BY <1>4, <3>2
    <3> QED
      BY <3>1, <3>2
  <2>2. low \union high \subseteq SUBSET (1 .. (n + 1))
    BY <1>4
  <2> QED
    BY <2>1, <2>2
<1>8. low \intersect high = {}
    BY <1>4
<1>9. Cardinality(low) \in Nat
    BY <1>2, FS_CardinalityType
<1> HIDE DEF low, high, f
<1>10. Cardinality(low \union high) = Cardinality(low) + Cardinality(high) - Cardinality(low \intersect high)
    BY <1>2, <1>6, FS_Union
<1>11. Cardinality(low \intersect high) = 0
    BY <1>8, FS_EmptySet
<1>12. Cardinality(low) = Cardinality(high)
    BY <1>2, <1>6, Zenon
<1>13. Cardinality(low \union high) = 2 * Cardinality(low)
    BY <1>9, <1>10, <1>11, <1>12
<1>14. Cardinality(SUBSET (1 .. (n + 1))) = 2 * Cardinality(low)
    BY <1>7, <1>13, Zenon
<1>15. 2^(n + 1) = 2 * Cardinality(low)
    BY <1>3, <1>14, Zenon
<1> QED
    BY <1>2, <1>15, Zenon

(* A bucket is less than twice as wide, in cubes, as the value it begins at. *)
LEMMA BucketBounds ==
    ASSUME NEW v \in Nat, v > 0
    PROVE  /\ 2^Bucket(v) <= v * v * v
           /\ Bucket(v) < BucketCount - 1 => v * v * v < 2 * 2^Bucket(v)
<1> DEFINE cube == v * v * v
           b == Bucket(v)
<1>1. cube \in Nat /\ 1 <= cube
  <2>1. v * v \in Nat /\ 1 <= v * v
    OBVIOUS
  <2> QED
    BY <2>1
<1>2. b \in Within(v) /\ (\A c \in Within(v) : c <= b) /\ b \in Buckets /\ b \in Nat
    BY BucketOf, BucketsGrow DEF Buckets
<1>3. 2^b \in Nat /\ 2^(b + 1) \in Nat /\ 2^(b + 1) = 2 * 2^b
    BY <1>2, PowType, PowDouble
<1> HIDE DEF b, cube
<1>4. 2^b <= cube
  <2>1. CASE b = 0
    BY <1>1, <2>1
  <2>2. CASE b # 0
    BY <1>2, <2>2 DEF Within, cube
  <2> QED
    BY <2>1, <2>2
<1>5. ASSUME b < BucketCount - 1 PROVE cube < 2 * 2^b
  <2>1. b + 1 \in Buckets /\ ~ (b + 1 <= b)
    BY <1>2, <1>5, BucketCountAssumption DEF Buckets
  <2>2. b + 1 \notin Within(v)
    BY <1>2, <2>1
  <2>3. ~ (2^(b + 1) <= cube)
    BY <2>1, <2>2 DEF Within, cube
  <2>4. cube < 2^(b + 1)
    BY <1>1, <1>3, <2>3
  <2> QED
    BY <1>3, <2>4
<1> QED
    BY <1>4, <1>5 DEF b, cube

-----------------------------------------------------------------------------
(* The histogram counts what was recorded *)

LEMMA CumulativeCounts ==
    ASSUME NEW h \in Histogram, NEW b \in Buckets
    PROVE  /\ IsFiniteSet(Samples(h, 0 .. b))
           /\ Cumulative(h, b) = Cardinality(Samples(h, 0 .. b))
           /\ Cumulative(h, b) \in Nat
<1>1. 0 .. b \in SUBSET Buckets /\ IsFiniteSet(0 .. b)
  <2>1. b \in Int /\ 0 \in Int
    BY DEF Buckets
  <2>2. IsFiniteSet(0 .. b)
    BY <2>1, FS_Interval
  <2> QED
    BY <2>2, BucketCountAssumption DEF Buckets
<1>2. h \in [Buckets -> Nat]
    BY DEF Histogram
<1>3. /\ IsFiniteSet(Samples(h, 0 .. b))
      /\ MapThenSumSet(LAMBDA i : h[i], 0 .. b) = Cardinality(Samples(h, 0 .. b))
    BY <1>1, <1>2, SumCounts
<1>4. Cumulative(h, b) = Cardinality(Samples(h, 0 .. b))
    BY <1>3 DEF Cumulative
<1> QED
    BY <1>3, <1>4, FS_CardinalityType

LEMMA CumulativeRecorded ==
    ASSUME NEW h \in Histogram, NEW v \in Nat, NEW b \in Buckets
    PROVE  Cumulative(Recorded(h, v), b) =
               IF Bucket(v) <= b THEN Cumulative(h, b) + 1 ELSE Cumulative(h, b)
<1> DEFINE h2 == Recorded(h, v)
           new == <<Bucket(v), h[Bucket(v)] + 1>>
<1>1. Bucket(v) \in Buckets /\ Bucket(v) \in Nat /\ b \in Nat
    BY BucketsGrow DEF Buckets
<1>2. /\ h \in [Buckets -> Nat] /\ h2 \in Histogram
      /\ \A c \in Buckets : h2[c] = IF c = Bucket(v) THEN h[c] + 1 ELSE h[c]
    BY OneRecorded DEF Histogram
<1>3. 0 .. b \subseteq Buckets
    BY BucketCountAssumption DEF Buckets
<1> HIDE DEF h2
<1>4. Samples(h2, 0 .. b) =
          IF Bucket(v) <= b THEN Samples(h, 0 .. b) \union {new} ELSE Samples(h, 0 .. b)
  <2>1. ASSUME NEW c \in 0 .. b, c # Bucket(v) PROVE h2[c] = h[c]
    BY <1>2, <1>3, <2>1
  <2>2. h2[Bucket(v)] = h[Bucket(v)] + 1 /\ h[Bucket(v)] \in Nat
    BY <1>1, <1>2
  <2>3. \A n \in Nat : n \in 1 .. h2[Bucket(v)] <=> n \in 1 .. h[Bucket(v)] \/ n = h[Bucket(v)] + 1
    BY <2>2
  <2>4. CASE Bucket(v) <= b
    <3>1. Bucket(v) \in 0 .. b /\ new \in (0 .. b) \X Nat
      BY <1>1, <2>2, <2>4
    <3>2. ASSUME NEW p \in (0 .. b) \X Nat
          PROVE  p \in Samples(h2, 0 .. b) <=> p \in Samples(h, 0 .. b) \union {new}
      <4>1. p = <<p[1], p[2]>> /\ p[1] \in 0 .. b /\ p[2] \in Nat
        OBVIOUS
      <4>2. CASE p[1] # Bucket(v)
        BY <2>1, <4>1, <4>2 DEF Samples
      <4>3. CASE p[1] = Bucket(v)
        <5>1. p = new <=> p[2] = h[Bucket(v)] + 1
          BY <4>1, <4>3
        <5>2. p \in Samples(h2, 0 .. b) <=> p[2] \in 1 .. h2[Bucket(v)]
          BY <4>1, <4>3 DEF Samples
        <5>3. p \in Samples(h, 0 .. b) <=> p[2] \in 1 .. h[Bucket(v)]
          BY <4>1, <4>3 DEF Samples
        <5> QED
          BY <2>3, <4>1, <5>1, <5>2, <5>3
      <4> QED
        BY <4>2, <4>3
    <3>3. Samples(h2, 0 .. b) \subseteq (0 .. b) \X Nat /\ Samples(h, 0 .. b) \subseteq (0 .. b) \X Nat
      BY DEF Samples
    <3> HIDE DEF new
    <3> QED
      BY <2>4, <3>1, <3>2, <3>3
  <2>5. CASE ~ (Bucket(v) <= b)
    <3>1. Bucket(v) \notin 0 .. b
      BY <1>1, <2>5
    <3> QED
      BY <2>1, <2>5, <3>1 DEF Samples
  <2> QED
    BY <2>4, <2>5
<1>5. new \notin Samples(h, 0 .. b)
  <2>1. ~ (h[Bucket(v)] + 1 \in 1 .. h[Bucket(v)])
    BY <1>1, <1>2
  <2> QED
    BY <2>1 DEF Samples
<1>6. /\ IsFiniteSet(Samples(h, 0 .. b)) /\ Cumulative(h, b) = Cardinality(Samples(h, 0 .. b))
      /\ Cumulative(h2, b) = Cardinality(Samples(h2, 0 .. b))
    BY <1>2, CumulativeCounts
<1> HIDE DEF new
<1>7. Cardinality(Samples(h, 0 .. b) \union {new}) = Cardinality(Samples(h, 0 .. b)) + 1
    BY <1>5, <1>6, FS_AddElement
<1> QED
    BY <1>4, <1>6, <1>7 DEF h2

(* The values recorded in the buckets up to b. *)
Upto(q, b) == {i \in DOMAIN q : Bucket(q[i]) <= b}

Tally(h, q) == \A b \in Buckets : Cumulative(h, b) = Cardinality(Upto(q, b))

LEMMA PositionsFinite ==
    ASSUME NEW q \in Seq(Nat)
    PROVE  /\ DOMAIN q = 1 .. Len(q) /\ Len(q) \in Nat
           /\ IsFiniteSet(DOMAIN q) /\ Cardinality(DOMAIN q) = Len(q)
           /\ \A S \in SUBSET DOMAIN q :
                 IsFiniteSet(S) /\ Cardinality(S) \in Nat /\ Cardinality(S) <= Len(q)
<1>1. DOMAIN q = 1 .. Len(q) /\ Len(q) \in Nat
    OBVIOUS
<1>2. ASSUME NEW n \in Nat PROVE IsFiniteSet(1 .. n) /\ Cardinality(1 .. n) = n
    BY FS_Interval
<1>3. IsFiniteSet(DOMAIN q) /\ Cardinality(DOMAIN q) = Len(q)
    BY <1>1, <1>2
<1> QED
    BY <1>1, <1>3, FS_Subset, FS_CardinalityType

LEMMA TallyEmpty == Tally(EmptyHistogram, <<>>)
<1> SUFFICES ASSUME NEW b \in Buckets
             PROVE  Cumulative(EmptyHistogram, b) = Cardinality(Upto(<<>>, b))
    BY DEF Tally
<1>1. Upto(<<>>, b) = {}
    BY DEF Upto
<1>2. Samples(EmptyHistogram, 0 .. b) = {}
  <2>1. \A c \in 0 .. b : EmptyHistogram[c] = 0
    BY BucketCountAssumption DEF EmptyHistogram, Buckets
  <2> QED
    BY <2>1 DEF Samples
<1> QED
    BY <1>1, <1>2, NothingRecorded, CumulativeCounts

LEMMA TallyStays ==
    ASSUME NEW h \in Histogram, NEW q \in Seq(Nat), NEW v \in Nat, Tally(h, q)
    PROVE  Tally(Recorded(h, v), Append(q, v))
<1> SUFFICES ASSUME NEW b \in Buckets
             PROVE  Cumulative(Recorded(h, v), b) = Cardinality(Upto(Append(q, v), b))
    BY DEF Tally
<1>1. Cumulative(h, b) = Cardinality(Upto(q, b))
    BY DEF Tally
<1>2. Upto(q, b) \in SUBSET DOMAIN q
    BY DEF Upto
<1>3. IsFiniteSet(Upto(q, b)) /\ Len(q) + 1 \notin Upto(q, b)
    BY <1>2, PositionsFinite
<1>4. Upto(Append(q, v), b) =
          IF Bucket(v) <= b THEN Upto(q, b) \union {Len(q) + 1} ELSE Upto(q, b)
  <2>1. /\ DOMAIN Append(q, v) = DOMAIN q \union {Len(q) + 1} /\ Len(q) + 1 \notin DOMAIN q
        /\ Append(q, v)[Len(q) + 1] = v /\ \A i \in DOMAIN q : Append(q, v)[i] = q[i]
    OBVIOUS
  <2> QED
    BY <2>1 DEF Upto
<1>5. Cardinality(Upto(q, b) \union {Len(q) + 1}) = Cardinality(Upto(q, b)) + 1
    BY <1>3, FS_AddElement
<1> QED
    BY <1>1, <1>4, <1>5, CumulativeRecorded

(* The last bucket has no upper bound: a run's samples are all counted. *)
LEMMA TotalCounts ==
    ASSUME NEW h \in Histogram, NEW q \in Seq(Nat), Tally(h, q)
    PROVE  Total(h) = Len(q)
<1> DEFINE top == BucketCount - 1
<1>1. top \in Buckets /\ \A b \in Buckets : b <= top
    BY BucketCountAssumption DEF Buckets
<1>2. Total(h) = Cumulative(h, top)
    BY DEF Total
<1> HIDE DEF top
<1>3. \A i \in DOMAIN q : Bucket(q[i]) <= top
  <2> SUFFICES ASSUME NEW i \in DOMAIN q PROVE Bucket(q[i]) <= top
    OBVIOUS
  <2>1. q[i] \in Nat
    OBVIOUS
  <2> QED
    BY <1>1, <2>1, BucketsGrow
<1>4. Upto(q, top) = DOMAIN q
    BY <1>3 DEF Upto
<1> QED
    BY <1>1, <1>2, <1>4, PositionsFinite DEF Tally

LEMMA SmallestElement ==
    ASSUME NEW S \in SUBSET Nat, S # {}
    PROVE  Min(S) \in S /\ \A y \in S : Min(S) <= y
<1>1. PICK x \in S : \A y \in S : ~ (<<y, x>> \in OpToRel(<, Nat))
    BY NatLessThanWellFounded, WFMin
<1>2. \A y \in S : ~ (y < x)
    BY <1>1 DEF OpToRel
<1>3. \A y \in S : x <= y
    BY <1>2
<1> QED
    BY <1>3 DEF Min

(* A higher percentile is never read off an earlier bucket. *)
LEMMA PercentilesGrow ==
    ASSUME NEW h \in Histogram, NEW p \in Nat, NEW q \in Nat, p <= q, q <= 10000
    PROVE  Percentile(h, p) <= Percentile(h, q)
<1> DEFINE T == Total(h)
           R(x) == {b \in Buckets : Reaches(h, x, b)}
<1>1. BucketCount - 1 \in Buckets /\ \A b \in Buckets : b \in Nat
    BY BucketCountAssumption DEF Buckets
<1>2. T \in Nat /\ T = Cumulative(h, BucketCount - 1) /\ \A b \in Buckets : Cumulative(h, b) \in Nat
    BY <1>1, CumulativeCounts DEF Total
<1>3. /\ \A b \in Buckets : Reaches(h, q, b) <=> Cumulative(h, b) * 10000 >= q * T
      /\ \A b \in Buckets : Reaches(h, p, b) <=> Cumulative(h, b) * 10000 >= p * T
    BY DEF Reaches
<1>4. /\ Percentile(h, p) = IF T = 0 THEN 0 ELSE 2^Min(R(p))
      /\ Percentile(h, q) = IF T = 0 THEN 0 ELSE 2^Min(R(q))
    BY DEF Percentile
<1> HIDE DEF T
<1>5. p * T <= q * T /\ q * T <= 10000 * T /\ p * T \in Nat /\ q * T \in Nat
    BY <1>2
<1>6. R(q) \subseteq R(p) /\ BucketCount - 1 \in R(q)
  <2>1. ASSUME NEW b \in Buckets, Reaches(h, q, b) PROVE Reaches(h, p, b)
    BY <1>2, <1>3, <1>5, <2>1
  <2>2. Reaches(h, q, BucketCount - 1)
    BY <1>1, <1>2, <1>3, <1>5
  <2> QED
    BY <1>1, <2>1, <2>2
<1>7. R(p) \subseteq Nat /\ R(q) \subseteq Nat
    BY <1>1
<1> HIDE DEF R
<1>8. Min(R(p)) <= Min(R(q)) /\ Min(R(p)) \in Nat /\ Min(R(q)) \in Nat
    BY <1>6, <1>7, SmallestElement
<1>9. 2^Min(R(p)) <= 2^Min(R(q))
    BY <1>8, PowGrow
<1> QED
    BY <1>4, <1>9

-----------------------------------------------------------------------------
(* Order statistics *)

AtMost(q, v) == {i \in DOMAIN q : q[i] <= v}
Below(q, v) == {i \in DOMAIN q : q[i] < v}

(* Every value of a sequence is at most the one that most values do not exceed. *)
LEMMA SomeValueCovers ==
    ASSUME NEW q \in Seq(Nat), Len(q) > 0
    PROVE  \E v \in Nat : AtMost(q, v) = DOMAIN q
<1> DEFINE Sizes == {Cardinality(AtMost(q, q[i])) : i \in DOMAIN q}
<1>1. DOMAIN q = 1 .. Len(q) /\ Len(q) \in Nat /\ \A i \in DOMAIN q : q[i] \in Nat
    OBVIOUS
<1>2. \A v : AtMost(q, v) \in SUBSET DOMAIN q
    BY DEF AtMost
<1>3. \A v : IsFiniteSet(AtMost(q, v)) /\ Cardinality(AtMost(q, v)) \in 0 .. Len(q)
    BY <1>1, <1>2, PositionsFinite
<1>4. Sizes \in SUBSET (0 .. Len(q)) /\ Sizes # {}
    BY <1>1, <1>3
<1>5. Max(Sizes) \in Sizes /\ \A y \in Sizes : y <= Max(Sizes)
    BY <1>1, <1>4, LargestElement
<1>6. PICK i \in DOMAIN q : \A j \in DOMAIN q :
          Cardinality(AtMost(q, q[j])) <= Cardinality(AtMost(q, q[i]))
    BY <1>5
<1>7. ASSUME NEW j \in DOMAIN q, q[j] > q[i] PROVE FALSE
  <2>1. AtMost(q, q[i]) \in SUBSET AtMost(q, q[j]) /\ j \in AtMost(q, q[j]) /\ j \notin AtMost(q, q[i])
    BY <1>1, <1>7 DEF AtMost
  <2>2. /\ Cardinality(AtMost(q, q[i])) <= Cardinality(AtMost(q, q[j]))
        /\ Cardinality(AtMost(q, q[j])) = Cardinality(AtMost(q, q[i])) =>
               AtMost(q, q[j]) = AtMost(q, q[i])
    BY <1>3, <2>1, FS_Subset
  <2>3. /\ Cardinality(AtMost(q, q[i])) \in Nat /\ Cardinality(AtMost(q, q[j])) \in Nat
        /\ Cardinality(AtMost(q, q[j])) <= Cardinality(AtMost(q, q[i]))
    BY <1>3, <1>6
  <2> QED
    BY <2>1, <2>2, <2>3
<1>8. q[i] \in Nat /\ AtMost(q, q[i]) = DOMAIN q
    BY <1>1, <1>7 DEF AtMost
<1> QED
    BY <1>8

(* A sequence has a value of every rank. *)
LEMMA OrderStatistic ==
    ASSUME NEW q \in Seq(Nat), NEW n \in 1 .. Len(q)
    PROVE  \E i \in DOMAIN q :
              Cardinality(Below(q, q[i])) < n /\ Cardinality(AtMost(q, q[i])) >= n
<1> DEFINE Covering == {v \in Nat : Cardinality(AtMost(q, v)) >= n}
<1>1. /\ Len(q) \in Nat /\ n \in Nat /\ n > 0 /\ n <= Len(q)
      /\ Cardinality(DOMAIN q) = Len(q) /\ \A i \in DOMAIN q : q[i] \in Nat
    BY PositionsFinite
<1>2. \A v : Cardinality(AtMost(q, v)) \in Nat /\ Cardinality(Below(q, v)) \in Nat
    BY PositionsFinite DEF AtMost, Below
<1>3. Covering \subseteq Nat /\ Covering # {}
  <2>1. PICK v \in Nat : AtMost(q, v) = DOMAIN q
    BY <1>1, SomeValueCovers
  <2>2. v \in Covering
    BY <1>1, <2>1
  <2> QED
    BY <2>2
<1> HIDE DEF Covering
<1>4. PICK v \in Covering : \A w \in Covering : ~ (<<w, v>> \in OpToRel(<, Nat))
    BY <1>3, NatLessThanWellFounded, WFMin
<1>5. v \in Nat /\ \A w \in Covering : ~ (w < v)
    BY <1>3, <1>4 DEF OpToRel
<1> USE DEF Covering
<1>6. Cardinality(Below(q, v)) < n
  <2>1. CASE v = 0
    <3>1. Below(q, v) = {}
      BY <1>1, <2>1 DEF Below
    <3> QED
      BY <1>1, <3>1, FS_EmptySet
  <2>2. CASE v # 0
    <3>1. v - 1 \in Nat /\ v - 1 < v
      BY <1>5, <2>2
    <3>2. Below(q, v) = AtMost(q, v - 1)
      BY <1>1, <1>5, <3>1 DEF Below, AtMost
    <3>3. v - 1 \notin Covering
      BY <1>5, <3>1
    <3>4. ~ (Cardinality(AtMost(q, v - 1)) >= n)
      BY <3>1, <3>3
    <3> QED
      BY <1>1, <1>2, <3>2, <3>4
  <2> QED
    BY <2>1, <2>2
<1>7. Cardinality(AtMost(q, v)) >= n
    BY <1>4
<1>8. PICK i \in DOMAIN q : q[i] = v
  <2>1. AtMost(q, v) # Below(q, v)
    BY <1>1, <1>2, <1>6, <1>7
  <2> QED
    BY <1>1, <1>5, <2>1 DEF AtMost, Below
<1> QED
    BY <1>6, <1>7, <1>8

LEMMA RankExists ==
    ASSUME NEW len \in Nat, len > 0, NEW p \in Nat, p > 0, p <= 10000
    PROVE  \E n \in 1 .. len : IsRank(n, p, len)
<1> DEFINE k == p * len
<1>1. k \in Nat /\ 0 < k /\ k <= 10000 * len
    OBVIOUS
<1> HIDE DEF k
<1> DEFINE m == (k + 9999) \div 10000
<1>2. m \in 1 .. len /\ 10000 * m >= k /\ 10000 * (m - 1) < k
    BY <1>1
<1> HIDE DEF m
<1>3. IsRank(m, p, len)
    BY <1>2 DEF k, IsRank
<1> QED
    BY <1>2, <1>3

(* The histogram has less detail than the values, but not less order: the first
   bucket that a share of the samples reaches is that of the value with the
   rank of this share. *)
LEMMA PercentileOfRank ==
    ASSUME NEW h \in Histogram, NEW q \in Seq(Nat), Tally(h, q),
           NEW p \in Nat, NEW n \in 1 .. Len(q), NEW v \in Nat,
           IsRank(n, p, Len(q)),
           Cardinality(Below(q, v)) < n, Cardinality(AtMost(q, v)) >= n
    PROVE  Percentile(h, p) = 2^Bucket(v)
<1>1. /\ DOMAIN q = 1 .. Len(q) /\ Len(q) \in Nat /\ Len(q) > 0 /\ n \in Nat
      /\ Cardinality(DOMAIN q) = Len(q) /\ \A i \in DOMAIN q : q[i] \in Nat
      /\ \A S \in SUBSET DOMAIN q : IsFiniteSet(S) /\ Cardinality(S) \in Nat
    BY PositionsFinite
<1>2. /\ Bucket(v) \in Buckets /\ BucketCount - 1 \in Buckets
      /\ \A b \in Buckets : b \in Nat /\ b <= BucketCount - 1
    BY BucketCountAssumption, BucketsGrow DEF Buckets
<1>3. Total(h) = Len(q)
    BY TotalCounts
<1>4. \A b \in Buckets : /\ Cumulative(h, b) = Cardinality(Upto(q, b)) /\ Cumulative(h, b) \in Nat
                         /\ Upto(q, b) \in SUBSET DOMAIN q
    BY CumulativeCounts DEF Tally, Upto
<1>5. ASSUME NEW b \in Buckets, Bucket(v) <= b PROVE Reaches(h, p, b)
  <2>1. AtMost(q, v) \in SUBSET Upto(q, b)
    <3>1. ASSUME NEW i \in DOMAIN q, q[i] <= v PROVE Bucket(q[i]) <= b
      <4>1. Bucket(q[i]) <= Bucket(v) /\ Bucket(q[i]) \in Buckets
        BY <1>1, <3>1, BucketsGrow
      <4> QED
        BY <1>2, <1>5, <4>1
    <3> QED
      BY <3>1 DEF AtMost, Upto
  <2>2. Cardinality(AtMost(q, v)) <= Cardinality(Upto(q, b))
    BY <1>1, <1>4, <2>1, FS_Subset
  <2>3. Cardinality(AtMost(q, v)) \in Nat
    BY <1>1 DEF AtMost
  <2>4. Cumulative(h, b) >= n
    BY <1>1, <1>4, <2>2, <2>3
  <2>5. Cumulative(h, b) * 10000 >= 10000 * n
    BY <1>1, <1>4, <2>4
  <2>6. p * Len(q) \in Nat
    BY <1>1
  <2>7. Cumulative(h, b) * 10000 >= p * Len(q)
    BY <1>1, <1>4, <2>5, <2>6 DEF IsRank
  <2> QED
    BY <1>3, <2>7 DEF Reaches
<1>6. ASSUME NEW b \in Buckets, ~ (Bucket(v) <= b) PROVE ~ Reaches(h, p, b)
  <2>1. Upto(q, b) \in SUBSET Below(q, v)
    <3>1. ASSUME NEW i \in DOMAIN q, Bucket(q[i]) <= b, ~ (q[i] < v) PROVE FALSE
      <4>1. v <= q[i] /\ q[i] \in Nat
        BY <1>1, <3>1
      <4>2. Bucket(v) <= Bucket(q[i]) /\ Bucket(q[i]) \in Buckets
        BY <4>1, BucketsGrow
      <4> QED
        BY <1>2, <1>6, <3>1, <4>2
    <3> QED
      BY <3>1 DEF Below, Upto
  <2>2. Below(q, v) \in SUBSET DOMAIN q
    BY DEF Below
  <2>3. Cardinality(Upto(q, b)) <= Cardinality(Below(q, v)) /\ Cardinality(Below(q, v)) \in Nat
    BY <1>1, <2>1, <2>2, FS_Subset
  <2>4. Cumulative(h, b) <= n - 1
    BY <1>1, <1>4, <2>3
  <2>5. Cumulative(h, b) * 10000 <= 10000 * (n - 1)
    BY <1>1, <1>4, <2>4
  <2>6. p * Len(q) \in Nat
    BY <1>1
  <2>7. ~ (Cumulative(h, b) * 10000 >= p * Len(q))
    BY <1>1, <1>4, <2>5, <2>6 DEF IsRank
  <2> QED
    BY <1>3, <2>7 DEF Reaches
<1>7. Min({b \in Buckets : Reaches(h, p, b)}) = Bucket(v)
  <2> DEFINE R == {b \in Buckets : Reaches(h, p, b)}
  <2>1. R = {b \in Buckets : Bucket(v) <= b}
    BY <1>5, <1>6
  <2> HIDE DEF R
  <2>2. Bucket(v) \in R /\ \A b \in R : Bucket(v) <= b
    BY <1>2, <2>1
  <2>3. \A c \in R : (\A b \in R : c <= b) => c = Bucket(v)
    BY <1>2, <2>1, <2>2
  <2>4. Min(R) = Bucket(v)
    BY <2>2, <2>3 DEF Min
  <2> QED
    BY <2>4 DEF R
<1> QED
    BY <1>1, <1>3, <1>7 DEF Percentile

-----------------------------------------------------------------------------
(* What the recorder holds at each point *)

Recording ==
    /\ counts \in Histogram /\ co_counts \in Histogram
    /\ IsBatch \/ pc \in {"start", "check", "connect", "probe", "warmup"} =>
          counts = EmptyHistogram /\ co_counts = EmptyHistogram
    /\ pc \in {"measure", "write"} /\ config.co_correction /\ interval > 0 =>
          Gaps(co_counts, counts, interval)

(* Only an answer changes the histograms; the interval is fixed before. *)
LEMMA RecordingStep == Control /\ IInv /\ Recording /\ [BatchNext]_AllVars => Recording'
<1> SUFFICES ASSUME Control, IInv, Recording, [BatchNext]_AllVars PROVE Recording'
    OBVIOUS
<1>1. interval \in Nat
    BY IntervalsAssumption DEF IInv, BucketTypeOK
<1>2. Histogram' = Histogram /\ EmptyHistogram' = EmptyHistogram
    BY DEF Histogram, EmptyHistogram, Buckets
<1>3. ASSUME UNCHANGED recorder, UNCHANGED <<request, config, interval>>,
             pc' \in {"measure", "write"} => pc' = pc \/ pc = "warmup" \/ pc = "measure",
             pc' \in {"start", "check", "connect", "probe", "warmup"} =>
                 pc \in {"start", "check", "connect", "probe", "warmup"}
      PROVE  Recording'
    BY <1>2, <1>3, NothingRecorded DEF Recording, recorder, IsBatch, Gaps
<1>4. ASSUME UNCHANGED recorder, UNCHANGED request, pc' \notin {"measure", "write"},
             pc \in {"start", "check", "connect", "probe", "warmup"}
      PROVE  Recording'
    BY <1>2, <1>4, NothingRecorded DEF Recording, recorder, IsBatch
<1>5. CASE IsBatch /\ BatchStep
  <2>1. UNCHANGED recorder /\ request' = request
    BY <1>5 DEF BatchStep, LoadTargets, Prepare, RefuseTarget, StartTarget, TargetFails,
       TargetEnds, SaveTarget, SaveFails, ReportTarget, ReportFails, OpenOutput, Dump, OutputFails,
       ConcludeBatch, Skip, single, measurement
  <2>2. Control'
    BY ControlStep
  <2>3. pc' \notin {"measure", "write"} /\ IsBatch'
    BY <1>5, <2>1, <2>2 DEF Control, BatchStages, IsBatch
  <2> QED
    BY <1>2, <1>5, <2>1, <2>3 DEF Recording, recorder
<1>6. CASE FileUnreadable \/ Interrupt \/ UNCHANGED AllVars
    BY <1>3, <1>6 DEF FileUnreadable, Interrupt, AllVars, vars, measurement, limiter, input, Exit
<1>7. CASE Refusals \/ Compare
    BY <1>3, <1>7 DEF Refusals, UsageError, NotANumber, Invalid, Unsafe, ResolveFails, Compare,
       measurement, limiter, input, Exit
<1>8. CASE Configure
    BY <1>4, <1>8 DEF Configure, measurement
<1>9. CASE Resolve \/ EndpointFails \/ ProbeSilent \/ EndWarmup \/ Report
  <2>1. UNCHANGED recorder /\ UNCHANGED <<request, config, interval>>
    BY <1>9 DEF Resolve, EndpointFails, ProbeSilent, EndWarmup, Report, measurement, limiter, input
  <2>2. pc' \in {"measure", "write"} => pc \in {"warmup", "measure"}
    BY <1>9 DEF Resolve, EndpointFails, ProbeSilent, EndWarmup, Report, NextAddress, Exit
  <2>3. pc' \in {"start", "check", "connect", "probe", "warmup"} =>
            pc \in {"start", "check", "connect", "probe", "warmup"}
    BY <1>9 DEF Resolve, EndpointFails, ProbeSilent, EndWarmup, Report, NextAddress, Exit
  <2> QED
    BY <1>3, <2>1, <2>2, <2>3
<1>10. CASE EndpointOpens \/ ProbeAnswered
    BY <1>4, <1>10 DEF EndpointOpens, ProbeAnswered, Choose, input
<1>11. CASE Pass
    BY <1>3, <1>11 DEF Pass, Tick, recorder, input
<1>12. CASE Concluding
  <2>1. UNCHANGED recorder /\ UNCHANGED <<request, config, interval>>
    BY <1>12 DEF Concluding, WriteMetrics, WriteFails, EvaluateSla, SlaUnreadable, PdfFails,
       Conclude, measurement, limiter, input
  <2>2. pc' \in {"sla", "pdf", "ended"}
    BY <1>12 DEF Concluding, WriteMetrics, WriteFails, EvaluateSla, SlaUnreadable, PdfFails,
       Conclude, Exit
  <2> QED
    BY <1>3, <2>1, <2>2
<1>13. ASSUME NEW s \in Callers, Pace(s) \/ Timeout(s) PROVE Recording'
    BY <1>3, <1>13 DEF Pace, Timeout, Acquire, input, limiter
<1>14. ASSUME NEW s \in Callers, NEW rtt \in Rtts, Answer(s, rtt), ~ IsBatch PROVE Recording'
  <2>1. /\ pc = "measure" /\ pc' = pc /\ UNCHANGED <<request, config, interval>>
        /\ counts' = Recorded(counts, rtt)
        /\ co_counts' = IF config.co_correction /\ interval > 0
                        THEN RecordedCorrected(co_counts, rtt, interval) ELSE co_counts
    BY <1>14 DEF Answer, input, limiter
  <2>2. rtt \in Nat
    BY CommandBoundsAssumption
  <2>3. counts \in Histogram /\ co_counts \in Histogram
    BY DEF Recording
  <2>4. counts' \in Histogram
    BY <2>1, <2>2, <2>3, OneRecorded
  <2>5. co_counts' \in Histogram
    BY <1>1, <2>1, <2>2, <2>3, CorrectedRecorded
  <2>6. config.co_correction /\ interval > 0 => Gaps(co_counts', counts', interval)
    <3> SUFFICES ASSUME config.co_correction, interval > 0 PROVE Gaps(co_counts', counts', interval)
      OBVIOUS
    <3>1. Gaps(co_counts, counts, interval)
      BY <2>1 DEF Recording
    <3> QED
      BY <1>1, <2>1, <2>2, <2>3, <3>1, GapsStay
  <2>7. Gaps(co_counts, counts, interval)' <=> Gaps(co_counts', counts', interval')
    BY DEF Gaps, Buckets
  <2>8. ~ IsBatch'
    BY <1>14, <2>1 DEF IsBatch
  <2> QED
    BY <1>2, <2>1, <2>4, <2>5, <2>6, <2>7, <2>8 DEF Recording
<1> QED
    BY <1>5, <1>6, <1>7, <1>8, <1>9, <1>10, <1>11, <1>12, <1>13, <1>14, Steps DEF Measuring, Coroutine

-----------------------------------------------------------------------------
(* The types of what the two commands keep *)

(* An address is tried only if the host has it. *)
Addressed ==
    /\ found \in 0 .. MaxAddresses /\ index \in 0 .. found + 1
    /\ pc \in {"connect", "probe"} => index \in 1 .. found
    /\ open \subseteq 1 .. found /\ chosen \in 0 .. found

LEMMA AddressedStep == Addressed /\ Opened /\ [BatchNext]_AllVars => Addressed'
<1> SUFFICES ASSUME Addressed, Opened, [BatchNext]_AllVars PROVE Addressed'
    OBVIOUS
<1> USE CommandBoundsAssumption DEF Addressed, address
<1>1. CASE IsBatch /\ BatchStep
  <2>1. UNCHANGED address
    BY <1>1 DEF BatchStep, LoadTargets, Prepare, RefuseTarget, StartTarget, TargetFails,
       TargetEnds, SaveTarget, SaveFails, ReportTarget, ReportFails, OpenOutput, Dump, OutputFails,
       ConcludeBatch, Skip, single
  <2>2. pc' \notin {"connect", "probe"}
    BY <1>1 DEF BatchStep, LoadTargets, Prepare, RefuseTarget, StartTarget, TargetFails,
       TargetEnds, SaveTarget, SaveFails, ReportTarget, ReportFails, OpenOutput, Dump, OutputFails,
       ConcludeBatch, Skip, Exit
  <2> QED
    BY <2>1, <2>2
<1>2. CASE FileUnreadable \/ UNCHANGED AllVars \/ Configure \/ Compare
    BY <1>2 DEF FileUnreadable, AllVars, vars, Configure, Compare, Exit
<1>3. CASE Refusals
    BY <1>3 DEF Refusals, UsageError, NotANumber, Invalid, Unsafe, ResolveFails, Exit
<1>4. CASE Interrupt \/ EndWarmup \/ Report
    BY <1>4 DEF Interrupt, EndWarmup, Report, Exit
<1>5. CASE Resolve
  <2>1. open = {} /\ chosen = 0
    BY <1>5 DEF Resolve, Opened
  <2>2. MaxAddresses \in Nat \ {0} /\ found' \in 1 .. MaxAddresses
    BY <1>5 DEF Resolve
  <2>3. index' = 1 /\ open' = {} /\ chosen' = 0
    BY <1>5, <2>1 DEF Resolve
  <2>4. ASSUME NEW n \in 1 .. MaxAddresses
        PROVE  n \in 0 .. MaxAddresses /\ 1 \in 1 .. n /\ 1 \in 0 .. n + 1 /\ 0 \in 0 .. n
    BY <2>2
  <2> QED
    BY <2>2, <2>3, <2>4
<1>6. CASE EndpointFails \/ ProbeSilent
  <2>1. /\ pc \in {"connect", "probe"} /\ found' = found /\ chosen' = chosen /\ open' \subseteq open
        /\ index' = index + 1 /\ (index < found \/ pc' = "ended")
    BY <1>6 DEF EndpointFails, ProbeSilent, NextAddress, Exit
  <2> QED
    BY <2>1
<1>7. CASE EndpointOpens \/ ProbeAnswered
  <2>1. /\ pc \in {"connect", "probe"} /\ found' = found /\ index' = index
        /\ open' \subseteq open \union {index} /\ chosen' \in {chosen, index}
    BY <1>7 DEF EndpointOpens, ProbeAnswered, Choose
  <2> QED
    BY <2>1
<1>8. CASE Pass \/ Measuring
  <2>1. UNCHANGED <<pc, found, index, open, chosen>>
    BY <1>8 DEF Pass, Measuring, Coroutine, Pace, Timeout, Answer
  <2> QED
    BY <2>1
<1>9. CASE Concluding
    BY <1>9 DEF Concluding, WriteMetrics, WriteFails, EvaluateSla, SlaUnreadable, PdfFails,
       Conclude, Exit
<1> QED
    BY <1>1, <1>2, <1>3, <1>4, <1>5, <1>6, <1>7, <1>8, <1>9, Steps

(* A packet that is to be sent has a packet left. *)
Packets ==
    /\ packet \in [Callers -> {"unsent", "sent", "answered", "lost"}]
    /\ attempt \in [Callers -> 0 .. MaxRetries + 1]
    /\ \A s \in Callers : packet[s] = "unsent" => attempt[s] <= MaxRetries
    /\ raw_rtts \in Seq(Rtts)

LEMMA PacketsStep == Packets /\ [BatchNext]_AllVars => Packets'
<1> SUFFICES ASSUME Packets, [BatchNext]_AllVars PROVE Packets'
    OBVIOUS
<1>1. ASSUME UNCHANGED <<packet, attempt, raw_rtts>> PROVE Packets'
    BY <1>1 DEF Packets
<1> USE DEF measurement, recorder
<1>2. CASE IsBatch /\ BatchStep
    BY <1>1, <1>2 DEF BatchStep, LoadTargets, Prepare, RefuseTarget, StartTarget, TargetFails,
       TargetEnds, SaveTarget, SaveFails, ReportTarget, ReportFails, OpenOutput, Dump, OutputFails,
       ConcludeBatch, Skip, single
<1>3. CASE FileUnreadable \/ Interrupt \/ UNCHANGED AllVars \/ Refusals \/ Configure \/ Compare
    BY <1>1, <1>3 DEF FileUnreadable, Interrupt, AllVars, vars, Refusals, UsageError, NotANumber,
       Invalid, Unsafe, ResolveFails, Configure, Compare
<1>4. CASE \/ Resolve \/ EndpointFails \/ ProbeSilent \/ EndWarmup \/ Report
           \/ EndpointOpens \/ ProbeAnswered \/ Pass
    BY <1>1, <1>4 DEF Resolve, EndpointFails, ProbeSilent, EndWarmup, Report, EndpointOpens,
       ProbeAnswered, Pass
<1>5. CASE Concluding
    BY <1>1, <1>5 DEF Concluding, WriteMetrics, WriteFails, EvaluateSla, SlaUnreadable, PdfFails,
       Conclude
<1>6. ASSUME NEW s \in Callers, Pace(s) PROVE Packets'
  <2>1. CASE sleeper'[s] = 0
    <3>1. /\ packet[s] = "unsent" /\ raw_rtts' = raw_rtts
          /\ packet' = [packet EXCEPT ![s] = "sent"] /\ attempt' = [attempt EXCEPT ![s] = @ + 1]
      BY <1>6, <2>1 DEF Pace
    <3> QED
      BY <3>1, CommandBoundsAssumption DEF Packets
  <2>2. CASE sleeper'[s] # 0
    BY <1>1, <1>6, <2>2 DEF Pace
  <2> QED
    BY <2>1, <2>2
<1>7. ASSUME NEW s \in Callers, Timeout(s) PROVE Packets'
  <2>1. /\ packet' = [packet EXCEPT ![s] = IF attempt[s] <= MaxRetries THEN "unsent" ELSE "lost"]
        /\ attempt' = attempt /\ raw_rtts' = raw_rtts
    BY <1>7 DEF Timeout
  <2> QED
    BY <2>1 DEF Packets
<1>8. ASSUME NEW s \in Callers, NEW rtt \in Rtts, Answer(s, rtt) PROVE Packets'
  <2>1. /\ packet' = [packet EXCEPT ![s] = "answered"] /\ attempt' = attempt
        /\ raw_rtts' = Append(raw_rtts, rtt)
    BY <1>8 DEF Answer
  <2> QED
    BY <2>1 DEF Packets
<1> QED
    BY <1>2, <1>3, <1>4, <1>5, <1>6, <1>7, <1>8, Steps DEF Measuring, Coroutine

(* The exit codes of each command, and the file of --output. *)
Codes ==
    /\ exit \in IF IsBatch THEN {-1, 0, 1, 3, 130} ELSE {-1, 0, 1, 2, 3, 5, 6, 130}
    /\ ~ IsBatch => gate \in {-1, 0, 1, 4}
    /\ IsBatch => combined.state \in {"earlier", "torn", "whole"} /\ combined.of \in Seq(Targets)

LEMMA CodesStep == Codes /\ Accounts /\ [BatchNext]_AllVars => Codes'
<1> SUFFICES ASSUME Codes, Accounts, [BatchNext]_AllVars PROVE Codes'
    OBVIOUS
<1>1. ASSUME UNCHANGED <<request, exit, combined>>, gate' = gate \/ (~ IsBatch /\ gate' \in {0, 1, 4})
      PROVE  Codes'
    BY <1>1 DEF Codes, IsBatch, Targets
<1>2. ASSUME UNCHANGED <<request, gate, combined>>,
             exit' \in IF IsBatch THEN {0, 1, 3, 130} ELSE {0, 1, 2, 3, 5, 6, 130}
      PROVE  Codes'
    BY <1>2 DEF Codes, IsBatch, Targets
<1> USE DEF input, single, files, batch
<1>3. CASE IsBatch /\ (Dump \/ OpenOutput)
  <2>1. /\ UNCHANGED <<request, exit, gate>> /\ IsBatch' /\ Targets' = Targets
        /\ \/ combined' = [state |-> "whole", of |-> results]
           \/ combined' = [state |-> "torn", of |-> <<>>]
    BY <1>3 DEF Dump, OpenOutput, IsBatch, Targets
  <2>2. results \in Seq(Targets)
    BY <1>3 DEF Accounts, Order
  <2>3. combined'.state \in {"earlier", "torn", "whole"} /\ combined'.of \in Seq(Targets)
    <3>1. CASE combined' = [state |-> "whole", of |-> results]
      BY <2>2, <3>1
    <3>2. CASE combined' = [state |-> "torn", of |-> <<>>]
      BY <3>2
    <3> QED
      BY <2>1, <3>1, <3>2
  <2> QED
    BY <1>3, <2>1, <2>3 DEF Codes
<1>4. CASE IsBatch /\ BatchStep /\ ~ Dump /\ ~ OpenOutput
  <2>1. UNCHANGED <<request, gate, combined>>
    BY <1>4 DEF BatchStep, LoadTargets, Prepare, RefuseTarget, StartTarget, TargetFails,
       TargetEnds, SaveTarget, SaveFails, ReportTarget, ReportFails, OutputFails,
       ConcludeBatch, Skip
  <2>2. exit' \in {exit, 0, 1, 3}
    BY <1>4 DEF BatchStep, LoadTargets, Prepare, RefuseTarget, StartTarget, TargetFails,
       TargetEnds, SaveTarget, SaveFails, ReportTarget, ReportFails, OutputFails,
       ConcludeBatch, Skip, Exit
  <2> QED
    BY <1>1, <1>2, <1>4, <2>1, <2>2
<1>5. CASE (FileUnreadable \/ Interrupt) /\ UNCHANGED batch
    BY <1>2, <1>5 DEF FileUnreadable, Interrupt, Exit
<1>6. CASE UNCHANGED AllVars
    BY <1>1, <1>6 DEF AllVars, vars
<1>7. CASE ~ IsBatch /\ UNCHANGED batch /\ Refusals
    BY <1>2, <1>7 DEF Refusals, UsageError, NotANumber, Invalid, Unsafe, ResolveFails, Exit
<1>8. CASE ~ IsBatch /\ UNCHANGED batch /\ Compare
  <2>1. gate' \in {0, 1, 4} /\ UNCHANGED <<request, exit, combined>>
    BY <1>8 DEF Compare
  <2> QED
    BY <1>1, <1>8, <2>1
<1>9. CASE ~ IsBatch /\ UNCHANGED batch /\ (EndpointFails \/ ProbeSilent)
    BY <1>1, <1>2, <1>9 DEF EndpointFails, ProbeSilent, NextAddress, Exit
<1>10. CASE ~ IsBatch /\ UNCHANGED batch /\
               (\/ Configure \/ Resolve \/ EndpointOpens \/ ProbeAnswered \/ EndWarmup \/ Report
                \/ Measuring \/ Pass)
    BY <1>1, <1>10 DEF Configure, Resolve, EndpointOpens, ProbeAnswered, EndWarmup, Report,
       Measuring, Coroutine, Pace, Timeout, Answer, Pass
<1>11. CASE ~ IsBatch /\ UNCHANGED batch /\ Concluding
  <2>1. Verdict \in {0, 1, 2}
    BY DEF Verdict
  <2> QED
    BY <1>1, <1>2, <1>11, <2>1 DEF Concluding, WriteMetrics, WriteFails, EvaluateSla, SlaUnreadable,
       PdfFails, Conclude, Exit
<1> QED
    BY <1>3, <1>4, <1>5, <1>6, <1>7, <1>8, <1>9, <1>10, <1>11, Steps

-----------------------------------------------------------------------------
(* Every answer is recorded once, and what is reported is what was recorded *)

Counted == Tally(counts, raw_rtts) /\ Len(raw_rtts) = Cardinality(Answered)

LEMMA CallersFinite ==
    /\ IsFiniteSet(Callers) /\ Cardinality(Callers) = Count /\ Count \in Nat
    /\ \A S \in SUBSET Callers : IsFiniteSet(S) /\ Cardinality(S) \in Nat
<1>1. Callers = 1 .. Count /\ Count \in Nat \ {0}
    BY CountAssumption
<1>2. IsFiniteSet(1 .. Count) /\ Cardinality(1 .. Count) = Count
    BY <1>1, FS_Interval
<1> QED
    BY <1>1, <1>2, FS_Subset, FS_CardinalityType

LEMMA RecordedNumbers ==
    ASSUME Packets
    PROVE  raw_rtts \in Seq(Rtts) /\ raw_rtts \in Seq(Nat) /\ Rtts \subseteq Nat
<1>1. Rtts \subseteq Nat
    BY CommandBoundsAssumption
<1>2. raw_rtts \in Seq(Rtts)
    BY DEF Packets
<1> QED
    BY <1>1, <1>2, SeqMonotonic

LEMMA CountedStep ==
    Recording /\ Packets /\ Counted /\ [BatchNext]_AllVars => Counted'
<1> SUFFICES ASSUME Recording, Packets, Counted, [BatchNext]_AllVars PROVE Counted'
    OBVIOUS
<1>1. ASSUME UNCHANGED <<raw_rtts, counts>>, Answered' = Answered PROVE Counted'
    BY <1>1 DEF Counted, Tally, Upto, Buckets
<1>2. ASSUME UNCHANGED <<raw_rtts, counts, packet>> PROVE Counted'
    BY <1>1, <1>2 DEF Answered
<1> USE DEF measurement, recorder
<1>3. CASE IsBatch /\ BatchStep
    BY <1>2, <1>3 DEF BatchStep, LoadTargets, Prepare, RefuseTarget, StartTarget, TargetFails,
       TargetEnds, SaveTarget, SaveFails, ReportTarget, ReportFails, OpenOutput, Dump, OutputFails,
       ConcludeBatch, Skip, single
<1>4. CASE FileUnreadable \/ Interrupt \/ UNCHANGED AllVars \/ Refusals \/ Configure \/ Compare
    BY <1>2, <1>4 DEF FileUnreadable, Interrupt, AllVars, vars, Refusals, UsageError, NotANumber,
       Invalid, Unsafe, ResolveFails, Configure, Compare
<1>5. CASE \/ Resolve \/ EndpointFails \/ ProbeSilent \/ EndWarmup \/ Report
           \/ EndpointOpens \/ ProbeAnswered \/ Pass
    BY <1>2, <1>5 DEF Resolve, EndpointFails, ProbeSilent, EndWarmup, Report, EndpointOpens,
       ProbeAnswered, Pass
<1>6. CASE Concluding
    BY <1>2, <1>6 DEF Concluding, WriteMetrics, WriteFails, EvaluateSla, SlaUnreadable, PdfFails,
       Conclude
<1>7. ASSUME NEW s \in Callers, Pace(s) \/ Timeout(s) PROVE Counted'
  <2>1. UNCHANGED <<raw_rtts, counts>>
    BY <1>7 DEF Pace, Timeout
  <2>2. \/ packet' = packet
        \/ \E after \in {"unsent", "sent", "lost"} :
              packet[s] # "answered" /\ packet' = [packet EXCEPT ![s] = after]
    BY <1>7 DEF Pace, Timeout
  <2>3. Answered' = Answered
    BY <2>2 DEF Answered, Packets
  <2> QED
    BY <1>1, <2>1, <2>3
<1>8. ASSUME NEW s \in Callers, NEW rtt \in Rtts, Answer(s, rtt) PROVE Counted'
  <2>1. /\ packet[s] = "sent" /\ packet' = [packet EXCEPT ![s] = "answered"]
        /\ raw_rtts' = Append(raw_rtts, rtt) /\ counts' = Recorded(counts, rtt)
    BY <1>8 DEF Answer
  <2>2. counts \in Histogram /\ raw_rtts \in Seq(Nat) /\ rtt \in Nat
    BY RecordedNumbers DEF Recording
  <2>3. Tally(counts', raw_rtts')
    BY <2>1, <2>2, TallyStays DEF Counted
  <2>4. Answered' = Answered \union {s} /\ s \notin Answered
    BY <2>1 DEF Answered, Packets
  <2>5. Cardinality(Answered') = Cardinality(Answered) + 1
    <3>1. IsFiniteSet(Answered)
      BY CallersFinite DEF Answered
    <3> QED
      BY <2>4, <3>1, FS_AddElement
  <2>6. Len(raw_rtts') = Len(raw_rtts) + 1
    BY <2>1, <2>2
  <2>7. Tally(counts, raw_rtts)' <=> Tally(counts', raw_rtts')
    BY DEF Tally, Upto, Buckets
  <2> QED
    BY <2>3, <2>5, <2>6, <2>7 DEF Counted
<1> QED
    BY <1>3, <1>4, <1>5, <1>6, <1>7, <1>8, Steps DEF Measuring, Coroutine

Reported == pc \in {"write", "sla", "pdf"} \/ exit = 0

(* What test, and compare after it, found, from the report of the run on. *)
Verdicts ==
    /\ gate # -1 => ~ Running
    /\ Reported => /\ stats = ComputedStats(Count, counts, co_counts)
                   /\ Callers = Answered \union Lost
    /\ Reported /\ pc # "write" /\ config.metrics_output # "none" => candidate = stats
    /\ (pc = "pdf" \/ exit = 0) /\ config.sla_path = "readable" =>
           failures = SlaFailures(stats, request.sla)
    /\ exit = 0 => stats.received > 0 /\ (config.fail_on_sla => failures = {})
    /\ gate = 0 => Regressions(baseline, candidate, request.thresholds) = {}

Judged == ~ IsBatch => Verdicts

LEMMA JudgedStep ==
    Control /\ Judged /\ [BatchNext]_AllVars => Judged'
<1> SUFFICES ASSUME Control, Judged, [BatchNext]_AllVars PROVE Judged'
    OBVIOUS
<1> USE DEF input, files, outcome, measurement, recorder, Exit
<1>1. ASSUME request' = request, IsBatch PROVE Judged'
    BY <1>1 DEF Judged, IsBatch
<1>2. CASE IsBatch
  <2>1. request' = request
    BY <1>2, Steps DEF BatchStep, LoadTargets, Prepare, RefuseTarget, StartTarget, TargetFails,
       TargetEnds, SaveTarget, SaveFails, ReportTarget, ReportFails, OpenOutput, Dump, OutputFails,
       ConcludeBatch, Skip, single, FileUnreadable, Interrupt, AllVars, vars
  <2> QED
    BY <1>1, <1>2, <2>1
<1>3. ASSUME ~ IsBatch, request' = request, Verdicts' PROVE Judged'
    BY <1>3 DEF Judged, IsBatch
<1>4. ASSUME gate' = -1, exit' # 0, pc' \notin {"write", "sla", "pdf"} PROVE Verdicts'
    BY <1>4 DEF Verdicts, Reported
<1> SUFFICES ASSUME ~ IsBatch PROVE request' = request /\ Verdicts'
    BY <1>2, <1>3
<1>5. Verdicts /\ (pc # "ended" => exit = -1 /\ gate = -1)
    BY DEF Judged, Verdicts, Control, Running
<1>6. CASE FileUnreadable \/ Interrupt \/ Refusals
    BY <1>4, <1>5, <1>6 DEF FileUnreadable, Interrupt, Control, Refusals, UsageError, NotANumber,
       Invalid, Unsafe, ResolveFails
<1>7. CASE \/ Configure \/ Resolve \/ EndpointOpens \/ ProbeAnswered \/ EndWarmup \/ Measuring \/ Pass
  <2>1. UNCHANGED <<request, exit, gate>> /\ pc # "ended" /\ pc' \notin {"write", "sla", "pdf"}
    BY <1>7 DEF Configure, Resolve, EndpointOpens, ProbeAnswered, Choose, EndWarmup, Measuring,
       Coroutine, Pace, Timeout, Answer, Pass
  <2> QED
    BY <1>4, <1>5, <2>1
<1>8. CASE EndpointFails \/ ProbeSilent
  <2>1. UNCHANGED <<request, gate>> /\ pc # "ended" /\ pc' \notin {"write", "sla", "pdf"}
        /\ exit' \in {exit, 1}
    BY <1>8 DEF EndpointFails, ProbeSilent, NextAddress
  <2> QED
    BY <1>4, <1>5, <2>1
<1>9. CASE UNCHANGED AllVars
  <2>1. UNCHANGED <<request, config, pc, exit, gate, stats, failures, candidate, baseline,
                    packet, counts, co_counts>>
    BY <1>9 DEF AllVars, vars
  <2> QED
    BY <1>5, <2>1 DEF Verdicts, Reported, Running, Answered, Lost
<1>10. CASE Compare
  <2>1. /\ UNCHANGED <<request, config, pc, exit, stats, failures, candidate, packet, counts, co_counts>>
        /\ ~ Running /\ pc = "ended"
    BY <1>10 DEF Compare, Control
  <2>2. gate' = 0 => Regressions(baseline', candidate, request.thresholds) = {}
    BY <1>10 DEF Compare
  <2> QED
    BY <1>5, <2>1, <2>2 DEF Verdicts, Reported, Running, Answered, Lost
<1>11. CASE Report
  <2>1. /\ UNCHANGED <<request, exit, gate, packet, counts, co_counts>> /\ pc = "measure" /\ pc' = "write"
        /\ stats' = ComputedStats(Count, counts, co_counts)
        /\ \A s \in Callers : packet[s] \in {"answered", "lost"}
    BY <1>11 DEF Report
  <2>2. Callers = Answered' \union Lost'
    BY <2>1 DEF Answered, Lost
  <2> QED
    BY <1>5, <2>1, <2>2 DEF Verdicts, Reported
<1>12. CASE WriteFails \/ SlaUnreadable \/ PdfFails
    BY <1>4, <1>5, <1>12 DEF WriteFails, SlaUnreadable, PdfFails
<1>13. CASE WriteMetrics \/ EvaluateSla \/ Conclude
  <2>1. /\ UNCHANGED <<request, config, gate, stats, packet, counts, co_counts>>
        /\ pc \in {"write", "sla", "pdf"} /\ exit = -1 /\ gate = -1
    BY <1>5, <1>13 DEF WriteMetrics, EvaluateSla, Conclude
  <2>2. stats' = ComputedStats(Count, counts', co_counts') /\ Callers = Answered' \union Lost'
    BY <1>5, <2>1 DEF Verdicts, Reported, Answered, Lost
  <2>3. CASE WriteMetrics
    BY <2>1, <2>2, <2>3 DEF WriteMetrics, Verdicts
  <2>4. CASE EvaluateSla
    BY <1>5, <2>1, <2>2, <2>4 DEF EvaluateSla, Verdicts, Reported
  <2>5. CASE Conclude
    <3>1. exit' = 0 => stats.received > 0 /\ (config.fail_on_sla => failures = {})
      BY <2>5 DEF Conclude, Verdict
    <3>2. pc = "pdf" /\ pc' = "ended" /\ UNCHANGED <<failures, candidate>>
      BY <2>5 DEF Conclude
    <3> QED
      BY <1>5, <2>1, <2>2, <3>1, <3>2 DEF Verdicts, Reported
  <2> QED
    BY <1>13, <2>3, <2>4, <2>5
<1> QED
    BY <1>6, <1>7, <1>8, <1>9, <1>10, <1>11, <1>12, <1>13, Steps DEF Concluding

-----------------------------------------------------------------------------

RecorderInv == Recording /\ Addressed /\ Packets /\ Codes /\ Counted /\ Judged

LEMMA RecorderInit == BatchInit => RecorderInv
<1> SUFFICES ASSUME BatchInit PROVE RecorderInv
    OBVIOUS
<1> USE DEF BatchInit, Init
<1>1. Recording
    BY NothingRecorded DEF Recording
<1>2. Addressed
    BY CommandBoundsAssumption DEF Addressed
<1>3. Packets
    BY CommandBoundsAssumption DEF Packets
<1>4. Codes
    BY DEF Codes
<1>5. Counted
  <2>1. Answered = {}
    BY DEF Answered
  <2>2. Tally(counts, raw_rtts) /\ Len(raw_rtts) = 0
    BY TallyEmpty
  <2> QED
    BY <2>1, <2>2, FS_EmptySet DEF Counted
<1>6. Judged
    BY DEF Judged, Verdicts, Reported, Running
<1> QED
    BY <1>1, <1>2, <1>3, <1>4, <1>5, <1>6 DEF RecorderInv

(* The invariant of what is recorded and reported holds throughout. *)
THEOREM RecorderInductive == BatchSpec => [](RecorderInv /\ Inductive /\ IInv)
<1>1. RecorderInv /\ Inductive /\ IInv /\ [BatchNext]_<<vars, batch>> => RecorderInv'
    BY RecordingStep, AddressedStep, PacketsStep, CodesStep, CountedStep, JudgedStep
       DEF RecorderInv, Inductive, AllVars
<1> QED
    BY <1>1, RecorderInit, BatchInductive, PTL DEF BatchSpec

(* The correction for coordinated omission keeps every sample, and what it adds
   lies between one interval and the largest latency measured, whatever the
   rate, the latencies and the order they come in. *)
THEOREM CorrectionAddsGaps == BatchSpec => []CorrectionFillsGaps
<1>1. RecorderInv => CorrectionFillsGaps
    BY DEF RecorderInv, Recording, CorrectionFillsGaps, Gaps
<1> QED
    BY <1>1, RecorderInductive, PTL

(* Every variable of test and of batch keeps its type: no address beyond those
   the host has, no packet beyond the last retry, no exit code of the other
   command. *)
THEOREM CommandTypes == BatchSpec => []BatchTypeOK
<1>1. RecorderInv /\ Inductive /\ IInv => BatchTypeOK
  <2> SUFFICES ASSUME RecorderInv, Inductive, IInv PROVE BatchTypeOK
    OBVIOUS
  <2>1. Control /\ Sources /\ Accounts /\ Reached
    BY DEF Inductive
  <2>2. ASSUME ~ IsBatch PROVE TypeOK
    <3>1. IsLayer(config)
      BY <2>1, ConfigComplete DEF Complete
    <3>2. request \in Requests /\ pc \in TestStages
      BY <2>1, <2>2 DEF Control
    <3>3. /\ found \in 0 .. MaxAddresses /\ index \in 0 .. MaxAddresses + 1
          /\ open \subseteq 1 .. found /\ chosen \in 0 .. found
      BY CommandBoundsAssumption DEF RecorderInv, Addressed
    <3>4. BucketTypeOK
      BY DEF IInv
    <3> QED
      BY <2>2, <3>1, <3>2, <3>3, <3>4 DEF TypeOK, TestStages, RecorderInv, Recording, Packets, Codes
  <2>3. ASSUME IsBatch
        PROVE  /\ at \in 0 .. Len(request.targets) + 1 /\ results \in Seq(Targets)
               /\ failed \subseteq Targets /\ reached \subseteq Targets
               /\ written \in [Targets \union {0} -> Targets \union {0}]
    <3>1. Len(request.targets) \in Nat /\ Targets = 1 .. Len(request.targets)
      BY <2>1, <2>3, TargetsCounted
    <3>2. Place /\ Order /\ Covered /\ Stored
      BY <2>1, <2>3 DEF Accounts
    <3>3. Ended \subseteq Targets
      BY <3>2 DEF Order, Ended
    <3>4. Targets \union {0} = 0 .. Len(request.targets)
      BY <3>1
    <3>5. written \in [Targets \union {0} -> Targets \union {0}]
      BY <3>2, <3>3, <3>4 DEF Stored
    <3> QED
      BY <2>1, <3>1, <3>2, <3>5 DEF Place, Order, Covered, Reached
  <2>4. IsBatch => pc \in BatchStages
    BY <2>1 DEF Control
  <2> QED
    BY <2>2, <2>3, <2>4 DEF BatchTypeOK, BatchStages, RecorderInv, Codes
<1> QED
    BY <1>1, RecorderInductive, PTL

(* A percentile of the histogram and the value that has its rank. *)
LEMMA Ranked ==
    ASSUME RecorderInv, raw_rtts # <<>>, NEW p \in Nat, p > 0, p <= 10000
    PROVE  \E n \in 1 .. Len(raw_rtts) : \E v \in Rtts :
              /\ IsRank(n, p, Len(raw_rtts))
              /\ Cardinality(Below(raw_rtts, v)) < n /\ Cardinality(AtMost(raw_rtts, v)) >= n
              /\ Percentile(counts, p) = 2^Bucket(v)
<1>1. raw_rtts \in Seq(Rtts) /\ raw_rtts \in Seq(Nat) /\ Rtts \subseteq Nat
    BY RecordedNumbers DEF RecorderInv
<1>2. counts \in Histogram /\ Tally(counts, raw_rtts)
    BY DEF RecorderInv, Recording, Counted
<1>3. Len(raw_rtts) \in Nat /\ Len(raw_rtts) > 0
    BY <1>1
<1>4. PICK n \in 1 .. Len(raw_rtts) : IsRank(n, p, Len(raw_rtts))
    BY <1>3, RankExists
<1>5. PICK v \in Rtts :
          Cardinality(Below(raw_rtts, v)) < n /\ Cardinality(AtMost(raw_rtts, v)) >= n
    BY <1>1, OrderStatistic
<1>6. v \in Nat /\ p \in Nat
    BY <1>1
<1>7. Percentile(counts, p) = 2^Bucket(v)
    BY <1>1, <1>2, <1>4, <1>5, <1>6, PercentileOfRank
<1> WITNESS n \in 1 .. Len(raw_rtts)
<1> WITNESS v \in Rtts
<1> QED
    BY <1>4, <1>5, <1>7

(* The percentiles of the report are those of the round trip times, up to the
   width of a bucket: whatever the times, their number and the order they come
   in, the rank that is rounded up to is met by a time in the bucket read off. *)
THEOREM PercentilesRanked == BatchSpec => []PercentilesAreRanks
<1>1. RecorderInv => PercentilesAreRanks
  <2> SUFFICES ASSUME RecorderInv, raw_rtts # <<>>, NEW p \in Shares
               PROVE  \E v \in Rtts :
                         /\ \E n \in 1 .. Len(raw_rtts) : IsRank(n, p, Len(raw_rtts)) /\ HasRank(v, n)
                         /\ Percentile(counts, p) = 2^Bucket(v)
    BY DEF PercentilesAreRanks
  <2>1. p \in Nat /\ p > 0 /\ p <= 10000
    BY DEF Shares
  <2>2. PICK n \in 1 .. Len(raw_rtts), v \in Rtts :
            /\ IsRank(n, p, Len(raw_rtts))
            /\ Cardinality(Below(raw_rtts, v)) < n /\ Cardinality(AtMost(raw_rtts, v)) >= n
            /\ Percentile(counts, p) = 2^Bucket(v)
    BY <2>1, Ranked
  <2>3. HasRank(v, n)
    BY <2>2 DEF HasRank, Below, AtMost
  <2> QED
    BY <2>2, <2>3
<1> QED
    BY <1>1, RecorderInductive, PTL

(* The latency of the rank is at least the one reported and, as a cube, less
   than twice it, that is longer by 26 percent at most, unless it is beyond the
   last bucket. *)
PercentilesClose ==
    raw_rtts # <<>> =>
        \A p \in Shares : \E v \in Rtts : \E n \in 1 .. Len(raw_rtts) :
            /\ IsRank(n, p, Len(raw_rtts)) /\ HasRank(v, n)
            /\ Percentile(counts, p) <= v * v * v
            /\ Bucket(v) < BucketCount - 1 => v * v * v < 2 * Percentile(counts, p)

(* The reported percentiles are right up to the width of a bucket, for any
   distribution of round trip times. *)
THEOREM PercentilesAccurate == BatchSpec => []PercentilesClose
<1>1. RecorderInv => PercentilesClose
  <2> SUFFICES ASSUME RecorderInv, raw_rtts # <<>>, NEW p \in Shares
               PROVE  \E v \in Rtts : \E n \in 1 .. Len(raw_rtts) :
                         /\ IsRank(n, p, Len(raw_rtts)) /\ HasRank(v, n)
                         /\ Percentile(counts, p) <= v * v * v
                         /\ Bucket(v) < BucketCount - 1 => v * v * v < 2 * Percentile(counts, p)
    BY DEF PercentilesClose
  <2>1. p \in Nat /\ p > 0 /\ p <= 10000
    BY DEF Shares
  <2>2. PICK n \in 1 .. Len(raw_rtts), v \in Rtts :
            /\ IsRank(n, p, Len(raw_rtts))
            /\ Cardinality(Below(raw_rtts, v)) < n /\ Cardinality(AtMost(raw_rtts, v)) >= n
            /\ Percentile(counts, p) = 2^Bucket(v)
    BY <2>1, Ranked
  <2>3. HasRank(v, n)
    BY <2>2 DEF HasRank, Below, AtMost
  <2>4. v \in Nat /\ v > 0
    BY CommandBoundsAssumption
  <2>5. 2^Bucket(v) <= v * v * v /\ (Bucket(v) < BucketCount - 1 => v * v * v < 2 * 2^Bucket(v))
    BY <2>4, BucketBounds
  <2>6. /\ Percentile(counts, p) <= v * v * v
        /\ Bucket(v) < BucketCount - 1 => v * v * v < 2 * Percentile(counts, p)
    BY <2>2, <2>5
  <2> WITNESS v \in Rtts
  <2> WITNESS n \in 1 .. Len(raw_rtts)
  <2> QED
    BY <2>2, <2>3, <2>6
<1> QED
    BY <1>1, RecorderInductive, PTL

(* What the statistics say of the packets. *)
LEMMA StatisticsAgree ==
    ASSUME RecorderInv, ~ IsBatch, Reported
    PROVE  /\ stats = ComputedStats(Count, counts, co_counts)
           /\ stats.sent = Count /\ stats.received = Cardinality(Answered)
           /\ stats.lost = Cardinality(Lost)
           /\ stats.p95_us = Percentile(counts, 9500) /\ stats.p99_us = Percentile(counts, 9900)
<1>1. stats = ComputedStats(Count, counts, co_counts) /\ Callers = Answered \union Lost
    BY DEF RecorderInv, Judged, Verdicts
<1>2. raw_rtts \in Seq(Nat) /\ counts \in Histogram
    BY RecordedNumbers DEF RecorderInv, Recording
<1>3. Total(counts) = Cardinality(Answered)
    BY <1>2, TotalCounts DEF RecorderInv, Counted
<1>4. Cardinality(Lost) = Count - Cardinality(Answered)
  <2>1. Lost = Callers \ Answered /\ Callers \intersect Answered = Answered
    BY <1>1 DEF Answered, Lost
  <2> QED
    BY <2>1, CallersFinite, FS_Difference
<1> QED
    BY <1>1, <1>3, <1>4 DEF ComputedStats

ReportCoherent ==
    ~ IsBatch /\ Reported =>
        /\ stats.received + stats.lost = stats.sent /\ stats.lost >= 0
        /\ stats.p95_us <= stats.p99_us

(* compute_stats takes the packets that are lost as those that are not in the
   histogram: none is counted twice or below zero, and the percentiles it
   reads off are in order. *)
THEOREM ReportsCohere == BatchSpec => []ReportCoherent
<1>1. RecorderInv => ReportCoherent
  <2> SUFFICES ASSUME RecorderInv, ~ IsBatch, Reported
               PROVE  /\ stats.received + stats.lost = stats.sent /\ stats.lost >= 0
                      /\ stats.p95_us <= stats.p99_us
    BY DEF ReportCoherent
  <2>1. Cardinality(Answered) \in Nat /\ Cardinality(Lost) \in Nat /\ Count \in Nat
    BY CallersFinite DEF Answered, Lost
  <2>2. Cardinality(Answered) + Cardinality(Lost) = Count
    <3>1. Callers = Answered \union Lost /\ Answered \intersect Lost = {}
      BY DEF RecorderInv, Judged, Verdicts, Answered, Lost
    <3>2. Answered \in SUBSET Callers /\ Lost \in SUBSET Callers
      BY DEF Answered, Lost
    <3>3. IsFiniteSet(Answered) /\ IsFiniteSet(Lost)
      BY <3>2, CallersFinite
    <3>4. Cardinality(Answered \union Lost) =
              Cardinality(Answered) + Cardinality(Lost) - Cardinality(Answered \intersect Lost)
      BY <3>3, FS_Union
    <3> QED
      BY <2>1, <3>1, <3>4, CallersFinite, FS_EmptySet
  <2>3. Percentile(counts, 9500) <= Percentile(counts, 9900)
    BY PercentilesGrow DEF RecorderInv, Recording
  <2> QED
    BY <2>1, <2>2, <2>3, StatisticsAgree
<1> QED
    BY <1>1, RecorderInductive, PTL

(* A limit on a percentile holds of that share of the round trip times. *)
LEMMA ShareWithin ==
    ASSUME RecorderInv, NEW share \in {95, 99}, NEW limit \in Int,
           ~ (Percentile(counts, 100 * share) > limit * limit * limit)
    PROVE  100 * Cardinality({i \in DOMAIN raw_rtts : 2^Bucket(raw_rtts[i]) <= limit * limit * limit})
               >= share * Len(raw_rtts)
<1> DEFINE cube == limit * limit * limit
           Quick == {i \in DOMAIN raw_rtts : 2^Bucket(raw_rtts[i]) <= cube}
<1>1. raw_rtts \in Seq(Nat) /\ raw_rtts \in Seq(Rtts) /\ Rtts \subseteq Nat
    BY RecordedNumbers DEF RecorderInv
<1>2. cube \in Int
    OBVIOUS
<1>3. ~ (Percentile(counts, 100 * share) > cube)
    OBVIOUS
<1> HIDE DEF cube
<1>4. Quick \in SUBSET DOMAIN raw_rtts /\ Cardinality(Quick) \in Nat /\ IsFiniteSet(Quick)
    BY <1>1, PositionsFinite
<1>5. CASE raw_rtts = <<>>
  <2>1. Len(raw_rtts) = 0
    BY <1>5
  <2>2. 100 * Cardinality(Quick) >= 0 /\ share * 0 = 0
    BY <1>4
  <2> QED
    BY <2>1, <2>2 DEF cube
<1>6. CASE raw_rtts # <<>>
  <2>1. 100 * share \in Nat /\ 100 * share > 0 /\ 100 * share <= 10000
    OBVIOUS
  <2>2. PICK n \in 1 .. Len(raw_rtts), v \in Rtts :
            /\ IsRank(n, 100 * share, Len(raw_rtts))
            /\ Cardinality(AtMost(raw_rtts, v)) >= n
            /\ Percentile(counts, 100 * share) = 2^Bucket(v)
    BY <1>6, <2>1, Ranked
  <2>3. v \in Nat /\ Bucket(v) \in Nat /\ 2^Bucket(v) \in Nat /\ 2^Bucket(v) <= cube
    <3>1. v \in Nat
      BY <1>1
    <3>2. Bucket(v) \in Nat
      BY <3>1, BucketsGrow DEF Buckets
    <3>3. 2^Bucket(v) \in Nat
      BY <3>2, PowType
    <3> QED
      BY <1>2, <1>3, <2>2, <3>1, <3>2, <3>3
  <2>4. AtMost(raw_rtts, v) \in SUBSET Quick
    <3> SUFFICES ASSUME NEW i \in DOMAIN raw_rtts, raw_rtts[i] <= v
                 PROVE  2^Bucket(raw_rtts[i]) <= cube
      BY DEF AtMost
    <3>1. raw_rtts[i] \in Nat
      BY <1>1
    <3>2. Bucket(raw_rtts[i]) <= Bucket(v) /\ Bucket(raw_rtts[i]) \in Nat
      BY <2>3, <3>1, BucketsGrow DEF Buckets
    <3>3. 2^Bucket(raw_rtts[i]) <= 2^Bucket(v) /\ 2^Bucket(raw_rtts[i]) \in Nat
      BY <2>3, <3>2, PowGrow, PowType
    <3> QED
      BY <1>2, <2>3, <3>3
  <2>5. Cardinality(AtMost(raw_rtts, v)) <= Cardinality(Quick)
            /\ Cardinality(AtMost(raw_rtts, v)) \in Nat
    BY <1>4, <2>4, FS_Subset, FS_CardinalityType
  <2>6. n \in Nat /\ Len(raw_rtts) \in Nat /\ n <= Cardinality(Quick)
    BY <1>1, <1>4, <2>2, <2>5
  <2>7. 100 * Cardinality(Quick) >= share * Len(raw_rtts)
    <3>1. CASE share = 95
      BY <1>4, <2>2, <2>6, <3>1 DEF IsRank
    <3>2. CASE share = 99
      BY <1>4, <2>2, <2>6, <3>2 DEF IsRank
    <3> QED
      BY <3>1, <3>2
  <2> QED
    BY <2>7 DEF cube
<1> QED
    BY <1>5, <1>6

(* A percentile over the limit means that too few round trip times are within it. *)
LEMMA ShareBeyond ==
    ASSUME RecorderInv, raw_rtts # <<>>, NEW share \in {95, 99}, NEW limit \in Int,
           Percentile(counts, 100 * share) > limit * limit * limit
    PROVE  ~ (100 * Cardinality({i \in DOMAIN raw_rtts : 2^Bucket(raw_rtts[i]) <= limit * limit * limit})
                  >= share * Len(raw_rtts))
<1> DEFINE cube == limit * limit * limit
           Quick == {i \in DOMAIN raw_rtts : 2^Bucket(raw_rtts[i]) <= cube}
<1>1. raw_rtts \in Seq(Nat) /\ raw_rtts \in Seq(Rtts) /\ Rtts \subseteq Nat
    BY RecordedNumbers DEF RecorderInv
<1>2. cube \in Int /\ Percentile(counts, 100 * share) > cube
    OBVIOUS
<1> HIDE DEF cube
<1>3. 100 * share \in Nat /\ 100 * share > 0 /\ 100 * share <= 10000
    OBVIOUS
<1>4. PICK n \in 1 .. Len(raw_rtts), v \in Rtts :
          /\ IsRank(n, 100 * share, Len(raw_rtts))
          /\ Cardinality(Below(raw_rtts, v)) < n
          /\ Percentile(counts, 100 * share) = 2^Bucket(v)
    BY <1>3, Ranked
<1>5. v \in Nat /\ Bucket(v) \in Nat /\ 2^Bucket(v) \in Nat /\ 2^Bucket(v) > cube
  <2>1. v \in Nat
    BY <1>1
  <2>2. Bucket(v) \in Nat
    BY <2>1, BucketsGrow DEF Buckets
  <2>3. 2^Bucket(v) \in Nat
    BY <2>2, PowType
  <2> QED
    BY <1>2, <1>4, <2>1, <2>2, <2>3
<1>6. Quick \in SUBSET Below(raw_rtts, v)
  <2> SUFFICES ASSUME NEW i \in DOMAIN raw_rtts, 2^Bucket(raw_rtts[i]) <= cube, ~ (raw_rtts[i] < v)
               PROVE  FALSE
    BY DEF Below
  <2>1. raw_rtts[i] \in Nat /\ v <= raw_rtts[i]
    BY <1>1, <1>5
  <2>2. Bucket(v) <= Bucket(raw_rtts[i]) /\ Bucket(raw_rtts[i]) \in Nat
    BY <1>5, <2>1, BucketsGrow DEF Buckets
  <2>3. 2^Bucket(v) <= 2^Bucket(raw_rtts[i]) /\ 2^Bucket(raw_rtts[i]) \in Nat
    BY <1>5, <2>2, PowGrow, PowType
  <2> QED
    BY <1>2, <1>5, <2>3
<1>7. Below(raw_rtts, v) \in SUBSET DOMAIN raw_rtts
    BY DEF Below
<1>8. /\ IsFiniteSet(Below(raw_rtts, v)) /\ Cardinality(Below(raw_rtts, v)) \in Nat
      /\ Quick \in SUBSET DOMAIN raw_rtts /\ Cardinality(Quick) \in Nat
    BY <1>1, <1>7, PositionsFinite
<1>9. Cardinality(Quick) <= Cardinality(Below(raw_rtts, v))
    BY <1>6, <1>8, FS_Subset
<1>10. n \in Nat /\ Len(raw_rtts) \in Nat /\ Cardinality(Quick) <= n - 1
    BY <1>1, <1>4, <1>8, <1>9
<1>11. ~ (100 * Cardinality(Quick) >= share * Len(raw_rtts))
  <2>1. CASE share = 95
    BY <1>4, <1>8, <1>10, <2>1 DEF IsRank
  <2>2. CASE share = 99
    BY <1>4, <1>8, <1>10, <2>2 DEF IsRank
  <2> QED
    BY <2>1, <2>2
<1> QED
    BY <1>11 DEF cube

LEMMA RateLimits ==
    ASSUME NEW s, NEW limit
    PROVE  /\ Violates(s, "min_success_rate", limit) <=> 100 * s.received < limit * s.sent
           /\ Violates(s, "max_loss_rate", limit) <=> 100 * s.lost > limit * s.sent
BY DEF Violates, Latencies

(* A limit that the statistics do not violate is met by the packets. *)
LEMMA LimitsHold ==
    ASSUME RecorderInv, Control, ~ IsBatch, Reported, NEW m \in DOMAIN request.sla,
           ~ Violates(stats, m, request.sla[m])
    PROVE  Met(m, request.sla[m])
<1>1. /\ m \in {"min_success_rate", "max_loss_rate", "p95_us", "p99_us", "co_p99_us"}
      /\ request.sla[m] \in Int
    BY LimitsAssumption DEF Control, Latencies
<1>2. /\ Cardinality(Answered) \in Nat /\ Cardinality(Lost) \in Nat /\ Count \in Nat
    BY CallersFinite DEF Answered, Lost
<1> DEFINE limit == request.sla[m]
<1>3. limit * Count \in Int /\ 100 * Cardinality(Answered) \in Int /\ 100 * Cardinality(Lost) \in Int
    BY <1>1, <1>2
<1>4. CASE m = "min_success_rate"
  <2>1. ~ (100 * Cardinality(Answered) < limit * Count)
    <3>1. ~ (100 * stats.received < limit * stats.sent)
      BY <1>4, RateLimits, Zenon
    <3>2. stats.received = Cardinality(Answered) /\ stats.sent = Count
      BY StatisticsAgree
    <3> QED
      BY <3>1, <3>2
  <2>2. 100 * Cardinality(Answered) >= limit * Count
    BY <1>3, <2>1
  <2> QED
    BY <1>4, <2>2 DEF Met
<1>5. CASE m = "max_loss_rate"
  <2>1. ~ (100 * Cardinality(Lost) > limit * Count)
    <3>1. ~ (100 * stats.lost > limit * stats.sent)
      BY <1>5, RateLimits, Zenon
    <3>2. stats.lost = Cardinality(Lost) /\ stats.sent = Count
      BY StatisticsAgree
    <3> QED
      BY <3>1, <3>2
  <2>2. 100 * Cardinality(Lost) <= limit * Count
    BY <1>3, <2>1
  <2> QED
    BY <1>5, <2>2 DEF Met
<1>6. CASE m \in {"p95_us", "p99_us"}
  <2> DEFINE share == IF m = "p95_us" THEN 95 ELSE 99
  <2>1. share \in {95, 99}
    OBVIOUS
  <2>2. stats[m] = Percentile(counts, 100 * share)
    BY <1>6, StatisticsAgree
  <2>3. ~ (stats[m] > limit * limit * limit)
    BY <1>6 DEF Violates, Latencies
  <2> HIDE DEF share
  <2>4. 100 * Cardinality({i \in DOMAIN raw_rtts : 2^Bucket(raw_rtts[i]) <= limit * limit * limit})
            >= share * Len(raw_rtts)
    BY <1>1, <2>1, <2>2, <2>3, ShareWithin
  <2> QED
    BY <1>6, <2>4 DEF Met, share
<1>7. CASE m = "co_p99_us"
    BY <1>7 DEF Met
<1> QED
    BY <1>1, <1>4, <1>5, <1>6, <1>7

(* A limit that the statistics violate is not met by the packets; co_p99_us is
   about times that nobody measured. *)
LEMMA LimitsBroken ==
    ASSUME RecorderInv, Control, ~ IsBatch, Reported, NEW m \in DOMAIN request.sla,
           m # "co_p99_us", raw_rtts # <<>> \/ request.sla[m] >= 0,
           Violates(stats, m, request.sla[m])
    PROVE  ~ Met(m, request.sla[m])
<1> DEFINE limit == request.sla[m]
<1>1. m \in {"min_success_rate", "max_loss_rate", "p95_us", "p99_us"} /\ limit \in Int
    BY LimitsAssumption DEF Control, Latencies
<1>2. /\ Cardinality(Answered) \in Nat /\ Cardinality(Lost) \in Nat /\ Count \in Nat
    BY CallersFinite DEF Answered, Lost
<1>3. limit * Count \in Int /\ 100 * Cardinality(Answered) \in Int /\ 100 * Cardinality(Lost) \in Int
    BY <1>1, <1>2
<1>4. CASE m = "min_success_rate"
  <2>1. 100 * stats.received < limit * stats.sent
    BY <1>4, RateLimits, Zenon
  <2>2. stats.received = Cardinality(Answered) /\ stats.sent = Count
    BY StatisticsAgree
  <2>3. 100 * Cardinality(Answered) < limit * Count
    BY <2>1, <2>2
  <2>4. ~ (100 * Cardinality(Answered) >= limit * Count)
    BY <1>3, <2>3
  <2> QED
    BY <1>4, <2>4 DEF Met
<1>5. CASE m = "max_loss_rate"
  <2>1. 100 * stats.lost > limit * stats.sent
    BY <1>5, RateLimits, Zenon
  <2>2. stats.lost = Cardinality(Lost) /\ stats.sent = Count
    BY StatisticsAgree
  <2>3. 100 * Cardinality(Lost) > limit * Count
    BY <2>1, <2>2
  <2>4. ~ (100 * Cardinality(Lost) <= limit * Count)
    BY <1>3, <2>3
  <2> QED
    BY <1>5, <2>4 DEF Met
<1>6. CASE m \in {"p95_us", "p99_us"}
  <2> DEFINE share == IF m = "p95_us" THEN 95 ELSE 99
  <2>1. share \in {95, 99}
    OBVIOUS
  <2>2. stats[m] = Percentile(counts, 100 * share)
    BY <1>6, StatisticsAgree
  <2>3. stats[m] > limit * limit * limit
    BY <1>6 DEF Violates, Latencies
  <2> HIDE DEF share
  <2>4. raw_rtts # <<>>
    <3> SUFFICES ASSUME raw_rtts = <<>> PROVE FALSE
      OBVIOUS
    <3>1. limit >= 0
      OBVIOUS
    <3>2. limit * limit * limit >= 0
      <4>1. limit * limit \in Nat
        BY <1>1, <3>1
      <4> QED
        BY <1>1, <3>1, <4>1
    <3>3. Total(counts) = 0
      <4>1. raw_rtts \in Seq(Nat) /\ counts \in Histogram /\ Len(raw_rtts) = 0
        BY RecordedNumbers DEF RecorderInv, Recording
      <4> QED
        BY <4>1, TotalCounts DEF RecorderInv, Counted
    <3>4. Percentile(counts, 100 * share) = 0
      BY <3>3 DEF Percentile
    <3> QED
      BY <1>1, <2>2, <2>3, <3>2, <3>4
  <2>5. ~ (100 * Cardinality({i \in DOMAIN raw_rtts : 2^Bucket(raw_rtts[i]) <= limit * limit * limit})
               >= share * Len(raw_rtts))
    BY <1>1, <2>1, <2>2, <2>3, <2>4, ShareBeyond
  <2> QED
    BY <1>6, <2>5 DEF Met, share
<1> QED
    BY <1>1, <1>4, <1>5, <1>6

(* The checks of evaluate_sla are neither too lax nor too strict: a limit is
   listed as failed exactly when the packets and their round trip times do not
   meet it, to the width of a bucket. *)
SlaExact ==
    ~ IsBatch /\ pc = "pdf" /\ config.sla_path = "readable" =>
        \A m \in DOMAIN request.sla \ {"co_p99_us"} :
            raw_rtts # <<>> \/ request.sla[m] >= 0 => (m \in failures <=> ~ Met(m, request.sla[m]))

(* evaluate_sla and load_sla (sla.py:26-54) judge the run itself, not only the
   figures it is reduced to, for any limits and round trip times. *)
THEOREM SlaVerdictsExact == BatchSpec => []SlaExact
<1>1. RecorderInv /\ Inductive => SlaExact
  <2> SUFFICES ASSUME RecorderInv, Inductive, ~ IsBatch, pc = "pdf", config.sla_path = "readable",
                      NEW m \in DOMAIN request.sla \ {"co_p99_us"},
                      raw_rtts # <<>> \/ request.sla[m] >= 0
               PROVE  m \in failures <=> ~ Met(m, request.sla[m])
    BY DEF SlaExact
  <2>1. Control /\ Reported /\ failures = SlaFailures(stats, request.sla)
    BY DEF RecorderInv, Judged, Verdicts, Reported, Inductive
  <2>2. m \in failures <=> Violates(stats, m, request.sla[m])
    BY <2>1 DEF SlaFailures
  <2>3. Violates(stats, m, request.sla[m]) => ~ Met(m, request.sla[m])
    BY <2>1, LimitsBroken
  <2>4. ~ Violates(stats, m, request.sla[m]) => Met(m, request.sla[m])
    BY <2>1, LimitsHold
  <2> QED
    BY <2>2, <2>3, <2>4
<1> QED
    BY <1>1, RecorderInductive, PTL

(* An exit code of zero is a promise about the packets: some were answered, a
   limit of the SLA that gates the command holds of them, and a file that
   compare found no worse than its baseline has the statistics of this run.
   For a batch it is what GreenBatches says. *)
THEOREM GreenKept == BatchSpec => []GreenMeansAsked
<1>1. RecorderInv /\ Inductive => GreenMeansAsked
  <2> SUFFICES ASSUME RecorderInv, Inductive PROVE GreenMeansAsked
    OBVIOUS
  <2>1. IsBatch => GreenBatch
    BY DEF Inductive, Accounts
  <2>2. ASSUME ~ IsBatch, exit = 0
        PROVE  /\ Answered # {}
               /\ config.sla_path = "readable" /\ config.fail_on_sla =>
                     \A m \in DOMAIN request.sla : Met(m, request.sla[m])
               /\ config.metrics_output # "none" /\ gate = 0 =>
                     Regressions(baseline, ComputedStats(Count, counts, co_counts),
                                 request.thresholds) = {}
    <3>1. Verdicts /\ Control
      BY <2>2 DEF RecorderInv, Judged, Inductive
    <3>2. Answered # {}
      <4>1. stats.received > 0 /\ stats.received = Cardinality(Answered)
        BY <2>2, <3>1, StatisticsAgree DEF Reported, Verdicts
      <4> QED
        BY <4>1, FS_EmptySet
    <3>3. ASSUME config.sla_path = "readable", config.fail_on_sla, NEW m \in DOMAIN request.sla
          PROVE  Met(m, request.sla[m])
      <4>1. SlaFailures(stats, request.sla) = {}
        BY <2>2, <3>1, <3>3 DEF Verdicts
      <4>2. ~ Violates(stats, m, request.sla[m])
        BY <4>1 DEF SlaFailures
      <4> QED
        BY <2>2, <3>1, <4>2, LimitsHold DEF Reported
    <3>4. config.metrics_output # "none" => candidate = ComputedStats(Count, counts, co_counts)
      BY <2>2, <3>1, StatisticsAgree DEF Verdicts, Reported, Control, Running
    <3>5. gate = 0 => Regressions(baseline, candidate, request.thresholds) = {}
      BY <3>1 DEF Verdicts
    <3> QED
      BY <3>2, <3>3, <3>4, <3>5
  <2> QED
    BY <2>1, <2>2 DEF GreenMeansAsked, GreenMeansMet
<1> QED
    BY <1>1, RecorderInductive, PTL

-----------------------------------------------------------------------------
(* The run of the command is a probe run *)

(* Nothing is sent before the measured phase, and a batch, in which a run is one
   step, leaves these variables alone.  What is sent counts as an attempt. *)
Waiting ==
    /\ IsBatch \/ pc \in {"start", "check", "connect", "probe", "warmup"} =>
          \A s \in Callers : packet[s] = "unsent" /\ attempt[s] = 0
    /\ \A s \in Callers : packet[s] = "sent" => attempt[s] > 0

LEMMA WaitingStep == Control /\ Packets /\ Waiting /\ [BatchNext]_AllVars => Waiting'
<1> SUFFICES ASSUME Control, Packets, Waiting, [BatchNext]_AllVars PROVE Waiting'
    OBVIOUS
<1> USE DEF measurement, recorder, input
<1>1. ASSUME UNCHANGED <<request, packet, attempt>>,
             \/ IsBatch
             \/ pc' \in {"start", "check", "connect", "probe", "warmup"} =>
                   pc \in {"start", "check", "connect", "probe", "warmup"}
      PROVE  Waiting'
    BY <1>1 DEF Waiting, IsBatch
<1>2. CASE IsBatch /\ BatchStep
    BY <1>1, <1>2 DEF BatchStep, LoadTargets, Prepare, RefuseTarget, StartTarget, TargetFails,
       TargetEnds, SaveTarget, SaveFails, ReportTarget, ReportFails, OpenOutput, Dump, OutputFails,
       ConcludeBatch, Skip, single
<1>3. CASE FileUnreadable \/ Interrupt
    BY <1>1, <1>3 DEF FileUnreadable, Interrupt, Exit
<1>4. CASE Refusals \/ Configure \/ Resolve
    BY <1>1, <1>4 DEF Refusals, UsageError, NotANumber, Invalid, Unsafe, ResolveFails, Configure,
       Resolve, Exit
<1>5. CASE EndpointFails \/ EndpointOpens \/ ProbeAnswered \/ ProbeSilent
    BY <1>1, <1>5 DEF EndpointFails, EndpointOpens, ProbeAnswered, ProbeSilent, NextAddress, Choose
<1>6. CASE EndWarmup \/ Report \/ Concluding
    BY <1>1, <1>6 DEF EndWarmup, Report, Concluding, WriteMetrics, WriteFails, EvaluateSla,
       SlaUnreadable, PdfFails, Conclude, Exit
<1>7. CASE Pass \/ Compare \/ UNCHANGED AllVars
    BY <1>1, <1>7 DEF Pass, Compare, AllVars, vars
<1>8. CASE ~ IsBatch /\ Measuring
  <2>1. /\ ~ IsBatch' /\ pc' = "measure"
        /\ \A t \in Callers : packet'[t] = "sent" =>
              \/ packet[t] = "sent" /\ attempt'[t] = attempt[t]
              \/ attempt'[t] = attempt[t] + 1
    BY <1>8 DEF Measuring, Coroutine, Pace, Timeout, Answer, IsBatch, Packets
  <2>2. \A t \in Callers : attempt[t] \in Nat
    BY CommandBoundsAssumption DEF Packets
  <2> QED
    BY <2>1, <2>2 DEF Waiting
<1> QED
    BY <1>2, <1>3, <1>4, <1>5, <1>6, <1>7, <1>8, Steps

AllJudged == \A s \in Callers : packet[s] \in {"answered", "lost"}

\* The verdict a packet stands for, and where the run is, in the terms of
\* ProbeRun.  An interrupt after the last verdict leaves a run that could have
\* been reported, an earlier one a run that is stopped.
ProbeVerdict(s) ==
    CASE packet[s] = "answered" -> "received"
      [] packet[s] = "lost" -> "lost"
      [] packet[s] = "unsent" /\ attempt[s] = 0 -> "todo"
      [] OTHER -> "open"

ProbeStatus == [s \in Callers |-> ProbeVerdict(s)]

ProbeStage ==
    CASE pc \in {"write", "sla", "pdf"} \/ (pc = "ended" /\ AllJudged) -> "reported"
      [] pc = "ended" /\ exit = 130 /\ ~ AllJudged -> "stopping"
      [] OTHER -> "running"

ProbeOf == INSTANCE ProbeRun
    WITH Probes <- Callers, Concurrency <- Count, status <- ProbeStatus, stage <- ProbeStage

StillProbes == UNCHANGED <<ProbeStatus, ProbeStage>>

LEMMA ProbeStatusAt ==
    /\ \A s \in Callers : ProbeStatus[s] = ProbeVerdict(s)
    /\ UNCHANGED <<packet, attempt>> => ProbeStatus' = ProbeStatus /\ AllJudged' = AllJudged
    /\ AllJudged => \A s \in Callers : ProbeStatus[s] \in {"received", "lost"}
BY DEF ProbeStatus, ProbeVerdict, AllJudged

\* The instance of ProbeRun brings a copy of Cardinality.
LEMMA CardinalityOf == \A S : ProbeOf!Cardinality(S) = Cardinality(S)
BY DEF Cardinality, ProbeOf!Cardinality

(* A step of a coroutine opens a probe, judges it or, with a retry, nothing. *)
LEMMA CoroutineProbes ==
    ASSUME Packets, Waiting, NEW s \in Callers, Coroutine(s)
    PROVE  ProbeOf!ProbeNext \/ StillProbes
<1>1. pc = "measure" /\ pc' = "measure"
    BY DEF Coroutine, Pace, Timeout, Answer
<1>2. ProbeStage = "running" /\ ProbeStage' = "running"
    BY <1>1 DEF ProbeStage
<1>3. ASSUME packet' = [packet EXCEPT ![s] = packet'[s]],
             attempt' = [attempt EXCEPT ![s] = attempt'[s]]
      PROVE  ProbeStatus' = [ProbeStatus EXCEPT ![s] = ProbeVerdict(s)']
  <2>1. \A t \in Callers : t # s => packet'[t] = packet[t] /\ attempt'[t] = attempt[t]
    BY <1>3 DEF Packets
  <2>2. \A t \in Callers : t # s => ProbeVerdict(t)' = ProbeVerdict(t)
    BY <2>1 DEF ProbeVerdict
  <2> QED
    BY <2>2 DEF ProbeStatus
<1>4. attempt[s] \in Nat /\ s \in DOMAIN packet /\ s \in DOMAIN attempt
      /\ attempt = [attempt EXCEPT ![s] = attempt[s]]
    BY CommandBoundsAssumption DEF Packets
<1>5. CASE Pace(s) /\ sleeper'[s] # 0
    BY <1>2, <1>5, ProbeStatusAt DEF Pace, StillProbes
<1>6. CASE Pace(s) /\ sleeper'[s] = 0
  <2>1. /\ packet[s] = "unsent" /\ packet' = [packet EXCEPT ![s] = "sent"] /\ packet'[s] = "sent"
        /\ attempt' = [attempt EXCEPT ![s] = attempt[s] + 1] /\ attempt'[s] = attempt[s] + 1
    BY <1>4, <1>6 DEF Pace
  <2>2. ProbeVerdict(s)' = "open"
    BY <2>1 DEF ProbeVerdict
  <2>3. ProbeStatus' = [ProbeStatus EXCEPT ![s] = "open"]
    <3>1. /\ packet' = [packet EXCEPT ![s] = packet'[s]]
          /\ attempt' = [attempt EXCEPT ![s] = attempt'[s]]
      BY <2>1
    <3> QED
      BY <1>3, <2>2, <3>1
  <2>4. CASE attempt[s] = 0
    <3>1. ProbeStatus[s] = "todo"
      BY <2>1, <2>4, ProbeStatusAt DEF ProbeVerdict
    <3>2. {q \in Callers : ProbeStatus[q] = "open"} \subseteq Callers \ {s}
      BY <3>1
    <3>3. Cardinality({q \in Callers : ProbeStatus[q] = "open"}) < Count
      <4>1. IsFiniteSet(Callers \ {s}) /\ Cardinality(Callers \ {s}) = Count - 1
        BY CallersFinite, FS_RemoveElement
      <4>2. /\ Cardinality({q \in Callers : ProbeStatus[q] = "open"}) <= Cardinality(Callers \ {s})
            /\ Cardinality({q \in Callers : ProbeStatus[q] = "open"}) \in Nat
        BY <3>2, <4>1, CallersFinite, FS_Subset
      <4> QED
        BY <4>1, <4>2, CallersFinite
    <3>4. ProbeOf!OpenProbe(s)
      BY <1>2, <2>3, <3>1, <3>3, CardinalityOf DEF ProbeOf!OpenProbe, ProbeOf!Become
    <3> QED
      BY <3>4 DEF ProbeOf!ProbeNext
  <2>5. CASE attempt[s] # 0
    <3>1. ProbeStatus[s] = "open" /\ DOMAIN ProbeStatus = Callers
      BY <2>1, <2>5, ProbeStatusAt DEF ProbeVerdict, ProbeStatus
    <3>2. [ProbeStatus EXCEPT ![s] = "open"] = ProbeStatus
      BY <3>1 DEF ProbeStatus
    <3> QED
      BY <1>2, <2>3, <3>2 DEF StillProbes
  <2> QED
    BY <2>4, <2>5
<1>7. CASE Timeout(s)
  <2>1. /\ packet[s] = "sent" /\ attempt' = attempt /\ attempt'[s] = attempt[s]
        /\ packet' = [packet EXCEPT ![s] = packet'[s]] /\ packet'[s] \in {"unsent", "lost"}
        /\ packet'[s] = "unsent" \/ packet'[s] = "lost"
    BY <1>4, <1>7 DEF Timeout, limiter
  <2>2. ProbeStatus[s] = "open"
    BY <2>1, ProbeStatusAt DEF ProbeVerdict
  <2>3. ProbeStatus' = [ProbeStatus EXCEPT ![s] = ProbeVerdict(s)']
    BY <1>3, <1>4, <2>1
  <2>4. CASE packet'[s] = "lost"
    <3>1. ProbeVerdict(s)' = "lost"
      BY <2>4 DEF ProbeVerdict
    <3> QED
      BY <1>2, <2>2, <2>3, <3>1
         DEF ProbeOf!GiveUp, ProbeOf!Become, ProbeOf!Verdict, ProbeOf!ProbeNext
  <2>5. CASE packet'[s] = "unsent"
    <3>1. attempt'[s] # 0
      BY <1>4, <2>1 DEF Waiting
    <3>2. ProbeVerdict(s)' = "open"
      BY <2>5, <3>1 DEF ProbeVerdict
    <3>3. [ProbeStatus EXCEPT ![s] = "open"] = ProbeStatus
      BY <2>2 DEF ProbeStatus
    <3> QED
      BY <1>2, <2>3, <3>2, <3>3 DEF StillProbes
  <2> QED
    BY <2>1, <2>4, <2>5
<1>8. CASE \E rtt \in Rtts : Answer(s, rtt)
  <2>1. /\ packet[s] = "sent" /\ attempt' = attempt /\ attempt'[s] = attempt[s]
        /\ packet' = [packet EXCEPT ![s] = "answered"] /\ packet'[s] = "answered"
    BY <1>4, <1>8 DEF Answer
  <2>2. ProbeStatus[s] = "open"
    BY <2>1, ProbeStatusAt DEF ProbeVerdict
  <2>3. ProbeVerdict(s)' = "received"
    BY <2>1 DEF ProbeVerdict
  <2>4. ProbeStatus' = [ProbeStatus EXCEPT ![s] = "received"]
    BY <1>3, <1>4, <2>1, <2>3
  <2> QED
    BY <1>2, <2>2, <2>4
       DEF ProbeOf!Receive, ProbeOf!Become, ProbeOf!Verdict, ProbeOf!ProbeNext
<1> QED
    BY <1>5, <1>6, <1>7, <1>8 DEF Coroutine

(* While packets wait nothing is judged: a run has at least one. *)
LEMMA WaitingUnjudged ==
    ASSUME \A s \in Callers : packet[s] = "unsent"
    PROVE  ~ AllJudged
<1>1. 1 \in Callers
    BY CountAssumption
<1> QED
    BY <1>1 DEF AllJudged

LEMMA ProbesStep ==
    Control /\ Packets /\ Waiting /\ Judged /\ [BatchNext]_AllVars
        => [ProbeOf!ProbeNext]_<<ProbeStatus, ProbeStage>>
<1> SUFFICES ASSUME Control, Packets, Waiting, Judged, [BatchNext]_AllVars
             PROVE  ProbeOf!ProbeNext \/ StillProbes
    BY DEF StillProbes
<1> USE DEF measurement, recorder
<1> DEFINE Early == {"start", "check", "connect", "probe", "warmup"}
<1>1. IsBatch \/ pc \in Early => ~ AllJudged
    BY WaitingUnjudged DEF Waiting
<1>2. ~ IsBatch /\ pc \in {"write", "sla", "pdf"} => AllJudged
    BY DEF Judged, Verdicts, Reported, Answered, Lost, AllJudged
<1>3. ASSUME UNCHANGED <<packet, attempt>>, ProbeStage' = ProbeStage PROVE StillProbes
    BY <1>3, ProbeStatusAt DEF StillProbes
<1>4. ASSUME UNCHANGED <<packet, attempt>>, ~ AllJudged,
             pc \notin {"ended", "write", "sla", "pdf"},
             pc' \notin {"write", "sla", "pdf"}, pc' = "ended" => exit' # 130
      PROVE  StillProbes
  <2>1. ProbeStage = "running" /\ ~ AllJudged'
    BY <1>4, ProbeStatusAt DEF ProbeStage
  <2>2. ProbeStage' = "running"
    BY <1>4, <2>1 DEF ProbeStage
  <2> QED
    BY <1>3, <1>4, <2>1, <2>2
<1>5. CASE IsBatch /\ BatchStep
  <2>1. UNCHANGED <<packet, attempt>> /\ ~ AllJudged
    BY <1>1, <1>5 DEF BatchStep, LoadTargets, Prepare, RefuseTarget, StartTarget, TargetFails,
       TargetEnds, SaveTarget, SaveFails, ReportTarget, ReportFails, OpenOutput, Dump, OutputFails,
       ConcludeBatch, Skip, single
  <2>2. pc \notin {"ended", "write", "sla", "pdf"} /\ pc' \notin {"write", "sla", "pdf"}
    BY <1>5 DEF BatchStep, LoadTargets, Prepare, RefuseTarget, StartTarget, TargetFails,
       TargetEnds, SaveTarget, SaveFails, ReportTarget, ReportFails, OpenOutput, Dump, OutputFails,
       ConcludeBatch, Skip, Exit, AllTried
  <2>3. exit' # 130
    <3>1. exit' \in {exit, 0, 1, 3}
      BY <1>5 DEF BatchStep, LoadTargets, Prepare, RefuseTarget, StartTarget, TargetFails,
         TargetEnds, SaveTarget, SaveFails, ReportTarget, ReportFails, OpenOutput, Dump, OutputFails,
         ConcludeBatch, Skip, Exit
    <3> QED
      BY <2>2, <3>1 DEF Control, Running
  <2> QED
    BY <1>4, <2>1, <2>2, <2>3
<1>6. CASE FileUnreadable \/ (~ IsBatch /\ Refusals)
    BY <1>1, <1>4, <1>6 DEF FileUnreadable, Refusals, UsageError, NotANumber, Invalid, Unsafe,
       ResolveFails, Exit
<1>7. CASE ~ IsBatch /\ (Configure \/ Resolve \/ EndpointOpens \/ ProbeAnswered \/ EndWarmup)
    BY <1>1, <1>4, <1>7 DEF Configure, Resolve, EndpointOpens, ProbeAnswered, EndWarmup, Choose
<1>8. CASE ~ IsBatch /\ (EndpointFails \/ ProbeSilent)
    BY <1>1, <1>4, <1>8 DEF EndpointFails, ProbeSilent, NextAddress, Exit
<1>9. CASE Interrupt
  <2>1. UNCHANGED <<packet, attempt>> /\ pc # "ended" /\ pc' = "ended" /\ exit' = 130
    BY <1>9 DEF Interrupt, Exit, Control
  <2>2. ProbeStatus' = ProbeStatus /\ AllJudged' = AllJudged
    BY <2>1, ProbeStatusAt
  <2>3. CASE AllJudged
    <3>1. ProbeStage' = "reported"
      BY <2>1, <2>2, <2>3 DEF ProbeStage
    <3>2. ProbeStage \in {"running", "reported"}
      BY <2>1 DEF ProbeStage
    <3>3. \A s \in Callers : ProbeStatus[s] \in {"received", "lost"}
      BY <2>3, ProbeStatusAt
    <3> QED
      BY <2>2, <3>1, <3>2, <3>3 DEF StillProbes, ProbeOf!ReportAll, ProbeOf!ProbeNext
  <2>4. CASE ~ AllJudged
    <3>1. ProbeStage' = "stopping"
      BY <2>1, <2>2, <2>4 DEF ProbeStage
    <3>2. pc \notin {"write", "sla", "pdf"}
      BY <1>2, <2>4 DEF Control, BatchStages
    <3>3. ProbeStage = "running"
      BY <2>1, <3>2 DEF ProbeStage
    <3> QED
      BY <2>2, <3>1, <3>3 DEF ProbeOf!Stop, ProbeOf!ProbeNext
  <2> QED
    BY <2>3, <2>4
<1>10. CASE ~ IsBatch /\ Report
  <2>1. UNCHANGED <<packet, attempt>> /\ pc = "measure" /\ pc' = "write" /\ AllJudged
    BY <1>10 DEF Report, AllJudged
  <2>2. ProbeStage = "running" /\ ProbeStage' = "reported"
    BY <2>1 DEF ProbeStage
  <2> QED
    BY <2>1, <2>2, ProbeStatusAt DEF ProbeOf!ReportAll, ProbeOf!ProbeNext
<1>11. CASE ~ IsBatch /\ Concluding
  <2>1. /\ UNCHANGED <<packet, attempt>> /\ pc \in {"write", "sla", "pdf"}
        /\ pc' \in {"write", "sla", "pdf", "ended"}
    BY <1>11 DEF Concluding, WriteMetrics, WriteFails, EvaluateSla, SlaUnreadable, PdfFails,
       Conclude, Exit
  <2>2. AllJudged /\ AllJudged'
    BY <1>2, <1>11, <2>1, ProbeStatusAt
  <2>3. ProbeStage = "reported" /\ ProbeStage' = "reported"
    BY <2>1, <2>2 DEF ProbeStage
  <2> QED
    BY <1>3, <2>1, <2>3
<1>12. CASE Compare \/ Pass \/ UNCHANGED AllVars
  <2>1. UNCHANGED <<packet, attempt, pc, exit>>
    BY <1>12 DEF Compare, Pass, AllVars, vars
  <2>2. ProbeStage' = ProbeStage
    BY <2>1, ProbeStatusAt DEF ProbeStage
  <2> QED
    BY <1>3, <2>1, <2>2
<1>13. CASE ~ IsBatch /\ Measuring
    BY <1>13, CoroutineProbes DEF Measuring
<1> QED
    BY <1>5, <1>6, <1>7, <1>8, <1>9, <1>10, <1>11, <1>12, <1>13, Steps

(* The command implements the probe run that BlitzClient is proved to implement
   (ClientImplementsProbeRun), retries, pacing and recording included: what it
   takes of the client as given, that every packet of run_test is judged once
   and a report has a verdict for all, is what the client provides. *)
THEOREM CommandImplementsProbeRun == BatchSpec => ProbeOf!ProbeSafety
<1>1. BatchInit => Waiting /\ ProbeOf!ProbeInit
  <2> SUFFICES ASSUME BatchInit PROVE Waiting /\ ProbeOf!ProbeInit
    OBVIOUS
  <2>1. pc = "start" /\ \A s \in Callers : packet[s] = "unsent" /\ attempt[s] = 0
    BY DEF BatchInit, Init
  <2>2. ProbeStage = "running"
    BY <2>1 DEF ProbeStage
  <2>3. \A s \in Callers : ProbeVerdict(s) = "todo"
    BY <2>1 DEF ProbeVerdict
  <2> QED
    BY <2>1, <2>2, <2>3 DEF Waiting, ProbeStatus, ProbeOf!ProbeInit
<1>2. RecorderInv /\ Inductive => Control /\ Packets /\ Judged
    BY DEF RecorderInv, Inductive
<1>3. UNCHANGED <<vars, batch>> <=> UNCHANGED AllVars
    BY DEF AllVars
<1> QED
    BY <1>1, <1>2, <1>3, WaitingStep, ProbesStep, RecorderInductive, PTL
       DEF BatchSpec, AllVars, ProbeOf!ProbeSafety, ProbeOf!probeVars
==============================================================================
