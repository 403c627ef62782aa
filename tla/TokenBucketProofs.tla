--------------------------- MODULE TokenBucketProofs ---------------------------
(***************************************************************************)
(* Proofs about TokenBucket, for any callers, rates and burst.  The bucket *)
(* keeps accounts: what was granted since the start, and since each grant, *)
(* and what is left are together no more than what was earned.             *)
(***************************************************************************)
EXTENDS TokenBucket, TLAPS

USE DEF BucketTypeOK

\* What was granted from grant i on, and what is left, was earned since, but
\* for the burst.
WindowPaid ==
    \A i \in DOMAIN grants :
        interval * (Len(grants) - i + 1) + tokens <= Capacity + last - grants[i]

\* What was granted at all, and what is left, was earned since the start.
AllPaid == interval * Len(grants) + tokens <= last

Ordered ==
    /\ \A j \in DOMAIN grants : grants[j] <= now /\ (interval > 0 => grants[j] <= last)
    /\ \A i, j \in DOMAIN grants : i <= j => grants[i] <= grants[j]

IInv ==
    /\ BucketTypeOK
    /\ Ordered
    /\ interval > 0 => WindowPaid /\ AllPaid
    /\ RateHeld

LEMMA CapacityType ==
    ASSUME interval \in Nat
    PROVE  Capacity \in Nat /\ interval <= Capacity
  BY TenthAssumption DEF Capacity

LEMMA RefilledBounds ==
    ASSUME BucketTypeOK
    PROVE  /\ Refilled \in 0 .. Capacity
           /\ Refilled <= tokens + now - last
           /\ tokens <= Refilled
  <1>1. interval \in Nat /\ now \in Nat /\ tokens \in Nat /\ tokens <= Capacity
        /\ last \in Nat /\ last <= now
    BY IntervalsAssumption, CapacityType
  <1>2. Capacity \in Nat
    BY <1>1, CapacityType
  <1> QED
    BY <1>1, <1>2 DEF Refilled

\* One packet more costs one interval more.
LEMMA Cost ==
    ASSUME NEW a \in Nat, NEW k \in Int
    PROVE  a * (k + 1) = a * k + a /\ a * k \in Int
  OBVIOUS

LEMMA InitIInv == BucketInit => IInv
  <1> SUFFICES ASSUME NEW i \in Intervals, Created(i) PROVE IInv
    BY DEF BucketInit
  <1> USE DEF Created
  <1>1. interval \in Nat /\ Capacity \in Nat
    BY IntervalsAssumption, CapacityType
  <1>2. BucketTypeOK
    BY <1>1
  <1>3. DOMAIN grants = {} /\ Len(grants) = 0
    OBVIOUS
  <1> QED
    BY <1>1, <1>2, <1>3 DEF IInv, Ordered, WindowPaid, AllPaid, RateHeld

\* A grant at the present moment: the sequence grows by it.
LEMMA GrantAppends ==
    ASSUME BucketTypeOK, NEW c \in Callers, Granted(c)
    PROVE  /\ Len(grants') = Len(grants) + 1
           /\ DOMAIN grants' = DOMAIN grants \union {Len(grants) + 1}
           /\ \A i \in DOMAIN grants :
                 grants'[i] = grants[i] /\ grants[i] \in Nat /\ i \in Nat /\ i <= Len(grants)
           /\ grants'[Len(grants) + 1] = now
           /\ grants' \in Seq(Nat)
           /\ sleeper' \in [Callers -> Nat]
           /\ Len(grants) \in Nat
           /\ DOMAIN grants = 1 .. Len(grants)
  BY DEF Granted

LEMMA GrantKeepsOrder ==
    ASSUME BucketTypeOK, Ordered, NEW c \in Callers, Granted(c), now' = now,
           interval' = interval, last' \in Nat, interval > 0 => last' = now
    PROVE  Ordered'
  <1> DEFINE n == Len(grants)
  <1>1. interval \in Nat /\ now \in Nat /\ last <= now /\ last \in Nat /\ n \in Nat
    BY IntervalsAssumption
  <1>2. /\ DOMAIN grants' = DOMAIN grants \union {n + 1} /\ grants'[n + 1] = now
        /\ \A i \in DOMAIN grants :
              grants'[i] = grants[i] /\ grants[i] \in Nat /\ i \in Nat /\ i <= n
    BY GrantAppends
  <1>3. \A j \in DOMAIN grants : grants[j] <= now
    BY DEF Ordered
  <1> HIDE DEF n, BucketTypeOK
  <1>4. \A j \in DOMAIN grants' : grants'[j] <= now
    BY <1>1, <1>2, <1>3
  <1>5. ASSUME NEW i \in DOMAIN grants', NEW j \in DOMAIN grants', i <= j
        PROVE  grants'[i] <= grants'[j]
    <2>1. CASE j = n + 1
      BY <1>2, <1>4, <1>5, <2>1
    <2>2. CASE j \in DOMAIN grants
      <3>1. i \in DOMAIN grants
        BY <1>1, <1>2, <1>5, <2>2
      <3> QED
        BY <1>2, <1>5, <2>2, <3>1 DEF Ordered
    <2> QED
      BY <1>2, <2>1, <2>2
  <1> QED
    BY <1>4, <1>5 DEF Ordered

LEMMA UnlimitedKeepsIInv ==
    ASSUME IInv, NEW c \in Callers, Unlimited(c), UNCHANGED <<now, interval>>
    PROVE  IInv'
  <1> USE DEF IInv
  <1>1. interval = 0 /\ interval' = 0 /\ now' = now /\ tokens' = tokens /\ last' = last
    BY DEF Unlimited
  <1>2. Capacity \in Nat /\ Capacity' = Capacity
    BY <1>1, CapacityType DEF Capacity
  <1>3. Granted(c)
    BY DEF Unlimited
  <1>4. BucketTypeOK'
    BY <1>1, <1>2, <1>3, GrantAppends
  <1>5. Ordered'
    BY <1>1, <1>3, GrantKeepsOrder
  <1>6. \A i \in DOMAIN grants' : i \in Nat /\ grants'[i] \in Nat
    BY <1>4
  <1>7. RateHeld'
    BY <1>1, <1>2, <1>5, <1>6 DEF RateHeld, Ordered
  <1> QED
    BY <1>1, <1>4, <1>5, <1>7

LEMMA TakeKeepsIInv ==
    ASSUME IInv, NEW c \in Callers, Take(c), UNCHANGED <<now, interval>>
    PROVE  IInv'
  <1> USE DEF IInv
  <1> DEFINE n == Len(grants)
  <1>1. /\ interval' = interval /\ interval \in Nat /\ interval > 0 /\ now' = now
        /\ last' = now /\ tokens' = Refilled - interval /\ Refilled >= interval
    BY IntervalsAssumption DEF Take
  <1>2. Capacity \in Nat /\ Capacity' = Capacity
    BY <1>1, CapacityType DEF Capacity
  <1>3. Granted(c)
    BY DEF Take
  <1>4. Refilled \in 0 .. Capacity /\ Refilled <= tokens + now - last
    BY RefilledBounds
  <1>5. BucketTypeOK'
    BY <1>1, <1>2, <1>3, <1>4, GrantAppends
  <1>6. Ordered'
    BY <1>1, <1>3, GrantKeepsOrder
  <1>m. /\ n \in Nat /\ Len(grants') = n + 1 /\ DOMAIN grants' = DOMAIN grants \union {n + 1}
        /\ grants'[n + 1] = now
        /\ \A i \in DOMAIN grants :
              grants'[i] = grants[i] /\ grants[i] \in Nat /\ i \in Nat /\ i <= n
    BY <1>3, GrantAppends
  <1>t. now \in Nat /\ last \in Nat /\ last <= now /\ tokens \in Nat /\ Refilled \in Nat
        /\ Refilled <= Capacity
    BY <1>2, <1>4
  <1>7. WindowPaid'
    <2>a. ASSUME NEW i \in DOMAIN grants'
          PROVE  interval * (n + 1 - i + 1) + tokens' <= Capacity + now - grants'[i]
      <3> HIDE DEF n, BucketTypeOK, IInv
      <3>1. CASE i \in DOMAIN grants
        <4> DEFINE owed == interval * (n - i + 1)
        <4>1. owed + tokens <= Capacity + last - grants[i]
          BY <1>1, <3>1 DEF WindowPaid, IInv, n
        <4>2. n - i + 1 \in Int /\ n + 1 - i + 1 = (n - i + 1) + 1
          BY <1>m, <3>1
        <4>3. interval * (n + 1 - i + 1) = owed + interval /\ owed \in Int
          BY <1>1, <4>2, Cost
        <4>4. grants'[i] = grants[i] /\ grants[i] \in Nat
          BY <1>m, <3>1
        <4> HIDE DEF owed
        <4> QED
          BY <1>1, <1>2, <1>4, <1>t, <4>1, <4>3, <4>4
      <3>2. CASE i = n + 1
        <4>1. n + 1 - i + 1 = 1 /\ grants'[i] = now
          BY <1>m, <3>2
        <4>2. interval * (n + 1 - i + 1) = interval
          BY <1>1, <4>1
        <4> QED
          BY <1>1, <1>2, <1>t, <4>1, <4>2
      <3> QED
        BY <1>m, <3>1, <3>2
    <2>b. ASSUME NEW i \in DOMAIN grants'
          PROVE  interval' * (Len(grants') - i + 1) + tokens' <= Capacity' + last' - grants'[i]
      <3>1. /\ interval' = interval /\ interval \in Nat /\ Len(grants') = n + 1 /\ n \in Nat
            /\ Capacity' = Capacity /\ Capacity \in Nat /\ last' = now /\ now \in Nat
            /\ i \in Nat /\ tokens' \in Int /\ grants'[i] \in Nat
        BY <1>1, <1>2, <1>m, <1>t, <2>b
      <3>2. interval * (n + 1 - i + 1) + tokens' <= Capacity + now - grants'[i]
        BY <2>a, <2>b
      <3> HIDE DEF n, BucketTypeOK, IInv
      <3> QED
        BY <3>1, <3>2
    <2> HIDE DEF n, BucketTypeOK, IInv
    <2> QED
      BY <2>b DEF WindowPaid
  <1>8. AllPaid'
    <2>1. interval * n + tokens <= last
      BY <1>1 DEF AllPaid
    <2>2. interval * (n + 1) = interval * n + interval /\ interval * n \in Int
      BY <1>1, <1>3, GrantAppends
    <2>3. Len(grants') = n + 1
      BY <1>3, GrantAppends
    <2> QED
      BY <1>1, <1>4, <2>1, <2>2, <2>3 DEF AllPaid
  <1>9. RateHeld'
    <2>1. ASSUME NEW i \in DOMAIN grants', NEW j \in DOMAIN grants', i <= j
          PROVE  interval * (j - i + 1) <= Capacity + grants'[j] - grants'[i]
      <3>1. CASE j \in DOMAIN grants
        <4>1. i \in DOMAIN grants
          BY <1>3, <2>1, <3>1, GrantAppends
        <4> QED
          BY <1>3, <2>1, <3>1, <4>1, GrantAppends DEF RateHeld
      <3>2. CASE j = n + 1
        <4>1. grants'[j] = now /\ Len(grants') = n + 1
          BY <1>3, <3>2, GrantAppends
        <4>2. interval * (n + 1 - i + 1) + tokens' <= Capacity + now - grants'[i]
          BY <1>1, <1>2, <1>7, <2>1, <4>1 DEF WindowPaid
        <4>a. i \in Int /\ grants'[i] \in Nat /\ tokens' \in Nat
          BY <1>1, <1>m, <1>t, <2>1
        <4>b. n + 1 - i + 1 \in Int
          BY <1>m, <4>a
        <4>3. interval * (n + 1 - i + 1) \in Int
          BY <1>1, <4>b, Cost
        <4> QED
          BY <1>2, <1>t, <3>2, <4>1, <4>2, <4>3, <4>a
      <3> QED
        BY <1>3, <2>1, <3>1, <3>2, GrantAppends
    <2>2. ASSUME NEW j \in DOMAIN grants'
          PROVE  interval * j <= grants'[j]
      <3>1. CASE j \in DOMAIN grants
        BY <1>3, <3>1, GrantAppends DEF RateHeld
      <3>2. CASE j = n + 1
        <4>1. grants'[j] = now /\ Len(grants') = n + 1
          BY <1>3, <3>2, GrantAppends
        <4>2. interval * (n + 1) + tokens' <= now
          BY <1>1, <1>8, <4>1 DEF AllPaid
        <4>3. interval * (n + 1) \in Int /\ tokens' \in Nat
          BY <1>1, <1>3, <1>4, GrantAppends
        <4> QED
          BY <3>2, <4>1, <4>2, <4>3
      <3> QED
        BY <1>3, <2>2, <3>1, <3>2, GrantAppends
    <2> QED
      BY <1>1, <1>2, <2>1, <2>2 DEF RateHeld
  <1> QED
    BY <1>5, <1>6, <1>7, <1>8, <1>9

LEMMA SleepKeepsIInv ==
    ASSUME IInv, NEW c \in Callers, Sleep(c), UNCHANGED <<now, interval>>
    PROVE  IInv'
  <1> USE DEF IInv
  <1>1. /\ interval' = interval /\ interval \in Nat /\ interval > 0 /\ now' = now
        /\ last' = now /\ tokens' = Refilled /\ Refilled < interval /\ grants' = grants
    BY IntervalsAssumption DEF Sleep
  <1>2. Capacity \in Nat /\ Capacity' = Capacity
    BY <1>1, CapacityType DEF Capacity
  <1>3. Refilled \in 0 .. Capacity /\ Refilled <= tokens + now - last
    BY RefilledBounds
  <1>4. sleeper' \in [Callers -> Nat]
    BY <1>1, <1>3 DEF Sleep
  <1>5. BucketTypeOK'
    BY <1>1, <1>2, <1>3, <1>4
  <1>6. Ordered'
    BY <1>1 DEF Ordered
  <1>7. \A i \in DOMAIN grants : interval * (Len(grants) - i + 1) \in Int /\ grants[i] \in Nat
    BY <1>1
  <1>8. WindowPaid'
    BY <1>1, <1>2, <1>3, <1>7 DEF WindowPaid
  <1>9. interval * Len(grants) \in Int
    BY <1>1
  <1>10. AllPaid'
    BY <1>1, <1>3, <1>9 DEF AllPaid
  <1>11. RateHeld'
    BY <1>1, <1>2 DEF RateHeld
  <1> QED
    BY <1>5, <1>6, <1>8, <1>10, <1>11

LEMMA NextIInv == IInv /\ [BucketNext]_limiter => IInv'
  <1> SUFFICES ASSUME IInv, [BucketNext]_limiter PROVE IInv'
    OBVIOUS
  <1>1. CASE Tick
    <2>1. /\ now' = now + 1 /\ interval' = interval /\ tokens' = tokens /\ last' = last
          /\ sleeper' = sleeper /\ grants' = grants /\ Capacity' = Capacity
      BY <1>1 DEF Tick, Capacity
    <2>2. BucketTypeOK'
      BY <2>1 DEF IInv
    <2>3. Ordered'
      BY <2>1 DEF IInv, Ordered
    <2> QED
      BY <2>1, <2>2, <2>3 DEF IInv, WindowPaid, AllPaid, RateHeld
  <1>2. ASSUME NEW c \in Callers, Acquire(c) PROVE IInv'
    BY <1>2, UnlimitedKeepsIInv, TakeKeepsIInv, SleepKeepsIInv DEF Acquire
  <1>3. CASE UNCHANGED limiter
    <2>1. /\ now' = now /\ interval' = interval /\ tokens' = tokens /\ last' = last
          /\ sleeper' = sleeper /\ grants' = grants /\ Capacity' = Capacity
      BY <1>3 DEF limiter, Capacity
    <2> QED
      BY <2>1 DEF IInv, Ordered, WindowPaid, AllPaid, RateHeld
  <1> QED
    BY <1>1, <1>2, <1>3 DEF BucketNext

(* The accounts of the limiter hold for any callers and rates. *)
THEOREM Invariance == BucketSpec => []IInv
  BY InitIInv, NextIInv, PTL DEF BucketSpec

(* Tokens never exceed the burst and the limiter never looks ahead of time. *)
THEOREM TypeCorrect == BucketSpec => []BucketTypeOK
  <1>1. IInv => BucketTypeOK
    BY DEF IInv
  <1> QED
    BY Invariance, <1>1, PTL

(* acquire() holds the rate, whatever its callers do: no window of time holds
   more packets than the burst and what is earned in it. *)
THEOREM LimiterHoldsRate == BucketSpec => []RateHeld
  <1>1. IInv => RateHeld
    BY DEF IInv
  <1> QED
    BY Invariance, <1>1, PTL
=============================================================================
