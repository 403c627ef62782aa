---------------------------- MODULE LoadPathProofs ----------------------------
(* What a test leaves of the server's behaviours, and what it gets from them. *)
EXTENDS LoadPath, EchoServerProofs, SequenceTheorems

AllVars == <<vars, client>>

TesterOK ==
    /\ tester \in Hosts \union {0}
    /\ tester = 0 => flight = <<>>

(* Nothing is under way when nobody tests. *)
LEMMA TesterStep == TesterOK /\ [PathNext]_AllVars => TesterOK'
<1> SUFFICES ASSUME TesterOK, [PathNext]_AllVars PROVE TesterOK'
    OBVIOUS
<1> USE DEF TesterOK
<1>1. CASE Send
    BY <1>1 DEF Send
<1>2. CASE EndWarmup
    BY <1>2 DEF EndWarmup
<1>3. CASE Advance
    BY <1>3 DEF Advance, client, limiter
<1>4. CASE Others
    BY <1>4 DEF Others, client, limiter
<1>5. CASE Over \/ UNCHANGED AllVars
    BY <1>5 DEF Over, AllVars, client, limiter
<1>6. ASSUME NEW i \in DOMAIN flight, Leave(i) PROVE TesterOK'
  <2>1. flight # <<>>
    BY <1>6
  <2> QED
    BY <1>6, <2>1 DEF Leave, limiter
<1> QED
    BY <1>1, <1>2, <1>3, <1>4, <1>5, <1>6 DEF PathNext, Arrive, Lose

(* Each step of a test is a step of the server or none. *)
LEMMA ServerStep == TesterOK /\ [PathNext]_AllVars => [Next]_vars
<1> SUFFICES ASSUME TesterOK, [PathNext]_AllVars PROVE [Next]_vars
    OBVIOUS
<1>1. CASE Send
  <2>1. UNCHANGED now
    BY <1>1 DEF Send, Bucket!Acquire
  <2> QED
    BY <1>1, <2>1 DEF Send, server, vars, table, history
<1>2. CASE EndWarmup
    BY <1>2 DEF EndWarmup, server, vars, table, history
<1>3. CASE Advance
    BY <1>3 DEF Advance, Next
<1>4. CASE Others
    BY <1>4 DEF Others, Next
<1>5. CASE Over \/ UNCHANGED AllVars
    BY <1>5 DEF Over, AllVars
<1>6. ASSUME NEW i \in DOMAIN flight, Arrive(i) PROVE [Next]_vars
  <2>1. flight # <<>>
    BY <1>6
  <2>2. tester \in Hosts
    BY <2>1 DEF TesterOK
  <2> QED
    BY <1>6, <2>2 DEF Arrive, Next
<1>7. ASSUME NEW i \in DOMAIN flight, Lose(i) PROVE [Next]_vars
    BY <1>7 DEF Lose, server, vars, table, history
<1> QED
    BY <1>1, <1>2, <1>3, <1>4, <1>5, <1>6, <1>7 DEF PathNext

(* A test against the server, with its limiters and its network, is one of the
   loads EchoServer allows: what is proved of every load (the bounded table,
   the rate, the evictions, the limiter it implements) holds under a test. *)
THEOREM PathImplementsServer == PathSpec => Spec
<1>1. PathInit => Init /\ TesterOK
    BY TestersAssumption DEF PathInit, TesterOK, Bucket!BucketInit, Bucket!Created
<1>2. TesterOK /\ [PathNext]_AllVars => TesterOK'
    BY TesterStep
<1>3. TesterOK /\ [PathNext]_AllVars => [Next]_vars
    BY ServerStep
<1> QED
    BY <1>1, <1>2, <1>3, PTL DEF PathSpec, Spec, AllVars

-----------------------------------------------------------------------------
(* What the two limiters of a test can have let through *)

Burst == Bucket!Capacity
Ready == Bucket!Refilled

ClientType ==
    /\ interval \in Nat \ {0}
    /\ budget \in 0 .. Burst
    /\ refilled \in 0 .. now
    /\ warm \in Nat \union {-1}
    /\ flight \in Seq(Nat)

(* What was sent since a packet that is still under way, that packet included, *)
(* and what is left were earned since or are the burst.                        *)
FlightPaid ==
    \A i \in DOMAIN flight :
        interval * (Len(flight) - i + 1) + Ready <= Burst + now - flight[i]

Fresh == \A i \in DOMAIN flight : flight[i] <= now /\ now <= flight[i] + MaxDelay

(* What the server will need for the packets under way, for what the limiter   *)
(* in use has left, and for the full bucket of the one to come.                *)
Owed ==
    Len(flight) * Unit + Gain * Ready + (IF warm = -1 THEN 0 ELSE Gain * Burst)

Covers == tester # 0 /\ Sustainable => Owed <= Available(tester)

PathInv == TypeOK /\ TesterOK /\ ClientType /\ FlightPaid /\ Fresh /\ Covers

LEMMA BurstType ==
    ASSUME interval \in Nat \ {0}
    PROVE  Burst \in Nat /\ interval <= Burst
BY PacingAssumption DEF Burst, Bucket!Capacity

LEMMA ReadyBounds ==
    ASSUME ClientType, now \in Nat
    PROVE  Ready \in 0 .. Burst
BY BurstType DEF ClientType, Ready, Burst, Bucket!Refilled

LEMMA Removed ==
    ASSUME flight \in Seq(Nat), NEW k \in DOMAIN flight, flight' = RemoveAt(flight, k)
    PROVE  /\ flight' \in Seq(Nat) /\ Len(flight') = Len(flight) - 1
           /\ DOMAIN flight' = 1 .. (Len(flight) - 1)
           /\ \A i \in DOMAIN flight' :
                 flight'[i] = IF i < k THEN flight[i] ELSE flight[i + 1]
<1> DEFINE front == SubSeq(flight, 1, k - 1)
           back == SubSeq(flight, k + 1, Len(flight))
<1>1. k \in Nat /\ 1 <= k /\ k <= Len(flight) /\ Len(flight) \in Nat
    OBVIOUS
<1>2. /\ front \in Seq(Nat) /\ Len(front) = k - 1
      /\ \A i \in 1 .. (k - 1) : front[i] = flight[i]
    BY <1>1
<1>3. /\ back \in Seq(Nat) /\ Len(back) = Len(flight) - k
      /\ \A i \in 1 .. (Len(flight) - k) : back[i] = flight[i + k]
  <2>1. k + 1 \in 1 .. (Len(flight) + 1) /\ Len(flight) \in (k + 1 - 1) .. Len(flight)
    BY <1>1
  <2>2. /\ back \in Seq(Nat) /\ Len(back) = Len(flight) - (k + 1) + 1
        /\ \A i \in 1 .. (Len(flight) - (k + 1) + 1) : back[i] = flight[k + 1 + i - 1]
    BY <2>1, SubSeqProperties
  <2>3. Len(flight) - (k + 1) + 1 = Len(flight) - k /\ \A i \in Int : k + 1 + i - 1 = i + k
    BY <1>1
  <2>4. Len(flight) - k \in Nat
    BY <1>1
  <2> HIDE DEF back
  <2>5. ASSUME NEW i \in 1 .. (Len(flight) - k) PROVE back[i] = flight[i + k]
    <3>1. back[i] = flight[k + 1 + i - 1]
      BY <2>2, <2>3
    <3>2. k + 1 + i - 1 = i + k
      BY <2>3, <2>4
    <3> QED
      BY <3>1, <3>2, Zenon
  <2> QED
    BY <2>2, <2>3, <2>5
<1>4. flight' = front \o back
    BY DEF RemoveAt
<1> HIDE DEF front, back
<1>5. flight' \in Seq(Nat) /\ Len(flight') = Len(flight) - 1
    BY <1>1, <1>2, <1>3, <1>4
<1>6. ASSUME NEW i \in 1 .. (Len(flight) - 1)
      PROVE  flight'[i] = IF i < k THEN flight[i] ELSE flight[i + 1]
  <2>1. (front \o back)[i] = IF i <= Len(front) THEN front[i] ELSE back[i - Len(front)]
    <3>1. \A j \in 1 .. (Len(front) + Len(back)) :
              (front \o back)[j] = IF j <= Len(front) THEN front[j] ELSE back[j - Len(front)]
      BY <1>2, <1>3, ConcatProperties
    <3>2. i \in 1 .. (Len(front) + Len(back))
      BY <1>1, <1>2, <1>3
    <3> QED
      BY <3>1, <3>2
  <2>2. CASE i < k
    BY <1>1, <1>2, <1>4, <2>1, <2>2
  <2>3. CASE i >= k
    <3>1. i - (k - 1) \in 1 .. (Len(flight) - k) /\ i - (k - 1) + k = i + 1
      BY <1>1, <2>3
    <3>2. back[i - (k - 1)] = flight[i + 1]
      BY <1>3, <3>1
    <3>3. ~ (i <= k - 1) /\ ~ (i < k)
      BY <1>1, <2>3
    <3> QED
      BY <1>2, <1>4, <2>1, <3>2, <3>3
  <2> QED
    BY <1>1, <2>2, <2>3
<1>7. DOMAIN flight' = 1 .. (Len(flight) - 1)
    BY <1>5
<1> QED
    BY <1>5, <1>6, <1>7

(* A packet costs the server no more than its token cost the limiter. *)
LEMMA PacketCosts ==
    ASSUME NEW n \in Nat, NEW b \in Nat, interval \in Nat, Unit <= Gain * interval
    PROVE  n * Unit + Gain * b <= Gain * (interval * n + b)
<1>1. Unit \in Nat /\ Gain \in Nat
    BY RateAssumption
<1>2. n * Unit <= n * (Gain * interval)
  <2>1. PICK d \in Nat : Gain * interval = Unit + d
    <3>1. Gain * interval \in Nat /\ Gain * interval - Unit \in Nat
      BY <1>1
    <3>2. Gain * interval = Unit + (Gain * interval - Unit)
      BY <1>1
    <3> QED
      BY <3>1, <3>2
  <2>2. n * (Unit + d) = n * Unit + n * d /\ n * d \in Nat
    BY <1>1
  <2> QED
    BY <1>1, <2>1, <2>2
<1>3. Gain * (interval * n + b) = n * (Gain * interval) + Gain * b
    BY <1>1
<1>4. n * Unit \in Nat /\ n * (Gain * interval) \in Nat /\ Gain * b \in Nat
    BY <1>1
<1> QED
    BY <1>2, <1>3, <1>4

LEMMA MoreGains ==
    ASSUME NEW a \in Nat, NEW b \in Nat, a <= b
    PROVE  Gain * a <= Gain * b
<1>1. Gain \in Nat
    BY RateAssumption
<1>2. PICK d \in Nat : b = a + d
  <2>1. b - a \in Nat /\ b = a + (b - a)
    OBVIOUS
  <2> QED
    BY <2>1
<1>3. Gain * (a + d) = Gain * a + Gain * d /\ Gain * d \in Nat /\ Gain * a \in Nat
    BY <1>1
<1> QED
    BY <1>2, <1>3

(* A full bucket of the server covers whatever the test can still need. *)
LEMMA FullCovers ==
    ASSUME ClientType, now \in Nat, FlightPaid, Fresh, Sustainable
    PROVE  Owed \in Nat /\ Owed <= Capacity
<1> DEFINE n == Len(flight)
<1>1. /\ n \in Nat /\ interval \in Nat /\ Ready \in Nat /\ Burst \in Nat /\ Ready <= Burst
      /\ Unit \in Nat /\ Gain \in Nat /\ MaxDelay \in Nat /\ Capacity \in Nat
    BY ReadyBounds, BurstType, RateAssumption, PathBoundsAssumption, CapacityType DEF ClientType
<1>2. interval * n + Ready <= Burst + MaxDelay
  <2>1. CASE n = 0
    BY <1>1, <2>1
  <2>2. CASE n # 0
    <3>1. 1 \in DOMAIN flight
      BY <1>1, <2>2 DEF ClientType
    <3>2. flight[1] \in Nat /\ n - 1 + 1 = n
      BY <1>1, <3>1 DEF ClientType
    <3>3. interval * (n - 1 + 1) + Ready <= Burst + now - flight[1]
      BY <3>1 DEF FlightPaid
    <3>4. now <= flight[1] + MaxDelay
      BY <3>1 DEF Fresh
    <3> DEFINE m == interval * n
    <3>5. m \in Nat /\ m + Ready <= Burst + now - flight[1]
      BY <1>1, <3>2, <3>3
    <3> HIDE DEF m, n
    <3> QED
      BY <1>1, <3>2, <3>4, <3>5 DEF m
  <2> QED
    BY <2>1, <2>2
<1>3. n * Unit + Gain * Ready <= Gain * (interval * n + Ready)
    BY <1>1, PacketCosts DEF Sustainable
<1>4. interval * n + Ready \in Nat /\ Burst + MaxDelay \in Nat
    BY <1>1
<1>5. Gain * (interval * n + Ready) <= Gain * (Burst + MaxDelay)
    BY <1>2, <1>4, MoreGains
<1>6. Gain * (Burst + MaxDelay) + Gain * Burst = Gain * (2 * Burst + MaxDelay)
    BY <1>1
<1>7. Gain * (2 * Burst + MaxDelay) <= Capacity
    BY DEF Sustainable, Burst
<1>8. /\ n * Unit \in Nat /\ Gain * Ready \in Nat /\ Gain * Burst \in Nat
      /\ Gain * (interval * n + Ready) \in Nat /\ Gain * (Burst + MaxDelay) \in Nat
    BY <1>1
<1>9. Owed \in Nat /\ Owed <= n * Unit + Gain * Ready + Gain * Burst
    BY <1>8 DEF Owed
<1> HIDE DEF n
<1> QED
    BY <1>1, <1>3, <1>5, <1>6, <1>7, <1>8, <1>9

(* An entry that is there and not idle for a TTL is the one that is used. *)
LEMMA AvailableIs ==
    ASSUME TypeOK, NEW h \in Hosts
    PROVE  Available(h) = IF h \in tracked /\ Idle(h) < TTL THEN Level(h) ELSE Capacity
<1>1. h \in Unexpired(h) => h \in tracked /\ ~ (Idle(h) >= TTL)
    BY DEF Unexpired, Cleaned
<1>2. Idle(h) >= TTL <=> ~ (Idle(h) < TTL)
  <2>1. Idle(h) \in Nat /\ TTL \in Nat
    BY AvailableType, TableAssumption
  <2> HIDE DEF Idle
  <2> QED
    BY <2>1
<1> QED
    BY <1>1, <1>2 DEF Available, Unexpired, Cleaned

LEMMA TesterAvailable ==
    TypeOK /\ tester \in Hosts =>
        Available(tester) =
            IF tester \in tracked /\ Idle(tester) < TTL THEN Level(tester) ELSE Capacity
BY AvailableIs

LEMMA Products ==
    /\ \A a, b \in Nat : a * b \in Nat
    /\ \A a \in Nat : (a + 1) * Gain = a * Gain + Gain /\ Gain * (a + 1) = Gain * a + Gain
BY RateAssumption

-----------------------------------------------------------------------------
(* Each step keeps the accounts *)

\* What a step leaves of the client and of the tester's bucket.
LEMMA StillCovered ==
    ASSUME PathInv, ClientType', FlightPaid', Fresh', now' \in Nat, interval' = interval,
           tester' = tester, tester # 0 /\ Sustainable =>
               Available(tester)' = Capacity \/ Owed' <= Available(tester)'
    PROVE  Covers'
<1>1. Sustainable' = Sustainable /\ Capacity' = Capacity
    BY DEF Sustainable, Capacity, Bucket!Capacity
<1>2. ASSUME Sustainable PROVE Owed' <= Capacity
  <2>1. Sustainable'
    BY <1>1, <1>2
  <2>2. (ClientType /\ now \in Nat /\ FlightPaid /\ Fresh /\ Sustainable)'
            => (Owed <= Capacity)'
    BY FullCovers, PTL
  <2> QED
    BY <1>1, <2>1, <2>2
<1> QED
    BY <1>1, <1>2 DEF Covers

LEMMA ReadySteps ==
    ASSUME ClientType, now \in Nat, interval' = interval, budget' = budget, refilled' = refilled,
           now' = now + 1
    PROVE  Ready' \in Nat /\ Ready' <= Ready + 1 /\ Burst' = Burst
BY BurstType DEF ClientType, Ready, Burst, Bucket!Refilled, Bucket!Capacity

LEMMA ServerTyped == ASSUME PathInv, [PathNext]_AllVars PROVE TypeOK'
BY Typing, ServerStep DEF PathInv

LEMMA AdvanceStep == PathInv /\ Advance => PathInv'
<1> SUFFICES ASSUME PathInv, Advance PROVE PathInv'
    OBVIOUS
<1>1. /\ TypeOK /\ TesterOK /\ ClientType /\ FlightPaid /\ Fresh /\ Covers
      /\ now \in Nat /\ Gain \in Nat /\ Unit \in Nat /\ Capacity \in Nat
    BY RateAssumption, CapacityType DEF PathInv, TypeOK
<1>2. /\ UNCHANGED <<tester, interval, budget, refilled, wake, warm, flight, table>> /\ now' = now + 1
      /\ \A i \in DOMAIN flight : now < flight[i] + MaxDelay
    BY DEF Advance, Tick, client, limiter
<1>3. TypeOK' /\ TesterOK'
    BY <1>1, <1>2, ServerTyped, TesterStep DEF PathNext
<1>4. Ready' \in Nat /\ Ready' <= Ready + 1 /\ Burst' = Burst /\ Ready \in Nat /\ Burst \in Nat
    BY <1>1, <1>2, ReadySteps, ReadyBounds, BurstType DEF ClientType
<1>5. ClientType' /\ now' \in Nat
    BY <1>1, <1>2, <1>4 DEF ClientType
<1>6. FlightPaid'
  <2> SUFFICES ASSUME NEW i \in DOMAIN flight
               PROVE  interval * (Len(flight) - i + 1) + Ready' <= Burst + now' - flight[i]
    BY <1>2, <1>4 DEF FlightPaid
  <2> DEFINE m == interval * (Len(flight) - i + 1)
  <2>1. m + Ready <= Burst + now - flight[i] /\ flight[i] \in Nat
    BY <1>1 DEF FlightPaid, ClientType
  <2>2. m \in Int
    BY <1>1 DEF ClientType
  <2> HIDE DEF m
  <2>3. m + Ready' <= Burst + now' - flight[i]
    BY <1>1, <1>2, <1>4, <2>1, <2>2
  <2> QED
    BY <2>3 DEF m
<1>7. Fresh'
  <2> SUFFICES ASSUME NEW i \in DOMAIN flight
               PROVE  flight[i] <= now + 1 /\ now + 1 <= flight[i] + MaxDelay
    BY <1>2 DEF Fresh
  <2>1. flight[i] \in Nat /\ MaxDelay \in Nat
    BY <1>1, PathBoundsAssumption DEF ClientType
  <2> QED
    BY <1>1, <1>2, <2>1 DEF Fresh
<1>8. ASSUME tester # 0, Sustainable
      PROVE  Available(tester)' = Capacity \/ Owed' <= Available(tester)'
  <2>1. tester \in Hosts /\ Capacity' = Capacity
    BY <1>1, <1>8 DEF TesterOK, Capacity
  <2>2. Available(tester)' =
            IF tester \in tracked /\ Idle(tester)' < TTL THEN Level(tester)' ELSE Capacity
    <3>1. (TypeOK /\ tester \in Hosts)' => (Available(tester) =
              IF tester \in tracked /\ Idle(tester) < TTL THEN Level(tester) ELSE Capacity)'
      BY TesterAvailable, PTL
    <3> QED
      BY <1>2, <1>3, <2>1, <3>1 DEF table
  <2>3. CASE tester \in tracked /\ Idle(tester)' < TTL
    <3> DEFINE x == tokens[tester] + Idle(tester) * Gain
    <3>1. /\ Idle(tester) \in Nat /\ Idle(tester)' = Idle(tester) + 1 /\ TTL \in Nat
          /\ tokens[tester] \in Nat /\ tokens' = tokens
      BY <1>1, <1>2, <2>1, AvailableType, TableAssumption DEF TypeOK, Idle, table
    <3>2. Available(tester) = Level(tester)
      BY <1>1, <2>1, <2>3, <3>1, AvailableIs
    <3>3. (Idle(tester) + 1) * Gain = Idle(tester) * Gain + Gain /\ Idle(tester) * Gain \in Nat
      BY <1>1, <3>1, Products
    <3>4. x \in Nat /\ Level(tester) = (IF x < Capacity THEN x ELSE Capacity)
          /\ Level(tester)' = (IF x + Gain < Capacity THEN x + Gain ELSE Capacity)
      <4>1. tokens[tester] + (Idle(tester) + 1) * Gain = x + Gain /\ x \in Nat
        BY <1>1, <3>1, <3>3
      <4> QED
        BY <1>2, <2>1, <3>1, <4>1 DEF Level
    <3>5. Owed' <= Owed + Gain
      <4>1. Gain * Ready' <= Gain * (Ready + 1)
        BY <1>4, MoreGains
      <4>2. Gain * (Ready + 1) = Gain * Ready + Gain
        BY <1>1, <1>4
      <4>3. /\ Gain * Ready \in Nat /\ Gain * Ready' \in Nat /\ Gain * Burst \in Nat
            /\ Len(flight) * Unit \in Nat
        <5>1. Len(flight) \in Nat
          BY <1>1 DEF ClientType
        <5> QED
          BY <1>1, <1>4, <5>1, Products
      <4>4. Owed' = Len(flight) * Unit + Gain * Ready' + (IF warm = -1 THEN 0 ELSE Gain * Burst)
        BY <1>2, <1>4 DEF Owed
      <4> QED
        BY <1>1, <4>1, <4>2, <4>3, <4>4 DEF Owed
    <3>6. Owed \in Nat /\ Owed <= Level(tester)
      BY <1>1, <1>8, <3>2, FullCovers DEF Covers
    <3>7. Owed' \in Nat
      BY <1>1, <1>2, <1>4 DEF Owed, ClientType
    <3> HIDE DEF x
    <3>8. Level(tester)' = Capacity \/ Owed' <= Level(tester)'
      BY <1>1, <3>4, <3>5, <3>6, <3>7
    <3> QED
      BY <2>2, <2>3, <3>8
  <2>4. CASE ~ (tester \in tracked /\ Idle(tester)' < TTL)
    BY <2>2, <2>4
  <2> QED
    BY <2>3, <2>4
<1>9. Covers'
    BY <1>2, <1>5, <1>6, <1>7, <1>8, StillCovered
<1> QED
    BY <1>3, <1>5, <1>6, <1>7, <1>9 DEF PathInv

\* As long as the server does not act, what a bucket holds stays.
LEMMA ServerWaits ==
    ASSUME UNCHANGED <<now, table, tester>>
    PROVE  Available(tester)' = Available(tester)
BY DEF table, Available, Unexpired, Cleaned, CleanupDue, Idle, Level, Capacity

LEMMA SendStep == PathInv /\ Send => PathInv'
<1> SUFFICES ASSUME PathInv, Send PROVE PathInv'
    OBVIOUS
<1> DEFINE n == Len(flight)
<1>1. /\ TypeOK /\ TesterOK /\ ClientType /\ FlightPaid /\ Fresh /\ Covers
      /\ now \in Nat /\ Gain \in Nat /\ Unit \in Nat /\ MaxDelay \in Nat
    BY RateAssumption, PathBoundsAssumption DEF PathInv, TypeOK
<1>2. /\ UNCHANGED <<now, tester, interval, server>> /\ tester # 0
      /\ Bucket!Take(1) \/ Bucket!Sleep(1)
      /\ warm # 0 /\ warm' = IF warm > 0 /\ flight' # flight THEN warm - 1 ELSE warm
  <2>1. interval # 0
    BY <1>1 DEF ClientType
  <2> QED
    BY <2>1 DEF Send, Bucket!Acquire, Bucket!Unlimited
<1>3. TypeOK' /\ TesterOK'
    BY <1>1, ServerTyped, TesterStep DEF PathNext
<1>4. /\ Ready \in Nat /\ Ready <= Burst /\ Burst \in Nat /\ Burst' = Burst
      /\ interval \in Nat /\ n \in Nat
    BY <1>1, <1>2, ReadyBounds, BurstType DEF ClientType, Burst, Bucket!Capacity
<1>5. warm' \in Nat \union {-1} /\ (warm' = -1 <=> warm = -1)
    BY <1>1, <1>2 DEF ClientType
<1>6. Available(tester)' = Available(tester)
    BY <1>2, ServerWaits DEF server
<1>7. CASE Bucket!Sleep(1)
  <2>1. budget' = Ready /\ refilled' = now /\ flight' = flight
    BY <1>7 DEF Bucket!Sleep, Ready
  <2>2. Ready' = Ready
    BY <1>1, <1>2, <1>4, <2>1 DEF Ready, Burst, Bucket!Refilled
  <2>3. ClientType'
    BY <1>1, <1>2, <1>4, <1>5, <2>1 DEF ClientType
  <2>4. FlightPaid' /\ Fresh'
    BY <1>1, <1>2, <1>4, <2>1, <2>2 DEF FlightPaid, Fresh
  <2>5. Owed' = Owed
    BY <1>4, <1>5, <2>1, <2>2 DEF Owed
  <2>6. Covers'
    BY <1>1, <1>2, <1>6, <2>3, <2>4, <2>5, StillCovered DEF Covers
  <2> QED
    BY <1>3, <2>3, <2>4, <2>6 DEF PathInv
<1>8. CASE Bucket!Take(1)
  <2>1. /\ budget' = Ready - interval /\ interval <= Ready /\ refilled' = now
        /\ flight' = Append(flight, now)
    BY <1>8 DEF Bucket!Take, Bucket!Granted, Ready
  <2>2. Ready' = Ready - interval
    BY <1>1, <1>2, <1>4, <2>1 DEF Ready, Burst, Bucket!Refilled
  <2>3. /\ flight' \in Seq(Nat) /\ Len(flight') = n + 1 /\ DOMAIN flight' = 1 .. (n + 1)
        /\ flight'[n + 1] = now /\ \A i \in 1 .. n : flight'[i] = flight[i] /\ i \in DOMAIN flight
    BY <1>1, <2>1 DEF ClientType
  <2>4. ClientType'
    BY <1>1, <1>2, <1>4, <1>5, <2>1, <2>3 DEF ClientType
  <2>5. FlightPaid'
    <3> SUFFICES ASSUME NEW i \in 1 .. (n + 1)
                 PROVE  interval * (n + 1 - i + 1) + (Ready - interval) <= Burst + now - flight'[i]
      BY <1>2, <1>4, <2>2, <2>3 DEF FlightPaid
    <3>1. CASE i = n + 1
      <4>1. n + 1 - i + 1 = 1 /\ interval * 1 = interval
        BY <1>4, <3>1
      <4> QED
        BY <1>1, <1>4, <2>3, <3>1, <4>1
    <3>2. CASE i \in 1 .. n
      <4> DEFINE m == interval * (n - i + 1)
      <4>1. interval * (n + 1 - i + 1) = m + interval /\ m \in Nat
        <5>1. n - i + 1 \in Nat /\ n + 1 - i + 1 = (n - i + 1) + 1
          BY <1>4, <3>2
        <5>2. \A k \in Nat : interval * (k + 1) = interval * k + interval /\ interval * k \in Nat
          BY <1>4
        <5> QED
          BY <5>1, <5>2
      <4>2. m + Ready <= Burst + now - flight[i] /\ flight[i] \in Nat /\ flight'[i] = flight[i]
        <5>1. i \in DOMAIN flight /\ flight'[i] = flight[i]
          BY <2>3, <3>2
        <5>2. m + Ready <= Burst + now - flight[i]
          BY <1>1, <5>1 DEF FlightPaid
        <5>3. flight[i] \in Nat
          BY <1>1, <5>1 DEF ClientType
        <5> QED
          BY <5>1, <5>2, <5>3
      <4> HIDE DEF m
      <4> QED
        BY <1>1, <1>4, <4>1, <4>2
    <3> QED
      BY <1>4, <3>1, <3>2
  <2>6. Fresh'
    BY <1>1, <1>2, <1>4, <2>3 DEF Fresh
  <2>7. ASSUME Sustainable PROVE Owed' <= Owed
    <3> DEFINE left == Ready - interval
    <3>1. left \in Nat /\ Ready = left + interval
      BY <1>4, <2>1
    <3>2. Gain * Ready = Gain * left + Gain * interval
      <4>1. \A a, b \in Nat : Gain * (a + b) = Gain * a + Gain * b
        BY <1>1
      <4> QED
        BY <1>4, <3>1, <4>1
    <3>3. (n + 1) * Unit = n * Unit + Unit
      BY <1>1, <1>4
    <3>4. Unit <= Gain * interval
      BY <2>7 DEF Sustainable
    <3>5. /\ Gain * left \in Nat /\ Gain * interval \in Nat /\ n * Unit \in Nat
          /\ Gain * Burst \in Nat
      BY <1>1, <1>4, <3>1, Products
    <3>6. Owed' = (n + 1) * Unit + Gain * left + (IF warm = -1 THEN 0 ELSE Gain * Burst)
      BY <1>4, <1>5, <2>2, <2>3 DEF Owed
    <3> HIDE DEF left, n
    <3>7. n * Unit + Unit + Gain * left <= n * Unit + Gain * Ready
      BY <1>1, <3>2, <3>4, <3>5
    <3>8. Owed = n * Unit + Gain * Ready + (IF warm = -1 THEN 0 ELSE Gain * Burst)
      BY DEF Owed, n
    <3> QED
      BY <1>1, <3>2, <3>3, <3>4, <3>5, <3>6, <3>7, <3>8
  <2>8. ASSUME tester # 0, Sustainable PROVE Owed' <= Available(tester)'
    <3>1. Owed \in Nat /\ Owed <= Available(tester)
      BY <1>1, <2>8, FullCovers DEF Covers
    <3>2. (ClientType /\ now \in Nat /\ FlightPaid /\ Fresh /\ Sustainable)' => (Owed \in Nat)'
      BY FullCovers, PTL
    <3>3. Sustainable' = Sustainable
      BY <1>2 DEF Sustainable, Capacity, Bucket!Capacity
    <3>4. Owed' \in Nat
      BY <1>1, <1>2, <2>4, <2>5, <2>6, <2>8, <3>2, <3>3
    <3>5. tester \in Hosts
      BY <1>1, <2>8 DEF TesterOK
    <3>6. Available(tester) \in Nat
      BY <1>1, <3>5, AvailableType, CapacityType
    <3> QED
      BY <1>6, <2>7, <2>8, <3>1, <3>4, <3>6
  <2>9. Covers'
    BY <1>1, <1>2, <2>4, <2>5, <2>6, <2>8, StillCovered
  <2> QED
    BY <1>3, <2>4, <2>5, <2>6, <2>9 DEF PathInv
<1> QED
    BY <1>2, <1>7, <1>8

LEMMA EndWarmupStep == PathInv /\ EndWarmup => PathInv'
<1> SUFFICES ASSUME PathInv, EndWarmup PROVE PathInv'
    OBVIOUS
<1>1. /\ TypeOK /\ TesterOK /\ ClientType /\ Covers
      /\ now \in Nat /\ Gain \in Nat /\ Unit \in Nat
    BY RateAssumption DEF PathInv, TypeOK
<1>2. /\ UNCHANGED <<now, tester, interval, server>> /\ flight = <<>> /\ flight' = <<>>
      /\ warm = 0 /\ warm' = -1 /\ budget' = 0 /\ refilled' = 0
    BY DEF EndWarmup
<1>3. TypeOK' /\ TesterOK'
    BY <1>1, ServerTyped, TesterStep DEF PathNext
<1>4. /\ Ready \in Nat /\ Burst \in Nat /\ Burst' = Burst
    BY <1>1, <1>2, ReadyBounds, BurstType DEF ClientType, Burst, Bucket!Capacity
<1>5. Ready' \in Nat /\ Ready' <= Burst
    BY <1>1, <1>2, <1>4 DEF Ready, Burst, Bucket!Refilled
<1>6. ClientType' /\ FlightPaid' /\ Fresh'
    BY <1>1, <1>2, <1>4 DEF ClientType, FlightPaid, Fresh
<1>7. Owed' \in Nat /\ Owed' <= Owed
  <2>1. Gain * Ready' <= Gain * Burst
    BY <1>4, <1>5, MoreGains
  <2>2. Gain * Ready \in Nat /\ Gain * Ready' \in Nat /\ Gain * Burst \in Nat
    BY <1>1, <1>4, <1>5, Products
  <2>3. 0 * Unit = 0
    BY <1>1
  <2>4. Owed = 0 * Unit + Gain * Ready + Gain * Burst
    BY <1>2 DEF Owed
  <2>5. Owed' = 0 * Unit + Gain * Ready' + 0
    BY <1>2 DEF Owed
  <2> QED
    BY <2>1, <2>2, <2>4, <2>5, <2>3
<1>8. Available(tester)' = Available(tester)
    BY <1>2, ServerWaits DEF server
<1>9. ASSUME tester # 0, Sustainable PROVE Owed' <= Available(tester)'
  <2>1. Owed \in Nat /\ Owed <= Available(tester)
    BY <1>1, <1>9, FullCovers DEF Covers, PathInv
  <2>3. Available(tester) \in Nat
    BY <1>1, <1>9, AvailableType, CapacityType DEF TesterOK
  <2> QED
    BY <1>7, <1>8, <2>1, <2>3
<1>10. Covers'
    BY <1>1, <1>2, <1>6, <1>9, StillCovered
<1> QED
    BY <1>3, <1>6, <1>10 DEF PathInv

\* What is under way after one packet has left the network.
LEMMA LeaveStep ==
    ASSUME PathInv, NEW k \in DOMAIN flight, Leave(k), now' = now
    PROVE  /\ ClientType' /\ FlightPaid' /\ Fresh'
           /\ Owed' \in Nat /\ Owed' + Unit = Owed
<1> DEFINE n == Len(flight)
<1>1. /\ ClientType /\ FlightPaid /\ Fresh
      /\ now \in Nat /\ Gain \in Nat /\ Unit \in Nat /\ MaxDelay \in Nat
    BY RateAssumption, PathBoundsAssumption DEF PathInv, TypeOK
<1>2. /\ UNCHANGED <<tester, interval, budget, refilled, warm>>
      /\ flight' = RemoveAt(flight, k)
    BY DEF Leave, limiter
<1>3. /\ Ready' = Ready /\ Burst' = Burst /\ Ready \in Nat /\ Burst \in Nat
      /\ interval \in Nat /\ n \in Nat /\ k \in 1 .. n
    BY <1>1, <1>2, ReadyBounds, BurstType DEF ClientType, Ready, Burst, Bucket!Refilled, Bucket!Capacity
<1>4. /\ flight' \in Seq(Nat) /\ Len(flight') = n - 1 /\ DOMAIN flight' = 1 .. (n - 1)
      /\ \A i \in 1 .. (n - 1) : flight'[i] = IF i < k THEN flight[i] ELSE flight[i + 1]
    BY <1>1, <1>2, Removed DEF ClientType
<1>5. ClientType'
    BY <1>1, <1>2, <1>3, <1>4 DEF ClientType
<1>6. FlightPaid'
  <2> SUFFICES ASSUME NEW i \in 1 .. (n - 1)
               PROVE  interval * (n - 1 - i + 1) + Ready <= Burst + now - flight'[i]
    BY <1>2, <1>3, <1>4 DEF FlightPaid
  <2>1. CASE i < k
    <3> DEFINE m == interval * (n - i)
    <3>1. i \in DOMAIN flight /\ flight'[i] = flight[i] /\ n - i \in Nat
      BY <1>1, <1>3, <1>4, <2>1 DEF ClientType
    <3>2. interval * (n - i + 1) + Ready <= Burst + now - flight[i]
      BY <1>1, <3>1 DEF FlightPaid
    <3>3. flight[i] \in Nat
      BY <1>1, <3>1 DEF ClientType
    <3>4. interval * (n - i + 1) = m + interval /\ m \in Nat /\ n - 1 - i + 1 = n - i
      <4>1. \A a \in Nat : interval * (a + 1) = interval * a + interval /\ interval * a \in Nat
        BY <1>3
      <4>2. n - i \in Nat
        BY <3>1
      <4>3. interval * ((n - i) + 1) = interval * (n - i) + interval /\ interval * (n - i) \in Nat
        BY <4>1, <4>2, Zenon
      <4>4. n - 1 - i + 1 = n - i
        BY <1>3
      <4> QED
        BY <4>3, <4>4, Zenon
    <3> HIDE DEF m
    <3>5. m + Ready <= Burst + now - flight[i]
      BY <1>1, <1>3, <3>2, <3>4, <3>3
    <3> QED
      BY <3>1, <3>4, <3>5 DEF m
  <2>2. CASE ~ (i < k)
    <3>1. i + 1 \in DOMAIN flight
      BY <1>1, <1>3 DEF ClientType
    <3>2. flight'[i] = flight[i + 1]
      BY <1>4, <2>2
    <3>3. n - (i + 1) + 1 = n - 1 - i + 1
      BY <1>3
    <3>4. interval * (n - (i + 1) + 1) + Ready <= Burst + now - flight[i + 1]
      BY <1>1, <3>1 DEF FlightPaid
    <3> QED
      BY <3>4, <3>2, <3>3
  <2> QED
    BY <2>1, <2>2
<1>7. Fresh'
  <2> SUFFICES ASSUME NEW i \in 1 .. (n - 1)
               PROVE  flight'[i] <= now /\ now <= flight'[i] + MaxDelay
    BY <1>4 DEF Fresh
  <2>1. \E j \in DOMAIN flight : flight'[i] = flight[j]
    <3>1. i \in DOMAIN flight /\ i + 1 \in DOMAIN flight
      BY <1>1, <1>3 DEF ClientType
    <3> QED
      BY <1>4, <3>1
  <2> QED
    BY <1>1, <2>1 DEF Fresh
<1>8. Owed' \in Nat /\ Owed' + Unit = Owed
  <2> DEFINE m == n - 1
  <2>1. m \in Nat /\ n = m + 1
    BY <1>3
  <2>2. n * Unit = m * Unit + Unit
    BY <1>1, <2>1
  <2>3. m * Unit \in Nat /\ Gain * Ready \in Nat /\ Gain * Burst \in Nat
    BY <1>1, <1>3, <2>1, Products
  <2>4. Owed' = m * Unit + Gain * Ready + (IF warm = -1 THEN 0 ELSE Gain * Burst)
    BY <1>2, <1>3, <1>4 DEF Owed
  <2>5. Owed = n * Unit + Gain * Ready + (IF warm = -1 THEN 0 ELSE Gain * Burst)
    BY DEF Owed
  <2> HIDE DEF m, n
  <2> QED
    BY <1>1, <2>2, <2>3, <2>4, <2>5
<1> QED
    BY <1>5, <1>6, <1>7, <1>8

LEMMA LoseStep == ASSUME PathInv, NEW k \in DOMAIN flight, Lose(k) PROVE PathInv'
<1>1. Leave(k) /\ UNCHANGED <<now, server>> /\ tester' = tester /\ interval' = interval
    BY DEF Lose, Leave, limiter
<1>2. TypeOK' /\ TesterOK'
    BY ServerTyped, TesterStep DEF PathNext, PathInv
<1>3. /\ ClientType' /\ FlightPaid' /\ Fresh' /\ now' \in Nat
      /\ Owed' \in Nat /\ Owed' + Unit = Owed
    BY <1>1, LeaveStep DEF PathInv, TypeOK
<1>4. Available(tester)' = Available(tester)
    BY <1>1, ServerWaits DEF server
<1>5. ASSUME tester # 0, Sustainable PROVE Owed' <= Available(tester)'
  <2>1. Owed <= Available(tester)
    BY <1>5 DEF PathInv, Covers
  <2>2. Available(tester) \in Nat /\ Unit \in Nat
    BY <1>5, AvailableType, CapacityType, RateAssumption DEF PathInv, TesterOK
  <2> QED
    BY <1>3, <1>4, <2>1, <2>2
<1>6. Covers'
    BY <1>1, <1>3, <1>5, StillCovered
<1> QED
    BY <1>2, <1>3, <1>6 DEF PathInv

\* A datagram of the tester finds its token and takes it.
LEMMA ArriveStep == ASSUME PathInv, NEW k \in DOMAIN flight, Arrive(k) PROVE PathInv'
<1>1. /\ Leave(k) /\ tester' = tester /\ interval' = interval /\ now' = now
      /\ DropLimited(tester) \/ Echo(tester)
    BY DEF Arrive, Leave, limiter, Datagram, DropLimited, Echo
<1>2. TypeOK' /\ TesterOK'
    BY ServerTyped, TesterStep DEF PathNext, PathInv
<1>3. /\ ClientType' /\ FlightPaid' /\ Fresh' /\ now' \in Nat
      /\ Owed' \in Nat /\ Owed' + Unit = Owed
    BY <1>1, LeaveStep DEF PathInv, TypeOK
<1>4. ASSUME tester # 0, Sustainable PROVE Owed' <= Available(tester)'
  <2>1. Owed <= Available(tester) /\ tester \in Hosts
    BY <1>4 DEF PathInv, Covers, TesterOK
  <2>2. /\ Available(tester) \in 0 .. Capacity /\ Unit \in Nat /\ Capacity \in Nat
        /\ Capacity' = Capacity
    BY <2>1, AvailableType, CapacityType, RateAssumption DEF PathInv, Capacity
  <2>3. Available(tester) >= Unit
    BY <1>3, <2>1, <2>2
  <2>4. Store(tester, Available(tester) - Unit)
    BY <1>1, <2>2, <2>3 DEF Echo, DropLimited
  <2>5. /\ tester \in tracked' /\ tokens'[tester] = Available(tester) - Unit /\ last'[tester] = now
    BY <2>1, <2>4 DEF Store, PathInv, TypeOK
  <2>6. Idle(tester)' = 0 /\ 0 < TTL
    BY <1>1, <2>5, TableAssumption DEF Idle, PathInv, TypeOK
  <2>7. Level(tester)' = Available(tester) - Unit
    <3>1. 0 * Gain = 0
      BY RateAssumption
    <3> QED
      BY <1>1, <2>2, <2>3, <2>5, <2>6, <3>1 DEF Level
  <2>8. (TypeOK /\ tester \in Hosts)' => (Available(tester) =
            IF tester \in tracked /\ Idle(tester) < TTL THEN Level(tester) ELSE Capacity)'
    BY TesterAvailable, PTL
  <2>9. Available(tester)' = Available(tester) - Unit
    BY <1>1, <1>2, <2>1, <2>5, <2>6, <2>7, <2>8
  <2> QED
    BY <1>3, <2>1, <2>2, <2>9
<1>5. Covers'
    BY <1>1, <1>3, <1>4, StillCovered
<1> QED
    BY <1>2, <1>3, <1>5 DEF PathInv

\* A datagram of another source takes nothing from the tester's bucket, and one
\* that evicts the tester's entry fills it.
LEMMA OthersStep == PathInv /\ Others => PathInv'
<1> SUFFICES ASSUME PathInv, Others PROVE PathInv'
    OBVIOUS
<1>1. /\ UNCHANGED <<tester, interval, budget, refilled, warm, flight>> /\ now' = now
      /\ tester # 0 => \E h \in Hosts \ {tester} : DropLimited(h) \/ Echo(h)
    BY DEF Others, client, limiter, Datagram, DropLimited, Echo, DropInvalid, Signal, Close, Terminated,
           vars
<1>2. TypeOK' /\ TesterOK'
    BY ServerTyped, TesterStep DEF PathNext, PathInv
<1>3. /\ ClientType' /\ FlightPaid' /\ Fresh' /\ now' \in Nat /\ Owed' = Owed
    BY <1>1 DEF PathInv, ClientType, FlightPaid, Fresh, Owed, Ready, Burst, Bucket!Refilled,
                Bucket!Capacity, TypeOK
<1>4. ASSUME tester # 0, Sustainable
      PROVE  Available(tester)' = Capacity \/ Owed' <= Available(tester)'
  <2>1. Owed <= Available(tester) /\ tester \in Hosts
    BY <1>4 DEF PathInv, Covers, TesterOK
  <2>2. PICK h \in Hosts \ {tester} : DropLimited(h) \/ Echo(h)
    BY <1>1, <1>4
  <2>3. \E m : Store(h, m)
    BY <2>2 DEF DropLimited, Echo
  <2>4. /\ last'[tester] = last[tester] /\ tokens'[tester] = tokens[tester]
        /\ tester \in tracked' => tester \in tracked
    BY <2>1, <2>2, <2>3, KeptTracked DEF Store, PathInv, TypeOK
  <2>5. Idle(tester)' = Idle(tester) /\ Level(tester)' = Level(tester) /\ Capacity' = Capacity
    BY <1>1, <2>4 DEF Idle, Level, Capacity
  <2>6. (TypeOK /\ tester \in Hosts)' => (Available(tester) =
            IF tester \in tracked /\ Idle(tester) < TTL THEN Level(tester) ELSE Capacity)'
    BY TesterAvailable, PTL
  <2>7. Available(tester) =
            IF tester \in tracked /\ Idle(tester) < TTL THEN Level(tester) ELSE Capacity
    BY <2>1, TesterAvailable DEF PathInv
  <2> QED
    BY <1>1, <1>2, <1>3, <2>1, <2>4, <2>5, <2>6, <2>7
<1>5. Covers'
    BY <1>1, <1>3, <1>4, StillCovered
<1> QED
    BY <1>2, <1>3, <1>5 DEF PathInv

LEMMA PathStart == PathInit => PathInv
<1> SUFFICES ASSUME PathInit PROVE PathInv
    OBVIOUS
<1>1. /\ now = 0 /\ budget = 0 /\ refilled = 0 /\ flight = <<>> /\ tracked = {}
      /\ interval \in Intervals /\ tester \in Testers
    BY DEF PathInit, Init, Bucket!BucketInit, Bucket!Created
<1>2. TypeOK
    BY CapacityType DEF PathInit, Init, TypeOK
<1>3. TesterOK
    BY <1>1, TestersAssumption DEF TesterOK
<1>4. interval \in Nat \ {0}
    BY <1>1, PacingAssumption
<1>5. ClientType /\ FlightPaid /\ Fresh
    BY <1>1, <1>4, BurstType, PathBoundsAssumption DEF ClientType, FlightPaid, Fresh, PathInit
<1>6. Covers
  <2> SUFFICES ASSUME tester # 0, Sustainable PROVE Owed <= Available(tester)
    BY DEF Covers
  <2>1. Available(tester) = Capacity
    BY <1>1, <1>2, <1>3, TesterAvailable DEF TesterOK
  <2> QED
    BY <1>1, <1>5, <2>1, FullCovers
<1> QED
    BY <1>2, <1>3, <1>5, <1>6 DEF PathInv

LEMMA PathStep == PathInv /\ [PathNext]_AllVars => PathInv'
<1> SUFFICES ASSUME PathInv, [PathNext]_AllVars PROVE PathInv'
    OBVIOUS
<1>1. CASE Over \/ UNCHANGED AllVars
  <2>1. UNCHANGED AllVars
    BY <1>1 DEF Over, AllVars
  <2>2. UNCHANGED <<now, table, tester>>
    BY <2>1 DEF AllVars, vars, table, client, limiter
  <2>3. Available(tester)' = Available(tester)
    BY <2>2, ServerWaits
  <2>4. TypeOK' /\ TesterOK'
    BY ServerTyped, TesterStep DEF PathInv
  <2>5. ClientType' /\ FlightPaid' /\ Fresh' /\ (Owed' <= Available(tester)' <=> Owed <= Available(tester))
        /\ tester' = tester /\ Sustainable' = Sustainable
    BY <2>1, <2>3 DEF PathInv, AllVars, vars, client, limiter, ClientType, FlightPaid, Fresh, Owed, Ready,
                Burst, Bucket!Refilled, Bucket!Capacity, Sustainable, Capacity
  <2> QED
    BY <2>4, <2>5 DEF PathInv, Covers
<1> QED
    BY <1>1, SendStep, EndWarmupStep, AdvanceStep, OthersStep, ArriveStep, LoseStep DEF PathNext

(* A test whose rate is not above the server's, against a burst with room for
   the bursts of its two limiters and the packets the network bunches, loses
   nothing to the server's limiter: for any delays, losses, orders, other
   sources, expiries and evictions. *)
THEOREM PacedIsServed == PathSpec => []PacedNeverRefused
<1>1. PathInv => PacedNeverRefused
  <2> SUFFICES ASSUME PathInv, Sustainable, flight # <<>> PROVE Available(tester) >= Unit
    BY DEF PacedNeverRefused
  <2>1. TypeOK /\ TesterOK /\ ClientType /\ FlightPaid /\ Fresh /\ Covers /\ now \in Nat
    BY DEF PathInv, TypeOK
  <2>2. tester # 0 /\ tester \in Hosts
    BY <2>1 DEF TesterOK
  <2>3. Owed <= Available(tester) /\ Available(tester) \in Nat
    BY <2>1, <2>2, AvailableType, CapacityType DEF Covers
  <2> DEFINE n == Len(flight)
  <2>4. n \in Nat /\ n # 0 /\ Ready \in Nat /\ Burst \in Nat /\ Unit \in Nat /\ Gain \in Nat
    BY <2>1, ReadyBounds, BurstType, RateAssumption DEF ClientType
  <2>5. /\ (n - 1) * Unit \in Nat /\ n * Unit = (n - 1) * Unit + Unit
        /\ Gain * Ready \in Nat /\ Gain * Burst \in Nat
    <3>1. n - 1 \in Nat
      BY <2>4
    <3> HIDE DEF n
    <3> QED
      BY <2>4, <3>1, Products
  <2>6. Owed = n * Unit + Gain * Ready + (IF warm = -1 THEN 0 ELSE Gain * Burst)
    BY DEF Owed
  <2> HIDE DEF n
  <2> QED
    BY <2>3, <2>4, <2>5, <2>6
<1> QED
    BY <1>1, PathStart, PathStep, PTL DEF PathSpec, AllVars
=============================================================================
