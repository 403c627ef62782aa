--------------------------- MODULE EchoServerProofs ---------------------------
(***************************************************************************)
(* Theorems about EchoServer, for every set of hosts, table size, TTL,     *)
(* cleanup interval and rate.                                              *)
(***************************************************************************)
EXTENDS EchoServer, FiniteSetTheorems, TLAPS

USE HostsAssumption, TableAssumption, RateAssumption, BoundAssumption

(* An order that every nonempty finite set of hosts has a least element of. *)
Before(g, v) == last[g] < last[v] \/ (last[g] = last[v] /\ g <= v)

LEMMA CapacityType == Capacity \in Nat /\ Capacity >= Unit /\ Capacity > 0
<1>1. Gain * TicksPerSecond \in Nat
  OBVIOUS
<1> QED BY <1>1 DEF Capacity

LEMMA TrackedFinite ==
    ASSUME NEW T \in SUBSET Hosts
    PROVE  IsFiniteSet(T) /\ Cardinality(T) \in Nat
BY FS_Subset, FS_CardinalityType

(* Proper subsets of a finite set are well founded, so among the sets of
   hosts seen before each host of T one is minimal, and belongs to the least. *)
LEMMA VictimIsLeast ==
    ASSUME last \in [Hosts -> Nat], NEW T \in SUBSET Hosts, T # {}
    PROVE  Victim(T) \in T /\ \A g \in T : Before(Victim(T), g)
<1> DEFINE Down(v) == {g \in T : Before(g, v)}
           Downs == {Down(v) : v \in T}
<1>1. IsWellFoundedOn(StrictSubsetOrdering(Hosts), SUBSET Hosts)
  BY FS_StrictSubsetOrderingWellFounded, FS_FiniteSubsetsOfFinite
<1>2. Downs \subseteq SUBSET Hosts /\ Downs # {}
  OBVIOUS
<1> HIDE DEF Downs
<1>3. PICK D \in Downs : \A E \in Downs : <<E, D>> \notin StrictSubsetOrdering(Hosts)
  BY <1>1, <1>2, WFMin
<1>4. PICK v \in T : D = Down(v)
  BY DEF Downs
<1>5. \A g \in T : Before(v, g)
  <2> SUFFICES ASSUME NEW g \in T, ~ Before(v, g) PROVE FALSE
    OBVIOUS
  <2>1. last[g] \in Nat /\ last[v] \in Nat /\ g \in Nat /\ v \in Nat
    OBVIOUS
  <2>2. Before(g, v)
    BY <2>1 DEF Before
  <2>3. Down(g) \subseteq Down(v)
    <3> SUFFICES ASSUME NEW x \in T, Before(x, g) PROVE Before(x, v)
      OBVIOUS
    <3>1. last[x] \in Nat /\ x \in Nat
      OBVIOUS
    <3> QED BY <2>1, <2>2, <3>1 DEF Before
  <2>4. v \in Down(v) /\ v \notin Down(g)
    BY <2>1 DEF Before
  <2>5. <<Down(g), Down(v)>> \in StrictSubsetOrdering(Hosts)
    BY <2>3, <2>4 DEF StrictSubsetOrdering
  <2>6. Down(g) \in Downs
    BY DEF Downs
  <2> QED BY <1>3, <1>4, <2>5, <2>6
<1> HIDE DEF Down
<1> QED BY <1>5 DEF Victim, Before

-----------------------------------------------------------------------------
(* Type correctness *)

(* A tick keeps an entry's idle time natural, and the level in the bucket. *)
LEMMA AvailableType ==
    ASSUME TypeOK, NEW h \in Hosts
    PROVE  /\ Idle(h) \in Nat
           /\ Level(h) \in 0 .. Capacity
           /\ Available(h) \in 0 .. Capacity
<1>1. now \in Nat /\ last[h] \in Nat /\ last[h] <= now /\ tokens[h] \in Nat
  BY CapacityType DEF TypeOK
<1>2. Idle(h) \in Nat
  BY <1>1 DEF Idle
<1>3. Idle(h) * Gain \in Nat
  BY <1>2
<1>4. Level(h) \in 0 .. Capacity
  BY <1>1, <1>3, CapacityType DEF Level
<1> QED BY <1>2, <1>4, CapacityType DEF Available

LEMMA KeptTracked == \A h : Kept(h) \subseteq Unexpired(h) /\ Unexpired(h) \subseteq tracked
BY DEF Kept, Unexpired, Cleaned

LEMMA StoreType ==
    ASSUME TypeOK, NEW h \in Hosts, NEW n \in 0 .. Capacity, Store(h, n)
    PROVE  /\ lastCleanup' \in 0 .. now
           /\ tracked' \in SUBSET Hosts
           /\ tokens' \in [Hosts -> 0 .. Capacity]
           /\ last' \in [Hosts -> 0 .. now]
<1>1. tracked' \in SUBSET Hosts
  BY KeptTracked DEF TypeOK, Store
<1>2. tokens' \in [Hosts -> 0 .. Capacity] /\ last' \in [Hosts -> 0 .. now]
  BY DEF TypeOK, Store
<1> QED BY <1>1, <1>2 DEF TypeOK, Store

LEMMA RecordType ==
    ASSUME TypeOK, NEW h \in Hosts, NEW n \in Nat, Record(h, n)
    PROVE  admitted' \in [Hosts -> Nat] /\ since' \in [Hosts -> 0 .. now]
BY DEF TypeOK, Record

LEMMA Typing == TypeOK /\ [Next]_vars => TypeOK'
<1> SUFFICES ASSUME TypeOK, [Next]_vars PROVE TypeOK'
  OBVIOUS
<1>0. Capacity \in Nat /\ Capacity' = Capacity
  BY CapacityType DEF Capacity
<1>1. ASSUME NEW h \in Hosts, DropLimited(h) PROVE TypeOK'
  <2>1. Available(h) \in 0 .. Capacity
    BY AvailableType
  <2>2. UNCHANGED <<now, packets, serving>> /\ dropped' = dropped + 1
    BY <1>1 DEF DropLimited
  <2>3. /\ lastCleanup' \in 0 .. now /\ tracked' \in SUBSET Hosts
        /\ tokens' \in [Hosts -> 0 .. Capacity] /\ last' \in [Hosts -> 0 .. now]
    BY <1>1, <2>1, StoreType DEF DropLimited
  <2>4. admitted' \in [Hosts -> Nat] /\ since' \in [Hosts -> 0 .. now]
    BY <1>1, RecordType DEF DropLimited
  <2> QED BY <1>0, <2>2, <2>3, <2>4 DEF TypeOK
<1>2. ASSUME NEW h \in Hosts, Echo(h) PROVE TypeOK'
  <2>1. Available(h) - Unit \in 0 .. Capacity
    BY <1>0, <1>2, AvailableType DEF Echo
  <2>2. UNCHANGED <<now, dropped, serving>> /\ packets' = packets + 1
    BY <1>2 DEF Echo
  <2>3. /\ lastCleanup' \in 0 .. now /\ tracked' \in SUBSET Hosts
        /\ tokens' \in [Hosts -> 0 .. Capacity] /\ last' \in [Hosts -> 0 .. now]
    BY <1>2, <2>1, StoreType DEF Echo
  <2>4. admitted' \in [Hosts -> Nat] /\ since' \in [Hosts -> 0 .. now]
    BY <1>2, RecordType DEF Echo
  <2> QED BY <1>0, <2>2, <2>3, <2>4 DEF TypeOK
<1>3. ASSUME DropInvalid \/ Signal \/ Close \/ UNCHANGED vars PROVE TypeOK'
  <2>1. UNCHANGED <<now, tracked, tokens, last, lastCleanup, admitted, since>>
    BY <1>3 DEF DropInvalid, Signal, Close, vars, table, history
  <2>2. packets' \in Nat /\ dropped' \in Nat /\ serving' \in {"serving", "stopping", "closed"}
    BY <1>3 DEF TypeOK, DropInvalid, Signal, Close, vars
  <2> QED BY <1>0, <2>1, <2>2 DEF TypeOK
<1>4. ASSUME Tick PROVE TypeOK'
  <2>1. 0 .. now \subseteq 0 .. now'
    BY <1>4 DEF Tick, TypeOK
  <2>2. last' \in [Hosts -> 0 .. now'] /\ since' \in [Hosts -> 0 .. now'] /\ lastCleanup' \in 0 .. now'
    BY <1>4, <2>1 DEF Tick, TypeOK, table, history
  <2> QED BY <1>0, <1>4, <2>2 DEF Tick, TypeOK, table, history
<1> QED BY <1>1, <1>2, <1>3, <1>4 DEF Next, Datagram, Terminated

(* Every variable keeps its type: no bucket is ever overfull or overdrawn, no
   entry or cleanup is dated in the future. *)
THEOREM TypeCorrect == Spec => []TypeOK
<1>1. Init => TypeOK
  BY CapacityType DEF Init, TypeOK
<1> QED BY <1>1, Typing, PTL DEF Spec

-----------------------------------------------------------------------------
(* The table *)

(* The entries a datagram leaves: a new source takes a free place or that of
   the victim. *)
LEMMA StoreBounded ==
    ASSUME TypeOK, TableBounded, NEW h \in Hosts, NEW n, Store(h, n)
    PROVE  TableBounded'
<1> DEFINE U == Unexpired(h)
<1>0. U \in SUBSET tracked /\ tracked \in SUBSET Hosts
  BY KeptTracked DEF TypeOK
<1>1. /\ IsFiniteSet(U) /\ Cardinality(U) \in Nat
      /\ Cardinality(U) <= Cardinality(tracked) /\ Cardinality(tracked) \in Nat
  BY <1>0, TrackedFinite, FS_Subset
<1>2. Cardinality(U) <= MaxTracked
  BY <1>1 DEF TableBounded
<1>3. CASE h \in U
  <2>1. tracked' = U
    BY <1>3 DEF Store, Kept, Evicts
  <2> QED BY <1>2, <2>1 DEF TableBounded
<1>4. CASE h \notin U /\ Cardinality(U) < MaxTracked
  <2>1. tracked' = U \union {h}
    BY <1>1, <1>4 DEF Store, Kept, Evicts
  <2>2. Cardinality(U \union {h}) = Cardinality(U) + 1
    BY <1>1, <1>4, FS_AddElement
  <2> QED BY <1>1, <1>4, <2>1, <2>2 DEF TableBounded
<1>5. CASE h \notin U /\ Cardinality(U) >= MaxTracked
  <2> DEFINE v == Victim(U)
  <2>1. U # {}
    BY <1>5, FS_EmptySet
  <2>2. v \in U
    BY <1>0, <2>1, VictimIsLeast DEF TypeOK
  <2>3. tracked' = (U \ {v}) \union {h}
    BY <1>5 DEF Store, Kept, Evicts
  <2>4. IsFiniteSet(U \ {v}) /\ Cardinality(U \ {v}) = Cardinality(U) - 1
    BY <1>1, <2>2, FS_RemoveElement
  <2>5. Cardinality((U \ {v}) \union {h}) = Cardinality(U \ {v}) + 1
    <3> HIDE DEF v, U
    <3>1. h \notin U \ {v}
      BY <1>5
    <3> QED BY <2>4, <3>1, FS_AddElement
  <2>6. Cardinality((U \ {v}) \union {h}) = Cardinality(U)
    BY <1>1, <2>4, <2>5
  <2> QED BY <1>2, <2>3, <2>6 DEF TableBounded
<1> QED BY <1>1, <1>3, <1>4, <1>5

(* The table never holds more than max_tracked_clients entries. *)
THEOREM TableStaysBounded == Spec => []TableBounded
<1>1. Init => TableBounded
  BY FS_EmptySet DEF Init, TableBounded
<1>2. TypeOK /\ TableBounded /\ [Next]_vars => TableBounded'
  <2> SUFFICES ASSUME TypeOK, TableBounded, [Next]_vars PROVE TableBounded'
    OBVIOUS
  <2>1. ASSUME NEW h \in Hosts, DropLimited(h) \/ Echo(h) PROVE TableBounded'
    BY <2>1, StoreBounded DEF DropLimited, Echo
  <2>2. CASE UNCHANGED tracked
    BY <2>2 DEF TableBounded
  <2> QED
    BY <2>1, <2>2 DEF Next, Datagram, DropInvalid, Signal, Close, Tick, Terminated, vars, table
<1> QED BY <1>1, <1>2, TypeCorrect, PTL DEF Spec

(* A live entry leaves the table only as the victim of a datagram that finds
   the table full of entries that have not been expired. *)
LEMMA LiveLossIsEviction ==
    ASSUME TypeOK, TableBounded, NEW h \in Hosts, NEW n, Store(h, n),
           NEW v \in tracked \ tracked', Idle(v) < TTL
    PROVE  /\ Evicts(h) /\ v = Victim(tracked)
           /\ Unexpired(h) = tracked /\ tracked' = (tracked \ {v}) \union {h}
           /\ Cardinality(tracked) = MaxTracked
<1> DEFINE U == Unexpired(h)
<1>1. U \in SUBSET tracked /\ tracked \in SUBSET Hosts
  BY KeptTracked DEF TypeOK
<1>2. v \in U /\ v # h
  BY DEF Unexpired, Cleaned, Store
<1>3. Evicts(h) /\ v = Victim(U)
  BY <1>2 DEF Store, Kept
<1>4. /\ IsFiniteSet(tracked) /\ Cardinality(tracked) \in Nat
      /\ Cardinality(U) \in Nat /\ Cardinality(U) <= Cardinality(tracked)
      /\ Cardinality(tracked) = Cardinality(U) => tracked = U
  BY <1>1, TrackedFinite, FS_Subset
<1>5. Cardinality(tracked) = Cardinality(U) /\ Cardinality(tracked) = MaxTracked
  BY <1>3, <1>4 DEF Evicts, TableBounded
<1>6. tracked = U
  BY <1>4, <1>5
<1> QED BY <1>3, <1>5, <1>6 DEF Store, Kept

LEMMA EvictionStep ==
    ASSUME TypeOK, TableBounded, NEW h \in Hosts, NEW n, Store(h, n),
           NEW v \in tracked \ tracked', Idle(v) < TTL
    PROVE  /\ Cardinality(tracked') = MaxTracked
           /\ tracked \ tracked' = {v}
           /\ \A g \in tracked' :
                 g \notin tracked \/ (last[v] <= last[g] /\ Idle(g) < TTL)
<1>1. /\ Evicts(h) /\ v = Victim(tracked)
      /\ Unexpired(h) = tracked /\ tracked' = (tracked \ {v}) \union {h}
      /\ Cardinality(tracked) = MaxTracked
  BY LiveLossIsEviction
<1>2. h \notin tracked /\ v \in tracked /\ tracked \in SUBSET Hosts
  BY <1>1 DEF Evicts, TypeOK
<1>3. Cardinality(tracked') = MaxTracked
  <2>1. IsFiniteSet(tracked \ {v}) /\ Cardinality(tracked \ {v}) = MaxTracked - 1
    BY <1>1, <1>2, TrackedFinite, FS_RemoveElement
  <2>2. h \notin tracked \ {v}
    BY <1>2
  <2>3. Cardinality((tracked \ {v}) \union {h}) = Cardinality(tracked \ {v}) + 1
    BY <2>1, <2>2, FS_AddElement
  <2> QED BY <1>1, <2>1, <2>3
<1>4. \A g \in tracked : last[v] <= last[g] /\ Idle(g) < TTL
  <2>1. \A g \in tracked : Before(v, g)
    BY <1>1, <1>2, VictimIsLeast DEF TypeOK
  <2> TAKE g \in tracked
  <2>2. now \in Nat /\ last[g] \in Nat /\ last[v] \in Nat
    BY <1>2 DEF TypeOK
  <2> QED BY <2>1, <2>2 DEF Before, Idle
<1> QED BY <1>1, <1>2, <1>3, <1>4

(* A bucket that has not expired is given up only for a new source, in a full
   table without an expired entry, and it is the one unused for longest. *)
THEOREM EvictionIsLastResort == Spec => EvictsOnlyLeastRecent
<1> DEFINE Good ==
      \A v \in tracked \ tracked' : Idle(v) < TTL =>
          /\ Cardinality(tracked') = MaxTracked
          /\ tracked \ tracked' = {v}
          /\ \A g \in tracked' : g \notin tracked \/ (last[v] <= last[g] /\ Idle(g) < TTL)
<1>1. TypeOK /\ TableBounded /\ [Next]_vars => [Good]_vars
  <2> SUFFICES ASSUME TypeOK, TableBounded, [Next]_vars PROVE Good
    OBVIOUS
  <2>1. ASSUME NEW h \in Hosts, DropLimited(h) \/ Echo(h) PROVE Good
    BY <2>1, EvictionStep DEF DropLimited, Echo
  <2>2. CASE UNCHANGED tracked
    BY <2>2
  <2> QED
    BY <2>1, <2>2 DEF Next, Datagram, DropInvalid, Signal, Close, Tick, Terminated, vars, table
<1>2. TypeOK /\ TableBounded /\ [Next]_vars =>
        [\A v \in tracked \ tracked' : Idle(v) < TTL =>
            /\ Cardinality(tracked') = MaxTracked
            /\ tracked \ tracked' = {v}
            /\ \A g \in tracked' : g \notin tracked \/ (last[v] <= last[g] /\ Idle(g) < TTL)]_vars
  BY <1>1
<1> QED BY <1>2, TypeCorrect, TableStaysBounded, PTL DEF Spec, EvictsOnlyLeastRecent

(* What a cleanup leaves had not been idle for TTL, and entries only get
   younger until the next one. *)
CleanedInv == \A g \in tracked : lastCleanup - last[g] < TTL

LEMMA CleanedStep ==
    ASSUME TypeOK, CleanedInv, NEW h \in Hosts, NEW n, Store(h, n)
    PROVE  /\ CleanedInv'
           /\ \A g \in tracked' : now - last'[g] < TTL + CleanupInterval
<1>0. now \in Nat /\ lastCleanup \in Nat /\ lastCleanup <= now /\ \A g \in Hosts : last[g] \in Nat /\ last[g] <= now
  BY DEF TypeOK
<1> SUFFICES ASSUME NEW g \in tracked'
             PROVE  lastCleanup' - last'[g] < TTL /\ now - last'[g] < TTL + CleanupInterval
  BY DEF CleanedInv
<1>1. last' = [last EXCEPT ![h] = now] /\ lastCleanup' = IF CleanupDue THEN now ELSE lastCleanup
  BY DEF Store
<1>2. g = h \/ (g \in tracked /\ g # h /\ g \in Cleaned)
  BY KeptTracked DEF Store, Unexpired, Kept, Cleaned
<1>3. g \in Hosts
  BY <1>2 DEF TypeOK
<1>4. CASE g = h
  <2>1. last'[g] = now
    BY <1>1, <1>4 DEF TypeOK
  <2> QED BY <1>0, <1>1, <2>1
<1>5. CASE g # h
  <2>1. last'[g] = last[g] /\ g \in tracked /\ g \in Cleaned
    BY <1>1, <1>2, <1>3, <1>5 DEF TypeOK
  <2>2. CASE CleanupDue
    BY <1>0, <1>1, <1>3, <2>1, <2>2 DEF Cleaned, Idle
  <2>3. CASE ~ CleanupDue
    BY <1>0, <1>1, <1>3, <2>1, <2>3 DEF CleanedInv, CleanupDue
  <2> QED BY <2>2, <2>3
<1> QED BY <1>4, <1>5

(* No datagram leaves an entry behind that has been idle for TTL plus one
   cleanup interval. *)
THEOREM IdleEntriesGo == Spec => IdleForgotten
<1>1. Init => CleanedInv
  BY DEF Init, CleanedInv
<1>2. TypeOK /\ CleanedInv /\ [Next]_vars => CleanedInv'
  <2> SUFFICES ASSUME TypeOK, CleanedInv, [Next]_vars PROVE CleanedInv'
    OBVIOUS
  <2>1. ASSUME NEW h \in Hosts, DropLimited(h) \/ Echo(h) PROVE CleanedInv'
    BY <2>1, CleanedStep DEF DropLimited, Echo
  <2>2. CASE UNCHANGED <<tracked, last, lastCleanup>>
    BY <2>2 DEF CleanedInv
  <2> QED
    BY <2>1, <2>2 DEF Next, Datagram, DropInvalid, Signal, Close, Tick, Terminated, vars, table
<1>3. TypeOK /\ CleanedInv /\ [Next]_vars =>
        [\A g \in tracked' : lastCleanup' # lastCleanup \/ last' # last =>
            now - last'[g] < TTL + CleanupInterval]_vars
  <2> SUFFICES ASSUME TypeOK, CleanedInv, [Next]_vars,
                      NEW g \in tracked', lastCleanup' # lastCleanup \/ last' # last
               PROVE  now - last'[g] < TTL + CleanupInterval
    OBVIOUS
  <2>1. ASSUME NEW h \in Hosts, DropLimited(h) \/ Echo(h)
        PROVE  now - last'[g] < TTL + CleanupInterval
    BY <2>1, CleanedStep DEF DropLimited, Echo
  <2> QED
    BY <2>1 DEF Next, Datagram, DropInvalid, Signal, Close, Tick, Terminated, vars, table
<1> QED BY <1>1, <1>2, <1>3, TypeCorrect, PTL DEF Spec, IdleForgotten

-----------------------------------------------------------------------------
(* The rate *)

LEMMA GainAdds ==
    \A a, b \in Nat : (a + b) * Gain = a * Gain + b * Gain /\ a * Gain \in Nat
OBVIOUS

LEMMA GainGrows == \A a, b \in Nat : a <= b => a * Gain <= b * Gain
<1> SUFFICES ASSUME NEW a \in Nat, NEW b \in Nat, a <= b PROVE a * Gain <= b * Gain
  OBVIOUS
<1>1. PICK c \in Nat : b = a + c
  <2>1. b - a \in Nat /\ b = a + (b - a)
    OBVIOUS
  <2> QED BY <2>1
<1> QED BY <1>1, GainAdds

(* A bucket idle for TTL is full: forgetting it changes nothing. *)
LEMMA IdleIsFull ==
    ASSUME TypeOK, RefillsWithinTTL, NEW h \in Hosts, Idle(h) >= TTL
    PROVE  Idle(h) * Gain >= Capacity /\ Level(h) = Capacity
<1>1. Idle(h) \in Nat /\ tokens[h] \in Nat /\ Capacity \in Nat
  BY AvailableType, CapacityType DEF TypeOK
<1>2. TTL * Gain <= Idle(h) * Gain
  BY <1>1, GainGrows
<1>3. TTL * Gain \in Nat /\ Idle(h) * Gain \in Nat
  BY <1>1, GainAdds
<1> QED BY <1>1, <1>2, <1>3 DEF RefillsWithinTTL, Level

(* What was echoed and what is left in the bucket never exceed the burst plus
   the gain up to the last datagram; and a source without an entry that was
   not evicted has been idle for TTL. *)
HeldInv(h) ==
    admitted[h] > 0 =>
        /\ since[h] <= last[h]
        /\ admitted[h] * Unit + tokens[h] <= Capacity + (last[h] - since[h]) * Gain
        /\ h \notin tracked => Idle(h) >= TTL

LEMMA AvailableIsEarned ==
    ASSUME TypeOK, RefillsWithinTTL, NEW h \in Hosts, HeldInv(h), admitted[h] > 0
    PROVE  Available(h) <= tokens[h] + Idle(h) * Gain
<1>1. Idle(h) \in Nat /\ tokens[h] \in Nat /\ Capacity \in Nat /\ Idle(h) * Gain \in Nat
  BY AvailableType, CapacityType, GainAdds DEF TypeOK
<1>2. CASE h \in Unexpired(h)
  BY <1>1, <1>2 DEF Available, Level
<1>3. CASE h \notin Unexpired(h)
  <2>1. Idle(h) >= TTL
    BY <1>1, <1>3 DEF HeldInv, Unexpired, Cleaned
  <2> QED BY <1>1, <1>3, <2>1, IdleIsFull DEF Available
<1> QED BY <1>2, <1>3

(* The sender's own account. *)
LEMMA SenderHeld ==
    ASSUME TypeOK, RefillsWithinTTL, NEW h \in Hosts, HeldInv(h),
           NEW k \in {0, 1}, k * Unit <= Available(h),
           Store(h, Available(h) - k * Unit), Record(h, k), now' = now
    PROVE  HeldInv(h)'
<1>0. /\ now \in Nat /\ last[h] \in Nat /\ last[h] <= now /\ since[h] \in Nat /\ since[h] <= now
      /\ tokens[h] \in Nat /\ admitted[h] \in Nat /\ Available(h) \in 0 .. Capacity
      /\ Capacity \in Nat /\ Capacity' = Capacity
  BY AvailableType, CapacityType DEF TypeOK, Capacity
<1>1. /\ h \in tracked' /\ last'[h] = now
      /\ tokens'[h] = Available(h) - k * Unit
      /\ admitted'[h] = admitted[h] + k
      /\ since'[h] = IF admitted[h] = 0 THEN now ELSE since[h]
  BY DEF TypeOK, Store, Record
<1>2. admitted'[h] * Unit = admitted[h] * Unit + k * Unit /\ k * Unit \in Nat /\ admitted[h] * Unit \in Nat
  BY <1>0, <1>1
<1>3. CASE admitted[h] = 0
  <2>1. admitted'[h] * Unit + tokens'[h] <= Capacity
    BY <1>0, <1>1, <1>2, <1>3
  <2>2. since'[h] = now /\ (last'[h] - since'[h]) * Gain = 0
    BY <1>0, <1>1, <1>3
  <2> QED BY <1>0, <1>1, <2>1, <2>2 DEF HeldInv
<1>4. CASE admitted[h] > 0
  <2>1. Available(h) <= tokens[h] + Idle(h) * Gain
    BY <1>4, AvailableIsEarned
  <2>2. since[h] <= last[h] /\ admitted[h] * Unit + tokens[h] <= Capacity + (last[h] - since[h]) * Gain
    BY <1>4 DEF HeldInv
  <2>3. (last[h] - since[h]) * Gain + Idle(h) * Gain = (now - since[h]) * Gain
    <3>1. last[h] - since[h] \in Nat /\ Idle(h) \in Nat /\ now - since[h] = (last[h] - since[h]) + Idle(h)
      BY <1>0, <2>2 DEF Idle
    <3> QED BY <3>1, GainAdds
  <2>4. /\ (last[h] - since[h]) * Gain \in Nat /\ Idle(h) * Gain \in Nat
        /\ (now - since[h]) * Gain \in Nat
    <3>1. last[h] - since[h] \in Nat /\ Idle(h) \in Nat /\ now - since[h] \in Nat
      BY <1>0, <2>2 DEF Idle
    <3> QED BY <3>1, GainAdds
  <2>5. admitted'[h] * Unit + tokens'[h] <= Capacity + (now - since[h]) * Gain
    BY <1>0, <1>1, <1>2, <2>1, <2>2, <2>3, <2>4
  <2>6. since'[h] = since[h]
    BY <1>1, <1>4
  <2> QED BY <1>0, <1>1, <2>5, <2>6 DEF HeldInv
<1> QED BY <1>0, <1>3, <1>4

(* The accounts of the others: one that loses its entry has been idle for TTL,
   or was evicted and starts afresh. *)
LEMMA OthersHeld ==
    ASSUME TypeOK, NEW h \in Hosts, NEW g \in Hosts, g # h, HeldInv(g),
           NEW n, NEW k \in Nat, Store(h, n), Record(h, k), now' = now
    PROVE  HeldInv(g)'
<1>1. last'[g] = last[g] /\ tokens'[g] = tokens[g] /\ since'[g] = since[g]
  BY DEF TypeOK, Store, Record
<1>2. Capacity' = Capacity /\ Idle(g)' = Idle(g)
  BY <1>1 DEF Capacity, Idle
<1>3. admitted'[g] = IF g \in Unexpired(h) \ Kept(h) THEN 0 ELSE admitted[g]
  BY DEF TypeOK, Record
<1>4. CASE g \in Unexpired(h) \ Kept(h)
  BY <1>3, <1>4 DEF HeldInv
<1>5. CASE g \notin Unexpired(h) \ Kept(h)
  <2>1. ASSUME g \notin tracked', admitted[g] > 0 PROVE Idle(g) >= TTL
    <3>1. g \notin Unexpired(h)
      BY <1>5, <2>1 DEF Store
    <3>2. Idle(g) \in Nat
      BY AvailableType
    <3> QED BY <2>1, <3>1, <3>2 DEF HeldInv, Unexpired, Cleaned
  <2> QED BY <1>1, <1>2, <1>3, <1>5, <2>1 DEF HeldInv
<1> QED BY <1>4, <1>5

LEMMA HeldStep ==
    RefillsWithinTTL /\ TypeOK /\ (\A h \in Hosts : HeldInv(h)) /\ [Next]_vars
        => (\A h \in Hosts : HeldInv(h))'
<1> SUFFICES ASSUME RefillsWithinTTL, TypeOK, \A h \in Hosts : HeldInv(h), [Next]_vars,
                    NEW g \in Hosts
             PROVE  HeldInv(g)'
  OBVIOUS
<1>1. ASSUME NEW h \in Hosts, DropLimited(h) PROVE HeldInv(g)'
  <2>1. /\ now' = now /\ Record(h, 0) /\ Store(h, Available(h) - 0 * Unit)
        /\ 0 * Unit <= Available(h)
    <3>1. Available(h) \in Nat /\ Available(h) - 0 * Unit = Available(h) /\ 0 * Unit <= Available(h)
      BY AvailableType
    <3> QED BY <1>1, <3>1 DEF DropLimited
  <2> QED BY <2>1, SenderHeld, OthersHeld
<1>2. ASSUME NEW h \in Hosts, Echo(h) PROVE HeldInv(g)'
  <2>1. /\ now' = now /\ Record(h, 1) /\ Store(h, Available(h) - 1 * Unit)
        /\ 1 * Unit <= Available(h)
    BY <1>2, AvailableType DEF Echo
  <2> QED BY <2>1, SenderHeld, OthersHeld
<1>3. CASE UNCHANGED <<now, table, history>>
  <2>1. UNCHANGED <<now, tracked, tokens[g], last[g], admitted[g], since[g]>>
    BY <1>3 DEF table, history
  <2> QED BY <2>1 DEF HeldInv, Idle, Capacity
<1>4. CASE Tick
  <2>1. Idle(g)' = Idle(g) + 1 /\ Idle(g) \in Nat
    BY <1>4, AvailableType DEF Tick, Idle, table, TypeOK
  <2> QED BY <1>4, <2>1 DEF HeldInv, Tick, table, history, Capacity
<1> QED
  BY <1>1, <1>2, <1>3, <1>4 DEF Next, Datagram, DropInvalid, Signal, Close, Terminated, vars, table, history

LEMMA HeldIsRate == TypeOK /\ (\A h \in Hosts : HeldInv(h)) => RateHeld
<1> SUFFICES ASSUME TypeOK, NEW h \in Hosts, HeldInv(h)
             PROVE  admitted[h] * Unit <= Capacity + (now - since[h]) * Gain
  BY DEF RateHeld
<1>1. /\ now \in Nat /\ last[h] \in Nat /\ last[h] <= now /\ since[h] \in Nat /\ since[h] <= now
      /\ tokens[h] \in Nat /\ admitted[h] \in Nat /\ Capacity \in Nat
  BY CapacityType DEF TypeOK
<1>2. now - since[h] \in Nat /\ (now - since[h]) * Gain \in Nat /\ admitted[h] * Unit \in Nat
  <2>1. now - since[h] \in Nat
    BY <1>1
  <2> QED BY <1>1, <2>1, GainAdds
<1>3. CASE admitted[h] = 0
  BY <1>1, <1>2, <1>3
<1>4. CASE admitted[h] > 0
  <2>1. since[h] <= last[h] /\ admitted[h] * Unit + tokens[h] <= Capacity + (last[h] - since[h]) * Gain
    BY <1>4 DEF HeldInv
  <2>2. (last[h] - since[h]) * Gain <= (now - since[h]) * Gain /\ (last[h] - since[h]) * Gain \in Nat
    <3>1. last[h] - since[h] \in Nat /\ last[h] - since[h] <= now - since[h]
      BY <1>1, <2>1
    <3> QED BY <1>2, <3>1, GainGrows, GainAdds
  <2> QED BY <1>1, <1>2, <2>1, <2>2
<1> QED BY <1>1, <1>3, <1>4

(* With a TTL in which a bucket refills, no source that is not evicted is ever
   echoed more than its burst plus its rate: idle expiry, periodic cleanup and
   coming back give it nothing. *)
THEOREM RateIsHeld == Spec => []RateHeldAcrossExpiry
<1> DEFINE Held == RefillsWithinTTL => \A h \in Hosts : HeldInv(h)
<1>1. Init => Held
  BY DEF Init, HeldInv
<1>2. TypeOK /\ Held /\ [Next]_vars => Held'
  <2>1. RefillsWithinTTL' <=> RefillsWithinTTL
    BY DEF RefillsWithinTTL, Capacity
  <2> QED BY <2>1, HeldStep
<1>3. TypeOK /\ Held => RateHeldAcrossExpiry
  BY HeldIsRate DEF RateHeldAcrossExpiry
<1> HIDE DEF Held
<1> QED BY <1>1, <1>2, <1>3, TypeCorrect, PTL DEF Spec

-----------------------------------------------------------------------------
(* Refinement *)

(* One more tick is one more Gain in the bucket, up to its capacity. *)
LEMMA TickRefills ==
    ASSUME TypeOK, Tick
    PROVE  Spendable' = [h \in Hosts |-> Limiter!Top(Spendable[h] + Gain)]
<1> SUFFICES ASSUME NEW h \in Hosts
             PROVE  (IF h \in tracked THEN Level(h) ELSE Capacity)'
                      = Limiter!Top((IF h \in tracked THEN Level(h) ELSE Capacity) + Gain)
  BY DEF Spendable
<1>1. /\ Capacity' = Capacity /\ Capacity \in Nat /\ tokens[h] \in Nat /\ Idle(h) \in Nat
      /\ tracked' = tracked /\ tokens' = tokens
  BY AvailableType, CapacityType DEF TypeOK, Tick, table, Capacity
<1>2. Idle(h)' = Idle(h) + 1
  BY DEF Tick, table, TypeOK, Idle
<1>3. Idle(h)' * Gain = Idle(h) * Gain + Gain /\ Idle(h) * Gain \in Nat
  BY <1>1, <1>2, GainAdds
<1> DEFINE r == tokens[h] + Idle(h) * Gain
<1>4. /\ Level(h) = IF r < Capacity THEN r ELSE Capacity
      /\ Level(h)' = IF r + Gain < Capacity THEN r + Gain ELSE Capacity
      /\ r \in Nat
  <2>1. (tokens[h] + Idle(h) * Gain)' = r + Gain
    BY <1>1, <1>3
  <2> QED BY <1>1, <1>3, <2>1 DEF Level
<1> HIDE DEF r
<1>5. Level(h)' = IF Level(h) + Gain > Capacity THEN Capacity ELSE Level(h) + Gain
  BY <1>1, <1>4
<1>6. Capacity = IF Capacity + Gain > Capacity THEN Capacity ELSE Capacity + Gain
  BY <1>1
<1> QED BY <1>1, <1>5, <1>6 DEF Limiter!Top

(* The table gives the sender what it could spend had nothing been forgotten. *)
LEMMA AvailableIsSpendable ==
    ASSUME TypeOK, RefillsWithinTTL, NEW h \in Hosts
    PROVE  Available(h) = Spendable[h]
<1>1. CASE h \in Unexpired(h)
  BY <1>1, KeptTracked DEF Available, Spendable
<1>2. CASE h \notin tracked
  BY <1>2, KeptTracked DEF Available, Spendable
<1>3. CASE h \in tracked \ Unexpired(h)
  <2>1. Idle(h) >= TTL
    BY <1>3, AvailableType DEF Unexpired, Cleaned
  <2> QED BY <1>3, <2>1, IdleIsFull DEF Available, Spendable
<1> QED BY <1>1, <1>2, <1>3

LEMMA SenderSpends ==
    ASSUME TypeOK, NEW h \in Hosts, NEW n \in 0 .. Capacity, Store(h, n), now' = now
    PROVE  Spendable'[h] = n
<1>1. h \in tracked' /\ tokens'[h] = n /\ last'[h] = now
  BY DEF Store, TypeOK
<1>2. Idle(h)' = 0 /\ Capacity' = Capacity /\ Capacity \in Nat
  BY <1>1, CapacityType DEF Idle, TypeOK, Capacity
<1> QED BY <1>1, <1>2 DEF Spendable, Level

LEMMA OthersKeep ==
    ASSUME TypeOK, RefillsWithinTTL, NEW h \in Hosts, NEW n, Store(h, n), now' = now,
           NEW g \in Hosts, g # h
    PROVE  Spendable'[g] = IF g \in Unexpired(h) \ Kept(h) THEN Capacity ELSE Spendable[g]
<1>1. last'[g] = last[g] /\ tokens'[g] = tokens[g]
  BY DEF TypeOK, Store
<1>2. Capacity' = Capacity /\ Level(g)' = Level(g)
  BY <1>1 DEF Capacity, Level, Idle
<1>3. g \in tracked' <=> g \in Kept(h)
  BY DEF Store
<1>4. CASE g \in Kept(h)
  BY <1>2, <1>3, <1>4, KeptTracked DEF Spendable
<1>5. CASE g \in Unexpired(h) \ Kept(h)
  BY <1>2, <1>3, <1>5 DEF Spendable
<1>6. CASE g \notin Unexpired(h)
  <2>1. g \in tracked => Idle(g) >= TTL
    BY <1>6, AvailableType DEF Unexpired, Cleaned
  <2>2. Spendable[g] = Capacity
    BY <2>1, IdleIsFull DEF Spendable
  <2>3. g \notin tracked'
    BY <1>3, <1>6, KeptTracked
  <2>4. Spendable'[g] = Capacity
    BY <1>2, <2>3 DEF Spendable
  <2> QED BY <1>6, <2>2, <2>4
<1> QED BY <1>4, <1>5, <1>6

LEMMA SpendableIs ==
    ASSUME NEW F, F = [g \in Hosts |-> F[g]], \A g \in Hosts : Spendable'[g] = F[g]
    PROVE  Spendable' = F
BY DEF Spendable

(* Without an eviction a datagram only touches its sender's bucket. *)
LEMMA QuietStep ==
    ASSUME TypeOK, RefillsWithinTTL, NEW h \in Hosts, NEW n \in 0 .. Capacity,
           Store(h, n), now' = now, ~ Evicts(h)
    PROVE  Spendable' = [Spendable EXCEPT ![h] = n]
<1> DEFINE F == [Spendable EXCEPT ![h] = n]
<1>1. Unexpired(h) \ Kept(h) = {}
  BY DEF Kept
<1>2. \A g \in Hosts : F[g] = IF g = h THEN n ELSE Spendable[g]
  BY DEF Spendable
<1>3. \A g \in Hosts : Spendable'[g] = F[g]
  BY <1>1, <1>2, SenderSpends, OthersKeep
<1>4. F = [g \in Hosts |-> F[g]]
  BY DEF Spendable
<1> HIDE DEF F
<1>5. Spendable' = F
  BY <1>3, <1>4, SpendableIs
<1> QED BY <1>5 DEF F

(* An eviction empties one bucket's place for a sender that finds a full one. *)
LEMMA EvictStep ==
    ASSUME TypeOK, RefillsWithinTTL, NEW h \in Hosts, Echo(h), Evicts(h)
    PROVE  \E v \in Hosts : Limiter!Displace(h, v)
<1> DEFINE U == Unexpired(h)
           v == Victim(U)
           F == [Spendable EXCEPT ![h] = @ - Unit, ![v] = Capacity]
<1>1. U \in SUBSET Hosts /\ U # {} /\ h \notin U
  <2>1. U \in SUBSET Hosts /\ h \notin U
    BY KeptTracked DEF TypeOK, Evicts
  <2>2. U # {}
    BY FS_EmptySet DEF Evicts
  <2> QED BY <2>1, <2>2
<1>2. v \in U /\ v \in Hosts /\ v # h
  BY <1>1, VictimIsLeast DEF TypeOK
<1>3. Available(h) = Capacity /\ Spendable[h] = Capacity
  BY <1>1, AvailableIsSpendable DEF Available
<1>4. U \ Kept(h) = {v}
  BY <1>2 DEF Kept
<1>5. /\ Store(h, Capacity - Unit) /\ now' = now /\ Capacity - Unit \in 0 .. Capacity
  BY <1>3, CapacityType DEF Echo
<1> HIDE DEF v, U
<1>6. \A g \in Hosts : F[g] = IF g = h THEN Capacity - Unit
                              ELSE IF g = v THEN Capacity ELSE Spendable[g]
  BY <1>2, <1>3 DEF Spendable
<1>7. Spendable'[h] = Capacity - Unit
  BY <1>5, SenderSpends
<1>8. \A g \in Hosts : g # h => Spendable'[g] = IF g = v THEN Capacity ELSE Spendable[g]
  BY <1>4, <1>5, OthersKeep DEF U
<1>9. \A g \in Hosts : Spendable'[g] = F[g]
  BY <1>6, <1>7, <1>8
<1>10. F = [g \in Hosts |-> F[g]]
  BY DEF Spendable
<1> HIDE DEF F
<1>11. Spendable' = F
  BY <1>9, <1>10, SpendableIs
<1> QED BY <1>2, <1>3, <1>11 DEF F, Limiter!Displace

(* With a TTL in which a bucket refills, expiry and cleanup are invisible: the
   server is the limiter that only forgets a source to make room for another. *)
THEOREM ServerImplementsLimiter ==
    ASSUME RefillsWithinTTL PROVE Spec => ImplementsRateLimiter
<1>1. Init => Limiter!LimiterInit
  BY DEF Init, Limiter!LimiterInit, Spendable
<1>2. TypeOK /\ [Next]_vars => [Limiter!LimiterNext]_Spendable
  <2> SUFFICES ASSUME TypeOK, [Next]_vars
               PROVE  Limiter!LimiterNext \/ Spendable' = Spendable
    OBVIOUS
  <2>1. ASSUME NEW h \in Hosts, DropLimited(h) PROVE Spendable' = Spendable
    <3>1. Available(h) \in 0 .. Capacity /\ Available(h) = Spendable[h] /\ Available(h) < Unit
      BY <2>1, AvailableType, AvailableIsSpendable DEF DropLimited
    <3>2. ~ Evicts(h)
      BY <3>1, CapacityType DEF Available, Evicts
    <3>3. Spendable' = [Spendable EXCEPT ![h] = Spendable[h]]
      BY <2>1, <3>1, <3>2, QuietStep DEF DropLimited
    <3> QED BY <3>3 DEF Spendable
  <2>2. ASSUME NEW h \in Hosts, Echo(h) PROVE Limiter!LimiterNext
    <3>1. Available(h) \in 0 .. Capacity /\ Available(h) = Spendable[h] /\ Available(h) >= Unit
      BY <2>2, AvailableType, AvailableIsSpendable DEF Echo
    <3>2. CASE Evicts(h)
      BY <2>2, <3>2, EvictStep DEF Limiter!LimiterNext
    <3>3. CASE ~ Evicts(h)
      <4>1. Available(h) - Unit \in 0 .. Capacity
        BY <3>1, CapacityType
      <4>2. Spendable' = [Spendable EXCEPT ![h] = Spendable[h] - Unit]
        BY <2>2, <3>1, <3>3, <4>1, QuietStep DEF Echo
      <4> QED BY <3>1, <4>2 DEF Limiter!LimiterNext, Limiter!Admit
    <3> QED BY <3>2, <3>3
  <2>3. CASE Tick
    BY <2>3, TickRefills DEF Limiter!LimiterNext, Limiter!Refill
  <2>4. CASE UNCHANGED <<now, table>>
    BY <2>4 DEF Spendable, Level, Idle, Capacity, table
  <2> QED
    BY <2>1, <2>2, <2>3, <2>4 DEF Next, Datagram, DropInvalid, Signal, Close, Terminated, vars, table
<1> QED BY <1>1, <1>2, TypeCorrect, PTL DEF Spec, ImplementsRateLimiter, Limiter!LimiterSpec
===============================================================================
