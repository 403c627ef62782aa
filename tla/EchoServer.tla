------------------------------ MODULE EchoServer ------------------------------
(***************************************************************************)
(* The UDP echo server, neural_blitz/udp_server.py: the handler of a       *)
(* datagram, the per-source token buckets it keeps in a bounded table with *)
(* idle expiry, periodic cleanup and eviction, and the shutdown of         *)
(* run_server.  The limiter is on: with rate_limit = 0 every valid         *)
(* datagram is echoed and the table stays empty.                           *)
(*                                                                         *)
(* Time is a count of ticks and tokens are counted in units of 1/Unit, so  *)
(* that fractional rates are integers: rate_limit = Gain/Unit tokens per   *)
(* tick.  The floating point rounding of the code is left out.  A host is  *)
(* a number; their order is the lexicographic order of the names.          *)
(***************************************************************************)
EXTENDS Integers, FiniteSets

CONSTANTS
    Hosts,            \* the sources
    MaxTracked,       \* max_tracked_clients
    TTL,              \* client_state_ttl
    CleanupInterval,  \* cleanup_interval
    Unit, Gain,       \* one token, and what a bucket gains per tick
    TicksPerSecond,   \* rate_limit is per second
    MaxTime,          \* bound: ticks
    MaxDatagrams      \* bound: datagrams received

ASSUME HostsAssumption == Hosts \subseteq Nat /\ IsFiniteSet(Hosts)
ASSUME TableAssumption ==
    MaxTracked \in Nat \ {0} /\ TTL \in Nat \ {0} /\ CleanupInterval \in Nat \ {0}
ASSUME RateAssumption == Unit \in Nat \ {0} /\ Gain \in Nat \ {0} /\ TicksPerSecond \in Nat \ {0}
ASSUME BoundAssumption == MaxTime \in Nat /\ MaxDatagrams \in Nat

VARIABLES
    now,          \* _clock()
    tracked,      \* the keys of _clients
    tokens,       \* first component of an entry, in units
    last,         \* second component: when its source was last seen
    lastCleanup,  \* _last_cleanup
    packets,      \* packet_count
    dropped,      \* dropped_packets
    serving,      \* run_server: serving, stopping (stop is set), closed
    admitted,     \* history: datagrams of a source echoed since its eviction
    since         \* history: when the first of them was echoed

\* Operators named Faulty... are seeded faults: the mutation runs put each in
\* the place of the definition it precedes.
\* tokens[h] and last[h] mean something to the code only while h is tracked;
\* otherwise they keep what the entry held when it was removed.
vars == <<now, tracked, tokens, last, lastCleanup, packets, dropped, serving,
          admitted, since>>
table == <<tracked, tokens, last, lastCleanup>>
history == <<admitted, since>>

\* max(1.0, rate_limit) tokens.
Capacity == IF Gain * TicksPerSecond > Unit THEN Gain * TicksPerSecond ELSE Unit

Init ==
    /\ now = 0 /\ lastCleanup = 0
    /\ tracked = {}
    /\ tokens = [h \in Hosts |-> Capacity]
    /\ last = [h \in Hosts |-> 0]
    /\ packets = 0 /\ dropped = 0
    /\ serving = "serving"
    /\ admitted = [h \in Hosts |-> 0]
    /\ since = [h \in Hosts |-> 0]

-----------------------------------------------------------------------------
(* _allow, step by step *)

FaultyIdle(h) == last[h] - now

Idle(h) == now - last[h]
CleanupDue == now - lastCleanup >= CleanupInterval

\* The entries the periodic cleanup leaves.
Cleaned == IF CleanupDue THEN {g \in tracked : Idle(g) < TTL} ELSE tracked

FaultyUnexpired(h) == Cleaned \ (IF Idle(h) >= CleanupInterval THEN {h} ELSE {})

\* The entry of the sender itself does not outlive its TTL either.
Unexpired(h) == Cleaned \ (IF Idle(h) >= TTL THEN {h} ELSE {})

FaultyVictim(T) == CHOOSE v \in T : \A g \in T : v <= g

\* The least recently seen source, then the smallest host.
Victim(T) ==
    CHOOSE v \in T : \A g \in T : last[v] < last[g] \/ (last[v] = last[g] /\ v <= g)

FaultyEvicts(h) == h \notin Unexpired(h) /\ Cardinality(Unexpired(h)) > MaxTracked

\* A new source evicts one entry of a full table.
Evicts(h) == h \notin Unexpired(h) /\ Cardinality(Unexpired(h)) >= MaxTracked
Kept(h) == IF Evicts(h) THEN Unexpired(h) \ {Victim(Unexpired(h))} ELSE Unexpired(h)

\* What the entry of g holds at this moment; a new one holds a full bucket.
Level(g) ==
    LET refilled == tokens[g] + Idle(g) * Gain
    IN  IF refilled < Capacity THEN refilled ELSE Capacity
Available(h) == IF h \in Unexpired(h) THEN Level(h) ELSE Capacity

FaultyStoreKeepsLast(h, n) ==
    /\ tracked' = Kept(h) \union {h}
    /\ tokens' = [tokens EXCEPT ![h] = n]
    /\ last' = [last EXCEPT ![h] = IF h \in Unexpired(h) THEN @ ELSE now]
    /\ lastCleanup' = IF CleanupDue THEN now ELSE lastCleanup

FaultyStoreDefersCleanup(h, n) ==
    /\ tracked' = Kept(h) \union {h}
    /\ tokens' = [tokens EXCEPT ![h] = n]
    /\ last' = [last EXCEPT ![h] = now]
    /\ lastCleanup' = now

\* The entry written back, with its sender seen now and n tokens left.
Store(h, n) ==
    /\ tracked' = Kept(h) \union {h}
    /\ tokens' = [tokens EXCEPT ![h] = n]
    /\ last' = [last EXCEPT ![h] = now]
    /\ lastCleanup' = IF CleanupDue THEN now ELSE lastCleanup

\* History: an evicted source starts afresh, the sender's datagrams add up.
Record(h, n) ==
    /\ admitted' = [g \in Hosts |->
                       IF g = h THEN admitted[g] + n
                       ELSE IF g \in Unexpired(h) \ Kept(h) THEN 0 ELSE admitted[g]]
    /\ since' = [since EXCEPT ![h] = IF admitted[h] = 0 THEN now ELSE @]

-----------------------------------------------------------------------------
(* datagram_received *)

\* The socket is open, and the bound on datagrams is not reached.
Arrives == serving # "closed" /\ packets + dropped < MaxDatagrams

\* Too short, too long, or of another packet version.
DropInvalid ==
    /\ Arrives
    /\ dropped' = dropped + 1
    /\ UNCHANGED <<now, table, packets, serving, history>>

DropLimited(h) ==
    /\ Arrives
    /\ Available(h) < Unit
    /\ Store(h, Available(h))
    /\ Record(h, 0)
    /\ dropped' = dropped + 1
    /\ UNCHANGED <<now, packets, serving>>

Echo(h) ==
    /\ Arrives
    /\ Available(h) >= Unit
    /\ Store(h, Available(h) - Unit)
    /\ Record(h, 1)
    /\ packets' = packets + 1
    /\ UNCHANGED <<now, dropped, serving>>

-----------------------------------------------------------------------------
(* run_server *)

\* SIGINT or SIGTERM, any number of times: on_signal sets the future once.
Signal ==
    /\ serving \in {"serving", "stopping"}
    /\ serving' = "stopping"
    /\ UNCHANGED <<now, table, packets, dropped, history>>

\* run_server resumes after "await stop" and closes the transport.
Close ==
    /\ serving = "stopping"
    /\ serving' = "closed"
    /\ UNCHANGED <<now, table, packets, dropped, history>>

Tick ==
    /\ now < MaxTime
    /\ now' = now + 1
    /\ UNCHANGED <<table, packets, dropped, serving, history>>

Datagram(h) == DropLimited(h) \/ Echo(h)

Terminated == serving = "closed" /\ UNCHANGED vars

Next ==
    \/ \E h \in Hosts : Datagram(h)
    \/ DropInvalid
    \/ Signal \/ Close \/ Tick \/ Terminated

Spec == Init /\ [][Next]_vars

-----------------------------------------------------------------------------
(* Properties *)

TypeOK ==
    /\ now \in Nat
    /\ lastCleanup \in 0 .. now
    /\ tracked \in SUBSET Hosts
    /\ tokens \in [Hosts -> 0 .. Capacity]
    /\ last \in [Hosts -> 0 .. now]
    /\ packets \in Nat /\ dropped \in Nat
    /\ serving \in {"serving", "stopping", "closed"}
    /\ admitted \in [Hosts -> Nat]
    /\ since \in [Hosts -> 0 .. now]

(* "At most max_tracked_clients token buckets are retained"
   (udp_server.py:26), in any order of new, expired, evicted and returning
   sources. *)
TableBounded == Cardinality(tracked) <= MaxTracked

\* A bucket left alone for TTL would be full again.
RefillsWithinTTL == TTL * Gain >= Capacity

\* As long as a source is not evicted, no more of its datagrams are echoed than
\* the burst plus what rate_limit grants for the time since the first of them.
RateHeld ==
    \A h \in Hosts : admitted[h] * Unit <= Capacity + (now - since[h]) * Gain

(* The rate holds across idle expiry, periodic cleanup, refusals and returns,
   provided the TTL is long enough to refill a bucket. *)
RateHeldAcrossExpiry == RefillsWithinTTL => RateHeld

(* The help of --rate-limit: "Maximum packets/sec per source" (cli.py:108).
   Nothing asks client_state_ttl to be long enough to refill a bucket, and a
   source that comes back after a shorter TTL finds a full one. *)
RateIsMaximum == RateHeld

(* A bucket that has not expired is given up only to make room for a new source
   in a full table, one at a time, when no expired entry is left to give up
   instead, and it is the one unused for longest. *)
EvictsOnlyLeastRecent ==
    [][\A v \in tracked \ tracked' : Idle(v) < TTL =>
          /\ Cardinality(tracked') = MaxTracked
          /\ tracked \ tracked' = {v}
          /\ \A g \in tracked' : g \notin tracked \/ (last[v] <= last[g] /\ Idle(g) < TTL)]_vars

(* "periodic cleanup": whatever the traffic, a datagram leaves no entry behind
   that has been idle for TTL plus one cleanup interval. *)
IdleForgotten ==
    [][\A g \in tracked' : lastCleanup' # lastCleanup \/ last' # last =>
          now - last'[g] < TTL + CleanupInterval]_vars

\* The tokens a source could spend now, as RateLimiter sees them.
Spendable == [h \in Hosts |-> IF h \in tracked THEN Level(h) ELSE Capacity]

Limiter == INSTANCE RateLimiter WITH level <- Spendable

(* With a TTL long enough to refill a bucket the table is invisible: the server
   is a limiter that remembers every source, except those it has to evict. *)
ImplementsRateLimiter == Limiter!LimiterSpec
==============================================================================
