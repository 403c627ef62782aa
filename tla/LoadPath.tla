------------------------------- MODULE LoadPath -------------------------------
(***************************************************************************)
(* A test against an echo server whose limiter is on: run_test of          *)
(* neural_blitz/udp_client.py with the two token buckets it creates, one   *)
(* for the warm-up and one for the measured phase, a network that delays,  *)
(* reorders and loses datagrams, and the server, which other sources send  *)
(* to as they like.  Composes TokenBucket and EchoServer over one clock.   *)
(***************************************************************************)
EXTENDS EchoServer, Sequences, SequencesExt

CONSTANTS
    Testers,     \* the source that runs the test; 0 when none does
    Intervals,   \* values of interval
    Tenth,       \* ticks in a tenth of a second
    Warmup,      \* config.warmup
    MaxDelay     \* bound: ticks a datagram is under way, less than a timeout

ASSUME TestersAssumption == Testers \subseteq Hosts \union {0} /\ 0 \notin Hosts
ASSUME PacingAssumption == Intervals \subseteq Nat \ {0} /\ Tenth \in Nat
ASSUME PathBoundsAssumption == Warmup \in Nat /\ MaxDelay \in Nat

VARIABLES
    tester,    \* the source that runs the test
    interval,  \* ticks per packet of config.rate
    warm,      \* packets the warm-up has still to send; -1 when it is over
    budget,    \* _tokens of the limiter in use, in ticks that earn them
    refilled,  \* its _last
    wake,      \* when a coroutine that sleeps for a token tries again
    flight     \* when each packet under way to the server was sent

limiter == <<tester, interval, budget, refilled, wake>>
client == <<limiter, warm, flight>>
server == <<table, packets, dropped, serving, history>>

\* One caller stands for all: while it sleeps there is no token for another.
Bucket ==
    INSTANCE TokenBucket WITH Callers <- {1}, tokens <- budget, last <- refilled,
        sleeper <- wake, grants <- flight

\* The host has one address and is not probed; both limiters are new.
PathInit ==
    /\ Init
    /\ tester \in Testers
    /\ warm = IF Warmup > 0 THEN Warmup ELSE -1
    /\ Bucket!BucketInit

\* A coroutine asks for a token, for a packet or for a retry of one; with a
\* token it sends at once.  The warm-up does not retry.
Send ==
    /\ tester # 0 /\ warm # 0
    /\ packets + dropped + Len(flight) < MaxDatagrams
    /\ Bucket!Acquire(1)
    /\ warm' = IF warm > 0 /\ flight' # flight THEN warm - 1 ELSE warm
    /\ UNCHANGED <<tester, server>>

\* Every packet of the warm-up is answered or has timed out; the way back takes
\* any time, also none.  The limiter of the measured phase, created before the
\* warm-up, has not been used since.
EndWarmup ==
    /\ warm = 0 /\ flight = <<>>
    /\ warm' = -1
    /\ budget' = 0 /\ refilled' = 0 /\ wake' = [c \in {1} |-> 0]
    /\ UNCHANGED <<now, tester, interval, flight, server>>

Leave(i) ==
    /\ flight' = RemoveAt(flight, i)
    /\ UNCHANGED <<limiter, warm>>

Arrive(i) == Leave(i) /\ Datagram(tester)

Lose(i) == Leave(i) /\ UNCHANGED <<now, server>>

\* No datagram is under way for longer than MaxDelay.
Advance ==
    /\ \A i \in DOMAIN flight : now < flight[i] + MaxDelay
    /\ Tick
    /\ UNCHANGED client

\* Invalid datagrams and the shutdown are told apart only when nobody tests.
Others ==
    /\ \/ \E h \in Hosts \ {tester} : Datagram(h)
       \/ tester = 0 /\ (DropInvalid \/ Signal \/ Close \/ Terminated)
    /\ UNCHANGED client

\* The bound on time ends the test.
Over == tester # 0 /\ now = MaxTime /\ UNCHANGED <<vars, client>>

PathNext ==
    \/ Send \/ EndWarmup \/ Advance \/ Others \/ Over
    \/ \E i \in DOMAIN flight : Arrive(i) \/ Lose(i)

PathSpec == PathInit /\ [][PathNext]_<<vars, client>>

-----------------------------------------------------------------------------

\* --rate is not above --rate-limit, and the burst of the server has room for
\* the bursts of both limiters and for what the network bunches together.
Sustainable ==
    /\ Unit <= Gain * interval
    /\ Gain * (2 * Bucket!Capacity + MaxDelay) <= Capacity

(* A test that keeps the server's rate loses no packet to its limiter, whatever
   other sources send and however the table expires and evicts entries: each of
   its datagrams that arrives finds a token.  Room for one burst would not do:
   the warm-up and the measured phase have a limiter each and spend one each. *)
PacedNeverRefused == Sustainable /\ flight # <<>> => Available(tester) >= Unit
==============================================================================
