------------------------------ MODULE TokenBucket ------------------------------
(***************************************************************************)
(* TokenBucketLimiter of neural_blitz/udp_client.py, shared by all the     *)
(* coroutines of a run.  acquire() either returns at once or sleeps until  *)
(* one token should be there and tries again; it awaits nowhere else, so   *)
(* one round of its loop is one action.                                    *)
(*                                                                         *)
(* Time is in ticks of any length, counted from the creation of the        *)
(* limiter.  rate is one token per interval ticks, and tokens are counted  *)
(* in the ticks that earn them: a tick earns one unit, a token is interval *)
(* units.  interval = 0 stands for rate = 0, no limit.                     *)
(***************************************************************************)
EXTENDS Integers, Sequences

CONSTANTS
    Callers,     \* the coroutines that share the limiter
    Intervals,   \* values of interval
    Tenth        \* ticks in the 0.1 s of _max_tokens

ASSUME IntervalsAssumption == Intervals \subseteq Nat
ASSUME TenthAssumption == Tenth \in Nat

VARIABLES
    now,       \* time.monotonic()
    interval,  \* 1 / _rate
    tokens,    \* _tokens
    last,      \* _last
    sleeper,   \* per caller: when its asyncio.sleep ends, 0 if it does not sleep
    grants     \* history: the times at which acquire() returned

limiter == <<now, interval, tokens, last, sleeper, grants>>

\* __init__: the bucket starts empty.
Created(i) ==
    /\ now = 0 /\ interval = i /\ tokens = 0 /\ last = 0
    /\ sleeper = [c \in Callers |-> 0]
    /\ grants = <<>>

\* _max_tokens: the tokens of a tenth of a second, at least one.
Capacity == IF Tenth > interval THEN Tenth ELSE interval

\* Operators named Faulty... are seeded faults, as in BlitzClient.
FaultyRefilled == tokens + now - last

Refilled == IF tokens + now - last < Capacity THEN tokens + now - last ELSE Capacity

Granted(c) ==
    /\ sleeper' = [sleeper EXCEPT ![c] = 0]
    /\ grants' = Append(grants, now)

Unlimited(c) ==
    /\ interval = 0
    /\ Granted(c)
    /\ UNCHANGED <<tokens, last>>

Take(c) ==
    /\ interval > 0 /\ Refilled >= interval
    /\ tokens' = Refilled - interval
    /\ last' = now
    /\ Granted(c)

FaultySleep(c) ==
    /\ interval > 0 /\ Refilled < interval
    /\ tokens' = Refilled
    /\ sleeper' = [sleeper EXCEPT ![c] = now + interval - Refilled]
    /\ UNCHANGED <<last, grants>>

Sleep(c) ==
    /\ interval > 0 /\ Refilled < interval
    /\ tokens' = Refilled
    /\ last' = now
    /\ sleeper' = [sleeper EXCEPT ![c] = now + interval - Refilled]
    /\ UNCHANGED grants

\* One round of the loop of acquire(), on its call or after a sleep: another
\* caller may have taken the token this one slept for.
Acquire(c) ==
    /\ now >= sleeper[c]
    /\ Unlimited(c) \/ Take(c) \/ Sleep(c)
    /\ UNCHANGED <<now, interval>>

Tick == now' = now + 1 /\ UNCHANGED <<interval, tokens, last, sleeper, grants>>

BucketInit == \E i \in Intervals : Created(i)
BucketNext == Tick \/ \E c \in Callers : Acquire(c)
BucketSpec == BucketInit /\ [][BucketNext]_limiter

-----------------------------------------------------------------------------

BucketTypeOK ==
    /\ now \in Nat /\ interval \in Intervals
    /\ tokens \in 0 .. Capacity
    /\ last \in 0 .. now
    /\ sleeper \in [Callers -> Nat]
    /\ grants \in Seq(Nat)

(* "Max packets/sec" (cli.py:84): however the callers interleave, sleep and
   overtake each other, a window of time holds at most the burst and what the
   rate earns in it, and the first packets are earned too: the bucket starts
   empty. *)
RateHeld ==
    /\ \A i, j \in DOMAIN grants : i <= j =>
          interval * (j - i + 1) <= Capacity + grants[j] - grants[i]
    /\ \A j \in DOMAIN grants : interval * j <= grants[j]
=============================================================================
