----------------------------- MODULE RateLimiter -----------------------------
(***************************************************************************)
(* What the echo server's limiter promises: a token bucket per source that *)
(* is never forgotten because it is idle.  A datagram is admitted when its *)
(* source has a whole token; giving the bucket of one other source up may  *)
(* be the price of admitting a new one.  Which sources have an entry in a  *)
(* table, when idle entries expire and when the table is cleaned up does   *)
(* not show.  EchoServer implements it.                                    *)
(***************************************************************************)
EXTENDS Integers

CONSTANTS Hosts, Unit, Gain, Capacity

VARIABLE level  \* per source: the tokens it could spend now, in 1/Unit

Top(n) == IF n > Capacity THEN Capacity ELSE n

LimiterInit == level = [h \in Hosts |-> Capacity]

\* Every bucket gains Gain units per tick of the clock.
Refill == level' = [h \in Hosts |-> Top(level[h] + Gain)]

Admit(h) == level[h] >= Unit /\ level' = [level EXCEPT ![h] = @ - Unit]

\* The bucket of v is given up: the next datagram of v finds a full one.
Displace(h, v) ==
    /\ v # h
    /\ level[h] = Capacity
    /\ level' = [level EXCEPT ![h] = @ - Unit, ![v] = Capacity]

LimiterNext ==
    \/ Refill
    \/ \E h \in Hosts : Admit(h)
    \/ \E h, v \in Hosts : Displace(h, v)

LimiterSpec == LimiterInit /\ [][LimiterNext]_level
==============================================================================
