------------------------------- MODULE Statistics ------------------------------
(***************************************************************************)
(* What a run is reduced to and judged by: the histogram of LatencyRecorder *)
(* (neural_blitz/latency.py), compute_stats (metrics.py), evaluate_sla      *)
(* (sla.py) and evaluate_comparison (compare.py).                           *)
(*                                                                         *)
(* Bucket b stands for 2^(b/3) microseconds.  A latency is therefore kept   *)
(* as its cube, 2^b, and a limit is compared with it as a cube; a rate is   *)
(* kept as its numerator and denominator.  All comparisons are then exact   *)
(* over the integers; the rounding of floats is left out.                   *)
(***************************************************************************)
EXTENDS Integers, Sequences, FiniteSetsExt

CONSTANT BucketCount   \* _BUCKET_COUNT, 97 in the code

ASSUME BucketCountAssumption == BucketCount \in Nat \ {0}

Buckets == 0 .. BucketCount - 1
EmptyHistogram == [b \in Buckets |-> 0]

\* _bucket_for: three times the binary logarithm, rounded down and capped.  (An
\* hour or more, which no permitted timeout leads to, has the last bucket.)
Bucket(v) == Max({b \in Buckets : b = 0 \/ 2^b <= v * v * v})

FaultyMissing(v, interval) == {v - k * interval : k \in 1 .. v \div interval}

\* record_corrected: the latencies of the packets that a slow one held up.
Missing(v, interval) ==
    IF v <= interval THEN {}
    ELSE {m \in {v - k * interval : k \in 1 .. v} : m >= interval}

Recorded(h, v) == [h EXCEPT ![Bucket(v)] = @ + 1]

RecordedCorrected(h, v, interval) ==
    [b \in Buckets |->
        Recorded(h, v)[b] + Cardinality({m \in Missing(v, interval) : Bucket(m) = b})]

Cumulative(h, b) == MapThenSumSet(LAMBDA i : h[i], 0 .. b)
Total(h) == Cumulative(h, BucketCount - 1)

FaultyReaches(h, p, b) == Cumulative(h, b) * 10000 > p * Total(h)

Reaches(h, p, b) == Cumulative(h, b) * 10000 >= p * Total(h)

\* percentile, for p in hundredths of a percent; 0 without samples.
Percentile(h, p) ==
    IF Total(h) = 0 THEN 0 ELSE 2^Min({b \in Buckets : Reaches(h, p, b)})

\* compute_stats, of the figures that are compared with something.
ComputedStats(sent, h, co) ==
    [sent |-> sent, received |-> Total(h), lost |-> sent - Total(h),
     p95_us |-> Percentile(h, 9500), p99_us |-> Percentile(h, 9900),
     co_p99_us |-> Percentile(co, 9900)]

-----------------------------------------------------------------------------
(* Verdicts *)

Latencies == {"p95_us", "p99_us", "co_p99_us"}

\* One check of evaluate_sla; the limit is in percent or in microseconds.
Violates(s, m, limit) ==
    CASE m = "min_success_rate" -> 100 * s.received < limit * s.sent
      [] m = "max_loss_rate" -> 100 * s.lost > limit * s.sent
      [] m \in Latencies -> s[m] > limit * limit * limit

\* evaluate_sla: sla gives a limit to some of the figures.
SlaFailures(s, sla) == {m \in DOMAIN sla : Violates(s, m, sla[m])}

\* check_regression: candidate c is worse than baseline b by more than limit
\* percent.  Nothing is worse than a baseline of zero.
Regressed(b, c, m, limit) ==
    CASE m = "success_rate" ->
            /\ b.received # 0
            /\ 100 * (b.received * c.sent - c.received * b.sent) > limit * b.received * c.sent
      [] m = "loss_rate" ->
            /\ b.lost # 0
            /\ 100 * (c.lost * b.sent - b.lost * c.sent) > limit * b.lost * c.sent
      [] m \in Latencies ->
            /\ b[m] # 0
            /\ 1000000 * c[m] > (100 + limit) * (100 + limit) * (100 + limit) * b[m]

\* evaluate_comparison.
Regressions(b, c, thresholds) == {m \in DOMAIN thresholds : Regressed(b, c, m, thresholds[m])}
=============================================================================
