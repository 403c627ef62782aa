------------------------------ MODULE TestCommand ------------------------------
(***************************************************************************)
(* neural-blitz test, from its command line to its exit code: execute_test *)
(* and main of neural_blitz/cli.py around run_test of udp_client.py, whose *)
(* choice of an address, pacing by the token bucket and recording of round *)
(* trip times are here; then neural-blitz compare on the file it wrote, as *)
(* docs/PERFORMANCE.md lines up the two.  What happens between a packet and*)
(* its echo is BlitzClient.                                                *)
(***************************************************************************)
EXTENDS TokenBucket, Statistics, FiniteSets

CONSTANTS
    Requests,      \* what the command line and its files may ask for
    Count,         \* config.count
    MaxRetries,    \* config.max_retries
    MaxAddresses,  \* bound: addresses a host name resolves to
    Rtts,          \* bound: round trip times, in ticks
    MaxTime,       \* bound: ticks that pass although nobody sleeps
    Files,         \* statistics that earlier runs may have left
    NoFile         \* no such file

ASSUME CountAssumption == Count \in Nat \ {0} /\ Callers = 1 .. Count
ASSUME CommandBoundsAssumption ==
    /\ MaxRetries \in Nat /\ MaxAddresses \in Nat \ {0} /\ MaxTime \in Nat
    /\ Rtts \subseteq Nat \ {0} /\ NoFile \notin Files

(* Options of the command line ("cli"), of the sections "test" and "defaults"  *)
(* of the configuration file, each only as far as it is given, and whether the *)
(* file can be read; the limits of the SLA file and of compare.  port stands   *)
(* for all numbers that must be in a range, count for all that have a ceiling; *)
(* an output is misnamed if its suffix is none that it may have.               *)
Builtin ==
    [host |-> "private", port |-> "good", count |-> "good", interval |-> 0,
     co_correction |-> TRUE, metrics_output |-> "none", sla_path |-> "none",
     fail_on_sla |-> FALSE, pdf_report |-> "none", authorized_target |-> FALSE]

Outputs == {"metrics_output", "pdf_report"}

Values(option) ==
    CASE option = "host" -> {"private", "public"}
      [] option = "port" -> {"good", "outside", "text"}
      [] option = "count" -> {"good", "excessive"}
      [] option = "interval" -> Intervals
      [] option \in Outputs -> {"none", "file", "misnamed"}
      [] option = "sla_path" -> {"none", "broken", "readable"}
      [] OTHER -> BOOLEAN

IsLayer(layer) ==
    DOMAIN layer \subseteq DOMAIN Builtin /\ \A k \in DOMAIN layer : layer[k] \in Values(k)

ASSUME RequestsAssumption ==
    0 \in Intervals /\ \A r \in Requests :
        /\ IsLayer(r.cli) /\ IsLayer(r.test) /\ IsLayer(r.defaults) /\ r.readable \in BOOLEAN
        /\ \A k \in DOMAIN r.cli \intersect {"co_correction", "fail_on_sla", "authorized_target"} :
              r.cli[k] # Builtin[k]

\* load_sla keeps the limits it knows.
ASSUME LimitsAssumption ==
    \A r \in Requests : \A m \in DOMAIN r.sla :
        m \in {"min_success_rate", "max_loss_rate"} \union Latencies /\ r.sla[m] \in Int

VARIABLES
    request,    \* the command line and the files it names
    config,     \* the TestConfig made of it
    pc,         \* where the command stands
    found,      \* run_test: addresses the host has
    index,      \* the address that is tried
    open,       \* the addresses that have an open endpoint
    chosen,     \* the address used, else 0
    packet,     \* per sequence number: to be sent, sent, or how it ended
    attempt,    \* per sequence number: packets sent so far
    raw_rtts,   \* the round trip times, as recorded
    counts,     \* recorder._counts
    co_counts,  \* recorder._co_counts
    stats,      \* the statistics of the run
    failures,   \* sla_failures
    exit,       \* the exit code of test, -1 while it runs
    candidate,  \* the content of metrics_output
    baseline,   \* the content of the file compare read as the baseline
    gate        \* the exit code of compare, -1 before

address == <<found, index, open, chosen>>
recorder == <<raw_rtts, counts, co_counts>>
input == <<request, config>>
measurement == <<packet, attempt, recorder, limiter>>
outcome == <<stats, failures>>
files == <<candidate, baseline>>
vars == <<input, pc, address, measurement, outcome, exit, files, gate>>

Running == exit = -1

Init ==
    /\ request \in Requests
    /\ config = Builtin
    /\ pc = "start"
    /\ found = 0 /\ index = 0 /\ open = {} /\ chosen = 0
    /\ Created(0)
    /\ packet = [s \in Callers |-> "unsent"] /\ attempt = [s \in Callers |-> 0]
    /\ raw_rtts = <<>> /\ counts = EmptyHistogram /\ co_counts = EmptyHistogram
    /\ stats = NoFile /\ failures = {}
    /\ exit = -1 /\ gate = -1
    /\ candidate \in Files \union {NoFile} /\ baseline = NoFile

\* The command ends with the exit code of the exception that main handles.
Exit(code) == exit' = code /\ pc' = "ended"

-----------------------------------------------------------------------------
(* Before the run *)

\* argparse itself refuses a text for a number, with code 2.
UsageError ==
    /\ pc = "start"
    /\ "port" \in DOMAIN request.cli /\ request.cli.port = "text"
    /\ Exit(2)
    /\ UNCHANGED <<input, address, measurement, outcome, files, gate>>

Accepted == "port" \in DOMAIN request.cli => request.cli.port # "text"

FileUnreadable ==
    /\ pc = "start" /\ Accepted /\ ~ request.readable
    /\ Exit(3)
    /\ UNCHANGED <<input, address, measurement, outcome, files, gate>>

\* values.update(): the keys of one layer over those of another.
layer ++ below ==
    [k \in DOMAIN layer \union DOMAIN below |-> IF k \in DOMAIN layer THEN layer[k] ELSE below[k]]

\* get_config_section: the section "test" overrides "defaults".
Section(r) == r.test ++ r.defaults

\* The command line overrides both; a flag can only be switched from its
\* default.
Configured(r) == r.cli ++ Section(r) ++ Builtin

Configure ==
    /\ pc = "start" /\ Accepted /\ request.readable
    /\ config' = Configured(request)
    /\ pc' = "check"
    /\ UNCHANGED <<request, address, measurement, outcome, exit, files, gate>>

\* normalize_test_values: int() of a text is an error nobody expects.
NotANumber ==
    /\ pc = "check" /\ config.port = "text"
    /\ Exit(1)
    /\ UNCHANGED <<input, address, measurement, outcome, files, gate>>

\* validate_test_config: ranges, and the suffixes of the two outputs.
Valid(c) == c.port = "good" /\ \A k \in Outputs : c[k] # "misnamed"

Invalid ==
    /\ pc = "check" /\ config.port # "text" /\ ~ Valid(config)
    /\ Exit(3)
    /\ UNCHANGED <<input, address, measurement, outcome, files, gate>>

\* validate_test_safety: the ceilings, and public hosts only with permission.
Safe(c) == c.count # "excessive" /\ (c.authorized_target \/ c.host = "private")

Unsafe ==
    /\ pc = "check" /\ Valid(config) /\ ~ Safe(config)
    /\ Exit(5)
    /\ UNCHANGED <<input, address, measurement, outcome, files, gate>>

Resolve ==
    /\ pc = "check" /\ Valid(config) /\ Safe(config)
    /\ pc' = "connect"
    /\ found' \in 1 .. MaxAddresses
    /\ index' = 1
    /\ UNCHANGED <<input, open, chosen, measurement, outcome, exit, files, gate>>

ResolveFails ==
    /\ pc = "check" /\ Valid(config) /\ Safe(config)
    /\ Exit(1)
    /\ UNCHANGED <<input, address, measurement, outcome, files, gate>>

FaultyNextAddress ==
    /\ index' = index
    /\ IF index < found THEN pc' = "connect" /\ UNCHANGED exit ELSE Exit(1)

\* continue: the next address, or the error when none is left.
NextAddress ==
    /\ index' = index + 1
    /\ IF index < found THEN pc' = "connect" /\ UNCHANGED exit ELSE Exit(1)

EndpointFails ==
    /\ pc = "connect"
    /\ NextAddress
    /\ UNCHANGED <<input, found, open, chosen, measurement, outcome, files, gate>>

\* The address is taken: the limiter of the measured phase is created before
\* the warm-up, which has one of its own.
Choose ==
    /\ chosen' = index /\ pc' = "warmup"
    /\ now' = 0 /\ interval' = config.interval /\ tokens' = 0 /\ last' = 0
    /\ sleeper' = [s \in Callers |-> 0] /\ grants' = <<>>

\* A host with one address is not probed.
EndpointOpens ==
    /\ pc = "connect"
    /\ open' = open \union {index}
    /\ IF found = 1 THEN Choose ELSE pc' = "probe" /\ UNCHANGED <<chosen, limiter>>
    /\ UNCHANGED <<input, found, index, packet, attempt, recorder, outcome, exit, files, gate>>

ProbeAnswered ==
    /\ pc = "probe"
    /\ Choose
    /\ UNCHANGED <<input, found, index, open, packet, attempt, recorder, outcome, exit,
                   files, gate>>

FaultyProbeSilent ==
    /\ pc = "probe"
    /\ NextAddress
    /\ UNCHANGED <<input, found, open, chosen, measurement, outcome, files, gate>>

ProbeSilent ==
    /\ pc = "probe"
    /\ open' = open \ {index}
    /\ NextAddress
    /\ UNCHANGED <<input, found, chosen, measurement, outcome, files, gate>>

-----------------------------------------------------------------------------
(* The run *)

EndWarmup ==
    /\ pc = "warmup"
    /\ pc' = "measure"
    /\ UNCHANGED <<input, address, measurement, outcome, exit, files, gate>>

\* send_one up to its sendto: the packet leaves when the limiter grants it.
Pace(s) ==
    /\ pc = "measure" /\ packet[s] = "unsent"
    /\ Acquire(s)
    /\ IF sleeper'[s] = 0
       THEN packet' = [packet EXCEPT ![s] = "sent"] /\ attempt' = [attempt EXCEPT ![s] = @ + 1]
       ELSE UNCHANGED <<packet, attempt>>
    /\ UNCHANGED <<input, pc, address, recorder, outcome, exit, files, gate>>

\* The correction needs a rate; without it _co_counts stays empty.
Answer(s, rtt) ==
    /\ pc = "measure" /\ packet[s] = "sent"
    /\ packet' = [packet EXCEPT ![s] = "answered"]
    /\ raw_rtts' = Append(raw_rtts, rtt)
    /\ counts' = Recorded(counts, rtt)
    /\ co_counts' = IF config.co_correction /\ interval > 0
                    THEN RecordedCorrected(co_counts, rtt, interval) ELSE co_counts
    /\ UNCHANGED <<input, pc, address, attempt, limiter, outcome, exit, files, gate>>

FaultyTimeout(s) ==
    /\ pc = "measure" /\ packet[s] = "sent"
    /\ packet' = [packet EXCEPT ![s] = IF attempt[s] <= MaxRetries + 1 THEN "unsent" ELSE "lost"]
    /\ UNCHANGED <<input, pc, address, attempt, recorder, limiter, outcome, exit, files, gate>>

\* A retry goes through the limiter again.
Timeout(s) ==
    /\ pc = "measure" /\ packet[s] = "sent"
    /\ packet' = [packet EXCEPT ![s] = IF attempt[s] <= MaxRetries THEN "unsent" ELSE "lost"]
    /\ UNCHANGED <<input, pc, address, attempt, recorder, limiter, outcome, exit, files, gate>>

\* Time passes in the run; it is not told apart after the last sleeper.
Pass ==
    /\ pc \in {"warmup", "measure"}
    /\ now < MaxTime \/ \E s \in Callers : sleeper[s] > now
    /\ Tick
    /\ UNCHANGED <<input, pc, address, packet, attempt, recorder, outcome, exit, files, gate>>

\* transport.close() and compute_stats.
Report ==
    /\ pc = "measure"
    /\ \A s \in Callers : packet[s] \in {"answered", "lost"}
    /\ open' = {}
    /\ stats' = ComputedStats(Count, counts, co_counts)
    /\ pc' = "write"
    /\ UNCHANGED <<input, found, index, chosen, measurement, failures, exit, files, gate>>

-----------------------------------------------------------------------------
(* After the run *)

WriteMetrics ==
    /\ pc = "write"
    /\ pc' = "sla"
    /\ candidate' = IF config.metrics_output # "none" THEN stats ELSE candidate
    /\ UNCHANGED <<input, address, measurement, outcome, exit, baseline, gate>>

\* The file keeps its content (AtomicWrite).
WriteFails ==
    /\ pc = "write" /\ config.metrics_output # "none"
    /\ Exit(1)
    /\ UNCHANGED <<input, address, measurement, outcome, files, gate>>

EvaluateSla ==
    /\ pc = "sla" /\ config.sla_path # "broken"
    /\ pc' = "pdf"
    /\ failures' = IF config.sla_path = "readable" THEN SlaFailures(stats, request.sla) ELSE {}
    /\ UNCHANGED <<input, address, measurement, stats, exit, files, gate>>

\* No YAML mapping, or a limit that is no number.
SlaUnreadable ==
    /\ pc = "sla" /\ config.sla_path = "broken"
    /\ \E code \in {1, 3} : Exit(code)
    /\ UNCHANGED <<input, address, measurement, outcome, files, gate>>

\* The report cannot be written, or its library is not installed.
PdfFails ==
    /\ pc = "pdf" /\ config.pdf_report # "none"
    /\ \E code \in {1, 6} : Exit(code)
    /\ UNCHANGED <<input, address, measurement, outcome, files, gate>>

Verdict ==
    IF failures # {} /\ config.fail_on_sla THEN 2 ELSE IF stats.received > 0 THEN 0 ELSE 1

Conclude ==
    /\ pc = "pdf"
    /\ Exit(Verdict)
    /\ UNCHANGED <<input, address, measurement, outcome, files, gate>>

\* KeyboardInterrupt: the transport is closed once its address is chosen; a
\* candidate that is being probed is not.
Interrupt ==
    /\ Running
    /\ Exit(130)
    /\ open' = IF chosen # 0 THEN {} ELSE open
    /\ UNCHANGED <<input, found, index, chosen, measurement, outcome, files, gate>>

\* compare --fail-on-regression of a baseline with metrics_output.  A file may
\* be missing, and writing the comparison may fail.
Compare ==
    /\ ~ Running /\ gate = -1
    /\ baseline' \in Files \union {NoFile}
    /\ IF NoFile \in {baseline', candidate} THEN gate' = 1
       ELSE gate' \in {1, IF Regressions(baseline', candidate, request.thresholds) # {} THEN 4 ELSE 0}
    /\ UNCHANGED <<input, pc, address, measurement, outcome, exit, candidate>>

-----------------------------------------------------------------------------

Coroutine(s) == Pace(s) \/ Timeout(s) \/ \E rtt \in Rtts : Answer(s, rtt)

Command ==
    \/ UsageError \/ FileUnreadable \/ Configure
    \/ NotANumber \/ Invalid \/ Unsafe \/ Resolve \/ ResolveFails
    \/ EndpointFails \/ EndpointOpens \/ ProbeAnswered \/ ProbeSilent
    \/ EndWarmup \/ Report
    \/ WriteMetrics \/ WriteFails \/ EvaluateSla \/ SlaUnreadable \/ PdfFails \/ Conclude

Terminated == ~ Running /\ gate # -1 /\ UNCHANGED vars

Next ==
    \/ Command \/ Pass \/ Interrupt \/ Compare \/ Terminated
    \/ \E s \in Callers : Coroutine(s)

\* System calls return, the event loop runs what is ready, an attempt is
\* answered or times out, and time passes while somebody sleeps.
Spec ==
    /\ Init /\ [][Next]_vars
    /\ WF_vars(Command) /\ WF_vars(Pass)
    /\ \A s \in Callers : WF_vars(Coroutine(s))

-----------------------------------------------------------------------------
(* Properties *)

Histogram == [Buckets -> Nat]

TypeOK ==
    /\ request \in Requests /\ IsLayer(config)
    /\ pc \in {"start", "check", "connect", "probe", "warmup", "measure", "write", "sla", "pdf", "ended"}
    /\ found \in 0 .. MaxAddresses /\ index \in 0 .. MaxAddresses + 1
    /\ open \subseteq 1 .. found /\ chosen \in 0 .. found
    /\ packet \in [Callers -> {"unsent", "sent", "answered", "lost"}]
    /\ attempt \in [Callers -> 0 .. MaxRetries + 1]
    /\ raw_rtts \in Seq(Rtts) /\ counts \in Histogram /\ co_counts \in Histogram
    /\ exit \in {-1, 0, 1, 2, 3, 5, 6, 130} /\ gate \in {-1, 0, 1, 4}
    /\ BucketTypeOK

(* No address is left with an open endpoint when the next is tried, the run has
   the endpoint of the address it chose and no other, and however the command
   ends, it has closed it; only an interrupt during a probe leaves one.  A
   public host gets none unless an option, wherever it is given, permits it. *)
EndpointsAccountedFor ==
    /\ pc = "connect" => open = {}
    /\ pc \in {"warmup", "measure"} => open = {chosen}
    /\ ~ Running /\ open # {} => exit = 130 /\ chosen = 0
    /\ open # {} /\ config.host = "public" =>
          \E layer \in {request.cli, request.test, request.defaults} :
              "authorized_target" \in DOMAIN layer /\ layer.authorized_target

\* The percentiles that are asked for, in hundredths of a percent.
Shares == {5000, 9500, 9900}

\* n is the rank of p hundredths of a percent among len samples, rounded up.
IsRank(n, p, len) == 10000 * n >= p * len /\ 10000 * (n - 1) < p * len

\* The samples up to rank n include v, and without v and its equals they do not.
HasRank(v, n) ==
    /\ Cardinality({i \in DOMAIN raw_rtts : raw_rtts[i] < v}) < n
    /\ Cardinality({i \in DOMAIN raw_rtts : raw_rtts[i] <= v}) >= n

(* What percentile() reads off the histogram is the bucket of the round trip
   time that has this rank among all that were recorded. *)
PercentilesAreRanks ==
    pc \in {"measure", "write"} /\ raw_rtts # <<>> =>
        \A p \in Shares : \E v \in Rtts :
            /\ \E n \in 1 .. Len(raw_rtts) : IsRank(n, p, Len(raw_rtts)) /\ HasRank(v, n)
            /\ Percentile(counts, p) = 2^Bucket(v)

(* The correction for coordinated omission takes no sample away and adds only
   latencies between one interval and the largest one measured. *)
CorrectionFillsGaps ==
    pc \in {"measure", "write"} /\ config.co_correction /\ interval > 0 =>
        \A b \in Buckets :
            /\ co_counts[b] >= counts[b]
            /\ co_counts[b] > counts[b] =>
                  /\ b >= Bucket(interval)
                  /\ \E c \in Buckets : c >= b /\ counts[c] > 0

Answered == {s \in Callers : packet[s] = "answered"}
Lost == {s \in Callers : packet[s] = "lost"}

\* A limit of the SLA, said of the packets and their round trip times.
Met(m, limit) ==
    CASE m = "min_success_rate" -> 100 * Cardinality(Answered) >= limit * Count
      [] m = "max_loss_rate" -> 100 * Cardinality(Lost) <= limit * Count
      [] m \in {"p95_us", "p99_us"} ->
            100 * Cardinality({i \in DOMAIN raw_rtts : 2^Bucket(raw_rtts[i]) <= limit * limit * limit})
                >= (IF m = "p95_us" THEN 95 ELSE 99) * Len(raw_rtts)
      [] OTHER -> TRUE

(* When the command succeeds and compare after it, packets were answered, the
   SLA asked for holds of them, and if statistics were to be written, it is
   those of this run, not of one before, that are not worse than the baseline. *)
GreenMeansMet ==
    exit = 0 =>
        /\ Answered # {}
        /\ config.sla_path = "readable" /\ config.fail_on_sla =>
              \A m \in DOMAIN request.sla : Met(m, request.sla[m])
        /\ config.metrics_output # "none" /\ gate = 0 =>
              Regressions(baseline, ComputedStats(Count, counts, co_counts), request.thresholds) = {}

(* Whatever fails or is lost, and however the coroutines compete for tokens,
   the command ends. *)
CommandEnds == <>(~ Running)
=============================================================================
