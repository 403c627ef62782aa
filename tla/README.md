# Verification of Neural Blitz NG

TLA+ models of the Python package in `src/neural_blitz`, the TLC runs that
check them on small instances, and theorems that TLAPS proves for every value
of the constants. Paths below are relative to the repository; `monitor.py:559`
is `src/neural_blitz/monitor.py`, line 559.

## The system

Neural Blitz NG measures UDP round trips. A **client** sends numbered packets to
an **echo server** and turns what comes back into statistics; a **monitor** runs
the client against a list of targets again and again, keeps the results and
serves them over HTTP. Everything runs on one asyncio event loop per process:
code between two awaits is atomic, and what interleaves is coroutines, protocol
callbacks, timers, signals, and the world outside (network, file editors, the
machine).

| component | state | operations | interacts with | hard behaviour | correct when |
|---|---|---|---|---|---|
| client protocol and `send_one` (`udp_client.py`) | `_inflight`, `_completed`, three counters | receive a datagram, register, unregister, lose the connection | the coroutines through futures; the network | timers racing echoes, late and duplicated echoes, cancellation | a sequence is registered exactly while awaited; counters have the causes they name |
| `run_test` (`udp_client.py`) | phase, semaphores, `total_retries`, recorder | warm up, measure, report, abort | awaits `send_one` | concurrency limit, cancellation, termination under loss | each measured sequence gets one verdict and the report holds them all |
| `TokenBucketLimiter` (`udp_client.py`) | tokens, last refill, schedule | acquire | awaited by `send_one` | waiters that overtake each other | no window of time gets more than burst plus rate |
| address choice (`udp_client.py:277`) | candidate endpoints, errors | create, probe, close | resolver, `send_one` | endpoint errors, no reply | the first address that answers is used and others closed |
| echo server (`udp_server.py`) | bucket table, last cleanup, two counters | receive a datagram, stop | clients; the clock; signals | expiry, cleanup and eviction in any order | table bounded, rate held, least recent evicted |
| packets, latency recorder (`latency.py`) | two histograms | record, correct, percentile | `run_test` | bucket boundaries, floats | percentiles within a bucket of the truth |
| metrics (`metrics.py`) | none | compute, write, load | recorder, file system | crash while writing | counts add up; files are whole |
| batch (`cli.py:467`, `monitor.py:271`) | results, the files written so far | run each target, write, report, dump | configuration, safety, `run_test`, files | one target fails at any step; a bad entry; an interrupt while `--output` is written | the exit code and the files account for every target; none is run without permission |
| monitor loop (`monitor.py`) | `runtime`, `states`, `latest`, `history`, three events | start, reload, cycle, wait, stop | targets file, client, signals, HTTP | edits and signals at any moment, half-refused files | views agree; signals and edits are answered; health is honest |
| HTTP application (`monitor.py:327`) | none of its own | eight GET routes | reads the monitor's tables | stale reads | answers describe the targets in force |
| file replacement (`monitor.py:194`, `metrics.py:155`, `compare.py:88`) | a temporary file | dump, replace, flush | file system, other writers | crash, refused rename, errors | readers see whole files; acknowledged ones survive |
| `test` and `compare` commands (`cli.py`), with configuration, safety, SLA and comparison | the layered options, statistics, files | configure, check, run, write, judge, compare | all of the above, files of earlier runs | any step fails or is interrupted; stale files; zero baselines | exit code 0 means what was asked for |
| Prometheus text | none | formatting, `target_up` | the monitor's tables | a target that raises keeps its last result | only `target_up` is modelled |
| PDF, logging, packet layout, progress | none | formatting | the above | | not modelled |

## Modules

`ProbeRun`, `RateLimiter` and `TargetBoard` are abstract specifications; each is
implemented by a detailed module through a refinement mapping. Operators named
`Faulty...` are seeded faults: each is the body of the definition below it with
a plausible bug, and a mutation of the model by it makes TLC find the property
it belongs to violated.

| module | models | proofs |
|---|---|---|
| `BlitzClient` (`MCBlitzClient`) | client protocol, `send_one`, both phases of `run_test`, network | `BlitzClientProofs` |
| `ProbeRun` | a measurement: one verdict per probe | |
| `EchoServer` (`MCEchoServer`) | the echo server with its limiter on | `EchoServerProofs` |
| `LoadPath` (`MCLoadPath`) | a test, with the limiters of its two phases and a network, against the echo server; composes `TokenBucket` and `EchoServer` over one clock | `LoadPathProofs` |
| `RateLimiter` | a bucket per source that is never forgotten for being idle | |
| `MonitorLoop` (`MCMonitorLoop`) | the monitor, its targets file and signals | `MonitorLoopProofs` |
| `TargetBoard` | what the monitor shows of its targets | |
| `AtomicWrite` (`MCAtomicWrite`) | replacing a file under crashes | `AtomicWriteProofs` |
| `TokenBucket` | the limiter of the client | `TokenBucketProofs` |
| `Statistics` | histograms, percentiles, SLA and comparison verdicts, as operators | `RecorderProofs` |
| `TestCommand` | `test` from its arguments to its exit code, then `compare`; composes `TokenBucket` and `Statistics` | `BatchCommandProofs`, `RecorderProofs` |
| `BatchCommand` (`MCTestCommand`) | `batch` beside `test`, as `main` dispatches them; what `validate-config` accepts | `BatchCommandProofs`, `RecorderProofs` |

### BlitzClient

One action is the code between two awaits of one coroutine, or one protocol
callback. `pc[s]` is where the coroutine of sequence `s` stands: absent (the
phase has not begun), queued at the semaphore, acquire (in the limiter), await
(in `wait_for`), done, cancelled. `inflight[s]` is the future registered for `s`:
none, pending or resolved; `answer[s]` the attempt whose echo resolved it. The
echo server returns a datagram unchanged, so request and echo are one datagram
in transit, `net[s][a]` copies of it, which the network may lose, duplicate or
deliver in any order. Two steps that look alike are kept apart because asyncio
keeps them apart: an echo resolves the future (`DeliverAnswer`), and only later
the coroutine continues with its result (`Resume`); between the two the timer of
`wait_for` may fire (`TimeoutRetry`, `TimeoutGiveUp`). A sequence whose echo came
in can so be retried or reported lost, and its later echoes count as duplicates.
This is meant (`tests/test_udp_client_extra.py:215` asserts it), so that no property
forbids it; `CountersHaveCauses` allows for it.

Left out: the branch for a missing transport, which `run_test` cannot reach, and
what `TestCommand` has: the choice of an address, the limiter (here an acquire
takes any time) and round trip values (which attempt was measured is kept).

### EchoServer

`tracked`, `tokens` and `last` are the table `_clients`. A datagram of source `h`
is one action, which reads the clock, cleans up when due, expires the sender's
own entry, evicts one when the table is full, refills, and stores the entry:
`Cleaned`, `Unexpired`, `Kept`, `Level` and `Store` are these steps. Time is in
ticks and tokens in units of `1/Unit`, so that every rational rate is covered;
floating point rounding is not. `admitted` and `since` are history variables.
The limiter is on; with `rate_limit = 0` the table is never touched. The branch
for a missing transport is unreachable after `connection_made`.

### LoadPath

`run_test` makes a limiter for the measured phase, then one for the warm-up, and
runs the warm-up first (`udp_client.py:317-346`): `Send` is a coroutine of either
phase that asks the limiter in use and sends at once, `EndWarmup` the change to
the other one, which has not been used since it was made. `flight` holds the
datagrams on their way to the server with the times they were sent at; they
arrive in any order (`Arrive`), each within `MaxDelay`, or are lost. What the
server does with one is `Datagram` of `EchoServer`, and other sources send to it
as they like. The way back is not kept: when the last datagram of the warm-up
has arrived or is lost its coroutine may be done, which is the soonest case.
Nobody tests when `tester` is 0; then the module is `EchoServer` alone.

`Sustainable` says which rate and which burst of the server a test fits: its rate
is not above the server's, and the server's burst has room for *two* bursts of
the client and for what the network bunches together. The configuration of the
run is at the border: with a smaller burst (`TicksPerSecond = 4`) TLC finds a
datagram of the test refused. With room for one burst, which is what a user would
expect to need, a server that has the same `--rate-limit` as the test its `--rate`
may refuse packets, and the report counts them as lost on the way. That a test
within `Sustainable` is never refused is proved for all rates, bursts and delays.

### MonitorLoop

`pc` is where `run_monitor_loop` stands: boot and stat (reading the file and its
modification time at startup), top, load (between the two in a reload), cycle,
wait, stopped, failed. A content of the targets file is a record that says how
reading it ends, its targets and its `monitor` section; a reload reads the time
and then the content in two actions, since an edit may come in between. A cycle
tests its targets one after another (`TestEnds`), with signals and edits in
between, and applies all results in one action (`FinishCycle`), as the code has
no await there; in the same action it goes on to the wait or to the next cycle.
Of a result only the sign of its success rate is kept, of a history its length,
of a time its age up to `AgeCap`. `unseen`, `asked` and `verdict` are history
variables. `TargetUp` is the gauge of `/metrics` (`prometheus.py:94`): it speaks of
the last run that completed, and `HealthHonest` relates it to `/health`. Every
edit is taken to have a new modification time. Not modelled:
cancellation of the monitor's own task, the count of consecutive failures beyond
its presence, timestamps, and the order of targets within a cycle.

### AtomicWrite

Documents are numbered as their writes begin. `kind` says which of the two ways
of writing is used: "json" flushes the file, retries a refused rename and
flushes the directory; "text" does neither. The file system is external: a rename
is atomic and visible at once, but it is on the disk only after the directory is
flushed; `Crash` keeps any of the renames since then and may lose any content that
was not flushed. A failed write unlinks its temporary file (`Discard`), which
may fail too and leave it (`orphans`). `_atomic_json_write` does so on every
exception, `_atomic_write_text` on an `OSError` alone: an interrupt, or text
without a UTF-8 form (a CSV label that is a lone surrogate), ends it with the file
left where it is (`Escapes`, `escaped`). `NoTempLeft` says that nothing else leaves
one.

### TokenBucket, Statistics and TestCommand

`TestCommand` is the `test` command around a run. `pc` is where `execute_test`
and `run_test` stand: start, check (normalisation, validation, safety), connect
and probe (the loop over addresses), warmup, measure, write, sla, pdf, ended.
`request` is the command line with the files it names; `Configured` puts its
layers on top of each other as `build_test_config` and `get_config_section` do.
An option is a member of a class: `port` stands for every number with a range,
`count` for every one with a ceiling, `host` is private or public, an output is
none, a file, or misnamed (with a suffix it may not have). `Valid` is what
`validate_test_config` accepts; `Invalid` ends the command otherwise. `exit` is the
code that `main` returns, by the exception each step raises. `compare` then reads
`candidate`, which is what this run wrote, or what an earlier one left, or
nothing, and a baseline.

In the measured phase a coroutine asks the limiter (`Pace`), and its packet is
answered after one of `Rtts` or not at all (`Answer`, `Timeout`); how an echo and
a timer race is `BlitzClient`, and so are the semaphore and the cancellation.
`TokenBucket` keeps time in ticks and tokens in the ticks that earn them, so that
any rate of one token per whole number of ticks is exact; one round of the loop
in `acquire` is one action, as it awaits nowhere but in its sleep. `grants` is a
history variable.

Bucket `b` of a histogram stands for `2^(b/3)`; `Statistics` keeps latencies as
cubes, `2^b`, and compares limits with them as cubes, and rates as fractions, so
that no float is needed. Of the statistics only those are kept that a limit of
both kinds can be put on; mean, p999, jitter and packets per second follow the
same pattern. Left out: the rounding of written figures to three decimals, the
warm-up's own limiter (`LoadPath` has it), the order in which options are checked among themselves,
and cancellation other than by an interrupt.

### BatchCommand

`batch` runs its targets one after the other, so that one target's run is one step
(`TargetEnds`, `TargetFails`); what happens inside it is `TestCommand`. What the
module keeps is the control around it: which steps are inside the
`try` of `run_batch_tests` and which are not. A run that raises, an unwritable
metrics file and a failing report are logged and the next target follows (`Skip`),
with the statistics already in `results` when the failure comes after the run
(`SaveFails`, `ReportFails`). An entry whose values are refused raises outside the
`try` and ends the whole command (`Prepare`). `--output` is opened in place, and
cut off before it is filled (`OpenOutput`, `Dump`). The exit code counts neither
failures nor losses nor the SLA, only whether some run ended (`ConcludeBatch`).

`TargetConfig` stacks the layers as `execute_batch` and `run_batch_tests` do: the
entry over the file's `test` and `defaults` over `--config`'s, with
`--authorized-target` written into the two sections `test` and therefore *below*
an entry's own `authorized_target`. `written` says which target's statistics
a metrics file holds; targets without a file of their own name the same one.
`Validated` is what `validate-config` asks of a file, section by section and entry
by entry, before anything is merged: the schema has the ranges of numbers
for all of them, but the suffixes of outputs are looked at only in the two
sections, merged with each other. An entry that itself names an output with a wrong suffix
is therefore accepted, and refused at its turn (`Prepare`), unless `--pdf-dir`
replaces its name (`Reports`). Each request of the run is either a `test`
with `compare` after it or a `batch`; `BatchNext` dispatches as `main` does.

## Runs

| run | instance | shows |
|---|---|---|
| `BlitzClient_main` | 2 measured and 1 warm-up sequence, concurrency 2, 1 retry, 1 duplicated datagram | type, registration, retries, completeness of the report, the causes of the counters, finality, refinement of `ProbeRun`, termination |
| `BlitzClient_cap` | 2 + 2 sequences, concurrency 1, `_completed` cleared at its second entry, 1 malformed datagram | the phases stay apart; clearing `_completed` records nothing twice |
| `LoadPath_limit` | 3 sources, table of 2, a token every second tick, burst of 2.5, 8 ticks, 4 datagrams; nobody tests, or source 1 does with a warm-up of 2, one token of burst per limiter and a delay of at most 1 | bounded table, last-resort eviction, cleanup, rate, refinement of `RateLimiter`; a test at the server's rate is never refused |
| `EchoServer_ttl` | 1 source, TTL shorter than a refill | **violated**: the rate is not a maximum |
| `MonitorLoop_main` | 2 targets, overlapping files, 1 edit | type, views agree, history limit, refinement of `TargetBoard` |
| `MonitorLoop_edits` | 2 targets that replace each other, 2 edits, with and without `--no-reload` | health, wake-ups, SIGHUP, edits and shutdown are answered |
| `MonitorLoop_partial` | a file whose last setting is refused | **violated**: a rejected reload keeps its first settings |
| `MonitorLoop_sighup` | `--no-reload` | **violated**: SIGHUP is not ignored |
| `MonitorLoop_overflow` | a file with an infinite number | **violated**: a reload ends the monitor |
| `AtomicWrite_crash` | 2 writers, 3 documents, 3 attempts, 2 crashes, both kinds | whole files, acknowledged documents survive, temporary files are left only as said above, every write ends |
| `TestCommand_gate` | 11 kinds of request of `test` and 11 of `batch`, with up to 4 targets, 2 addresses, 2 packets with 1 retry, an interval of 2 ticks and a burst of 3, round trips of 1 and 5 ticks | type, rate, endpoints, percentiles, correction, what exit code 0 means for either command, permission of every target, what can stop a command on validated files, both commands end |
| `TestCommand_validate` | the same | **violated**: a batch refuses an entry of a validated file |

Why the bounds are enough. Client: two measured sequences are the least that
compete for a semaphore and share counters; one retry gives an attempt a
predecessor whose echo is late; one duplication and unlimited loss and
reordering give each counter its cause. The invariants are proved for any
number. Server: three sources are one more than the table holds; eight ticks
contain a TTL, a cleanup and a return after both, four datagrams an exhausted
burst, an eviction and a return, or the two bursts of a test and one datagram of
another source. Monitor: two targets can be kept, added and
removed by one edit, two edits remove a target and bring it back; ages are
capped one above the staleness limit. Files: two writers can interleave at each
step, a third document can follow a crash, and a second crash finds what the
first left. Command: two addresses are a first that fails and a last that does
or not; two packets compete for a token, and with a retry each ask for up to
four; after `MaxTime`, 4, time passes only while somebody sleeps, which is enough
for an idle bucket to reach its burst of 3; a round trip of 5 holds up one packet
at an interval of 2, and 1 none. Batch: four targets are one that is denied, one
that the flag permits and two that share or do not share a metrics file with
their siblings; each step of each may fail. A public host is named by an entry, or
by a section of either file and permitted or denied by another; a misnamed output
by a section, which validation refuses, or by an entry, which it does not. The rate, the endpoints, the
permissions and the accounts of a batch are proved for any of these numbers.

### The violated runs

Each states what a text of the repository says and shows that the code does
otherwise; PROJECT.json quotes the lines.

* `RateIsMaximum`: see `--rate-limit` in `cli.py:108` and the TTL in
  `udp_server.py:94`.
* `RejectionKeepsSettings`: `apply_reloadable_monitor_settings` assigns while it
  checks (`monitor.py:128`), against `docs/CONFIGURATION.md:94`.
* `SighupIgnored`: `reload_now` is cleared only where a reload happens
  (`monitor.py:554`), so with `--no-reload` (`cli.py:133`) one SIGHUP removes the
  interval between all later cycles.
* `ReloadSurvives`: `OverflowError` is not among the exceptions a reload handles
  (`monitor.py:184`).
* `RuntimeValidation`: `validate-config` calls `validate_test_config` for the
  sections of a file and not for its targets (`config.py:297`), against
  `docs/CONFIGURATION.md:64`. An entry with `metrics_output: out.txt` passes and
  then ends the batch with code 3, after the targets before it have run, since
  `monitor.py:299` is outside the `try`. `ValidatedFilesRun` is what does hold:
  this is the only way in which a batch fails so on validated files.

An edit between the first reading of the targets file and of its modification
time (`monitor.py:468`, 473) is never read either; `EditsAreRead` is stated for
edits after the startup, which is what `docs/QUICKSTART.md:40` speaks of.

### Fairness

* Client: weak fairness of every coroutine and of `run_test`. The event loop
  runs what is ready, the limiter grants a token in bounded time and timers
  fire. None of the network: everything may be lost. None of a cancellation.
* Command: weak fairness of the steps of either command (a target's run ends as a
  test does, or raises), of time while a coroutine
  sleeps, and of every coroutine: an attempt is answered or times out. None of an
  interrupt or of `compare`.
* Monitor: weak fairness of the loop: tests end because the client terminates,
  and the interval passes. None of signals, edits or the passing of time.
* Files: weak fairness of each write: system calls return and sleeps end. None
  of `Begin`: a writer need not write again.

## Proofs

All theorems are about the specification of their module for any value of the
constants that satisfies the named assumptions of the modules, which only say
what configuration validation guarantees (a positive count, concurrency, table
size, TTL and so on) and that bounds are numbers.

* `BlitzClientProofs`: the registration of a sequence depends on where its
  coroutine stands, its answer on what its future holds, what is completed on
  what was answered. `IInv` is their conjunction with the type; it is proved
  action by action and gives every safety property of `BlitzClient_main` and the
  safety part of the refinement of `ProbeRun`. `RetriesAgree` is stated as the
  cardinality of the packets sent again (`Resent`), each a pair of a sequence and
  an attempt, in place of a sum over the sequences: a coroutine that returns adds
  the pairs of its own.
* `EchoServerProofs`: type and table bound are inductive together. That the
  evicted entry is the least one needs a minimum of the order of `last` and
  host, which `VictimIsLeast` gets from well-foundedness on finite sets. The rate
  is proved through an account per source: what was admitted since its last
  eviction and what is left in the bucket are together at most the burst plus
  the gain since; expiry and cleanup keep the account because a TTL refills a
  bucket (`RefillsWithinTTL`, the hypothesis of the refinement of `RateLimiter`).
* `AtomicWriteProofs`: `IInv` says that working writers own different documents,
  that no rank is above the number of renames (so that a rename outranks all
  before it), that the disk shows nothing older than an acknowledged document
  and the directory nothing older than the disk, and that what can be shown has
  been flushed first. `DirectoryStaysClean` proves `NoTempLeft` with its exceptions:
  a temporary file without a writer was left by a crash, by a failed unlink, or,
  of `_atomic_write_text` only, by an exception other than an `OSError`.
* `TokenBucketProofs`: about `BucketSpec`, the limiter with any callers. Its
  `IInv` keeps two accounts, `WindowPaid` (from any grant on, what was granted and
  what is left is at most the burst and what was earned since) and `AllPaid` (the
  same since the start, without the burst). `RateHeld` alone is not inductive: it
  says nothing of the tokens that are left.
* `LoadPathProofs`: every behaviour of `LoadPath` is one of `EchoServer`, as each of
  its steps is a datagram, a tick or nothing to the server, and nothing is under
  way when nobody tests. What `EchoServerProofs` shows of all loads is thereby
  shown under a test. `PacedNeverRefused` follows from an account across the two
  components: `FlightPaid` (what was sent since a packet that is still under way,
  and what the limiter has left, is at most its burst and what was earned since),
  from which a full bucket of the server always has room, and `Covers` (the server
  has at least `Owed`: what it needs for the packets under way, for what the
  limiter in use has left and, before the warm-up ends, for the full one to come).
  `PacedNeverRefused` alone says nothing of the packets after the next one. An
  entry that expires or is evicted leaves the tester a full bucket, which only
  adds to what is available.
* `MonitorLoopProofs`: about `Spec` of the monitor, without fairness. `IInv` adds to the
  type that nothing of a cycle is left outside of it (`BetweenCycles`), that the
  three tables have the same targets and say the same of each (`Views`), that the
  state of a target tells its last verdict, except that of a target already
  tested in this cycle, whose verdict waits in `results` or `failures` (`Verdicts`),
  and `NoLostWakeup`. `HealthHonest` follows from `Verdicts`, which relates the
  tables to what really happened to each target. `HistoryWithinLimit` and the
  refinement of `TargetBoard` are step by step consequences of `IInv`.
* `BatchCommandProofs`: about `BatchSpec`, thus both commands. Options are proved
  once, for any layers: what is merged of layers has every option, each of its
  kind, and a permission or a wrong value in the result comes from one of them
  (`PermitsOver`, `WrongOver`). `TargetPermitted` and `WrongTarget` say from which,
  for the merged configuration of a target, whichever layer its host or its output
  comes from; `ValidatedSections` that no section of a validated file is one. The
  invariant then says which configuration is
  in force at each `pc` (`Sources`), which endpoints are open (`Opened`), that who
  was reached was safe (`Reached`), why a command ended with code 3 (`Explained`),
  and, for a batch, how far it has come: `results` in the order of the file, every
  earlier target in it or in `failed`, and each metrics file the statistics of a
  run that ended, of the target itself or of a later one (`Accounts`). `IInv` of
  `TokenBucketProofs` is carried along, as every step of either command is one of
  `BucketNext`, leaves the limiter alone, or creates it anew; hence `RateHeldInRun`.
  `TestUnchanged` shows that nothing was taken from `test` by adding `batch`: without
  targets every behaviour of `BatchSpec` is one of `TestCommand`.
* `RecorderProofs`: first about the operators of `Statistics`: a bounded set of
  numbers has a largest one (from the well-foundedness of the naturals, so that no
  induction is needed), hence `_bucket_for` is defined, is monotone, and what
  `record_corrected` adds for a slow packet lies in the buckets from that of the
  interval to that of the packet. `GapsStay` is the step: recording one more round
  trip in both histograms keeps `CorrectionFillsGaps`. `Recording` adds that both
  are empty until the interval is fixed. `Addressed`, `Packets` (a packet still to
  be sent has an attempt left) and `Codes` then give the types of both commands.

  Then what the figures mean. `Total` and `Cumulative` are folds over a histogram;
  `CumulativeCounts` shows that a fold counts a set of numbered samples
  (`Samples`), so that sums become cardinalities, and needs for it only that there
  is no smallest set that fails (`NoSmallest`), which replaces an induction. `Tally`
  is the invariant of a histogram (bucket `b` counts the round trips recorded in
  it) and `Counted` says it of the run: as many as were answered, none before the
  measured phase. From it follow the order statistics: every rank has a
  value (`OrderStatistic`), the buckets are monotone in it, hence
  `PercentilesRanked`. `PowType` and `PowDouble` give what is needed of `2^n`, from
  which `PercentilesAccurate` bounds the error: a percentile never exceeds the
  latency it stands for, which is longer by 26 percent at most, unless it is
  beyond the last bucket. `ReportsCohere` says that the packets of a report add
  up and its percentiles are in order.

  `Reported`, `Verdicts` and `Judged` carry the report to the end: its figures are
  those of the run while the SLA is evaluated, and `failures` is what they fail.
  `SlaVerdictsExact` compares the verdict with the packets and round trips
  themselves, in both directions: a limit fails exactly when it is not met,
  to the width of a bucket. `GreenKept` combines this with what `BatchCommandProofs`
  shows of a batch.

  Last, the seam between the two models of a run. `TestCommand` takes the end of an
  attempt as given, where `BlitzClient` has packets, futures and timers.
  `CommandImplementsProbeRun` shows that the command, too, is a `ProbeRun`: a packet
  is open from its first sending, a retry changes nothing, a report comes after
  the last verdict, an interrupt before it stops the run (one after it counts
  as reported). Both models thus agree on what a run
  is to those outside of it. `Waiting` is the invariant it needs. The client's limit on open
  probes is its semaphore, the command's only the number of packets.

The assumptions on `Requests` are what reading the files guarantees:
`RequestsAssumption` that each layer has options of their own kind, and
`LimitsAssumption` that an SLA has the limits `load_sla` knows (`sla.py:26-33`), as
numbers, of any sign. `SlaExact` therefore leaves out a negative limit on the latencies of a
run without a single answer, for which the code reports 0 and every limit below
it fails. `max_co_p99_us` limits a figure that no round trip has to show; what its
histogram holds is `CorrectionAddsGaps`.

Only model-checked: all liveness properties (`Termination`, `SighupLoads`,
`EditsAreRead`, `StopsWhenAsked`, `WriteEnds`, `CommandEnds` and the fairness part of
`ImplementsProbeRun`), which are out of the prover's reach. Every invariant and
every action property of the passing runs is proved. The five violated claims
are checked and not proved.

## Plan

1. done: `BlitzClient`, `EchoServer`, `MonitorLoop`, `AtomicWrite` with their
   abstract specifications, `TokenBucket`, `Statistics`, `TestCommand`, and their
   proofs; `MonitorLoopProofs`.
2. done: `LoadPath`, the composition of client, network and server, and
   `LoadPathProofs`, with `PacedNeverRefused` for every value of the constants.
3. done: `BatchCommand` with the combined output file and `validate-config`, and
   `BatchCommandProofs`, which also covers the endpoints of `TestCommand` and
   carries `RateHeld` over from `TokenBucketProofs`.
4. done: `RecorderProofs`, the correction, the types of both commands, what the
   percentiles and the verdicts of the SLA mean, and `GreenMeansAsked` for both.
   Left: the verdicts of `compare` over the fractions of two files, and a
   specification of `AtomicWrite` as a register that it implements.
5. The `server` and `monitor` sections of `validate-config`, with the exit codes of
   these two commands.
6. `MonitorHTTP`: requests between the steps of a cycle, if a property is found
   that relates two endpoints; each handler reads without an await, so that one
   request alone sees what `ViewsAgree` says.

## Not modelled

Formatting (all of Prometheus but `target_up`, tables, PDF), argument parsing
beyond what is refused, logging, progress lines, the byte layout of a packet,
sockets' buffer sizes, TLS and the bearer token comparison, HTTP routing, resolver
behaviour, and float rounding. None of them changes the state the models keep.
The time a packet was scheduled for (`_next_scheduled_ns`) is written into the
packet and read by nobody. `version`, `init-config` and `validate-sla` print or
write one fixed text. A limiter that is off (`rate_limit = 0`) leaves the server
without state.
