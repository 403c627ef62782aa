----------------------------- MODULE BlitzClient -----------------------------
(***************************************************************************)
(* One measurement of the UDP client, neural_blitz/udp_client.py: the      *)
(* warm-up and the measured phase of run_test, the send_one coroutine of   *)
(* every sequence number, and the BlitzClientProtocol they share, over a   *)
(* network that loses, duplicates, delays and reorders datagrams.          *)
(*                                                                         *)
(* asyncio runs one callback or one coroutine segment at a time, so an     *)
(* action is the code between two awaits.  Time is abstract: a timer may   *)
(* fire whenever its task waits.  The echo server returns each datagram    *)
(* unchanged, so a request and its echo are one datagram in transit, named *)
(* by its sequence number and by the attempt that sent it; the attempt     *)
(* stands for the send_ns the header carries, from which the round trip    *)
(* time is computed.                                                       *)
(***************************************************************************)
EXTENDS Integers, FiniteSets

CONSTANTS
    Count,          \* config.count: measured sequence numbers 0 .. Count-1
    Warmup,         \* config.warmup: sequence numbers Count .. Count+Warmup-1
    Concurrency,    \* config.concurrency: the semaphore of the measured phase
    MaxRetries,     \* config.max_retries: retries of a measured sequence
    CompletedCap,   \* 131_072 in the code: above it _completed is cleared
    MaxCopies,      \* bound: datagrams the network may duplicate
    MaxMalformed    \* bound: datagrams that fail to parse

ASSUME CountAssumption == Count \in Nat \ {0}
ASSUME WarmupAssumption == Warmup \in Nat
ASSUME ConcurrencyAssumption == Concurrency \in Nat \ {0}
ASSUME MaxRetriesAssumption == MaxRetries \in Nat
ASSUME CompletedCapAssumption == CompletedCap \in Nat \ {0}
ASSUME BoundsAssumption == MaxCopies \in Nat /\ MaxMalformed \in Nat

Measured == 0 .. Count - 1
Warm == Count .. Count + Warmup - 1
Seqs == 0 .. Count + Warmup - 1
Attempts == 1 .. MaxRetries + 1

VARIABLES
    phase,       \* where run_test stands
    pc,          \* per sequence number: where its coroutine stands
    attempt,     \* per sequence number: packets sent so far
    inflight,    \* protocol._inflight: the state of the future registered
    answer,      \* the attempt whose echo resolved that future, else 0
    sample,      \* what send_one returned: the attempt measured, 0 for None
    completed,   \* protocol._completed
    duplicate,   \* protocol.count_duplicate
    outOfOrder,  \* protocol.count_out_of_order
    malformed,   \* protocol.count_malformed
    recorded,    \* recorder.count
    retried,     \* total_retries
    net,         \* copies in transit of each attempt's datagram
    copies       \* datagrams the network has duplicated so far

run == <<phase, pc, attempt, sample, recorded, retried>>
counters == <<duplicate, outOfOrder, malformed>>
network == <<net, copies>>
vars == <<phase, pc, attempt, inflight, answer, sample, completed, duplicate,
          outOfOrder, malformed, recorded, retried, net, copies>>

\* send_one between the semaphore and its return: waiting for the limiter
\* ("acquire") or for an echo or the timer ("await").
Active(s) == pc[s] \in {"acquire", "await"}
\* The coroutine of s exists and has not returned.
Live(s) == pc[s] = "queued" \/ Active(s)
Running == phase \in {"warmup", "measure"}
\* transport.close() has not run: the loop still hands datagrams over.
Open == phase \notin {"reported", "aborted"}

\* Operators named Faulty... are seeded faults: the mutation runs put each in
\* the place of the definition it precedes.
FaultyLimit == Concurrency + 1

\* The semaphore of the current phase.
Limit == IF phase = "warmup" /\ Warmup < Concurrency THEN Warmup ELSE Concurrency
FaultyRetriesOneMore(s) == MaxRetries + 1
FaultyRetriesNone(s) == 0

\* Warm-up packets are never retried.
Retries(s) == IF s \in Warm THEN 0 ELSE MaxRetries

Init ==
    /\ phase = IF Warmup > 0 THEN "warmup" ELSE "measure"
    /\ pc = [s \in Seqs |-> IF s \in Measured /\ Warmup > 0 THEN "absent" ELSE "queued"]
    /\ attempt = [s \in Seqs |-> 0]
    /\ inflight = [s \in Seqs |-> "none"]
    /\ answer = [s \in Seqs |-> 0]
    /\ sample = [s \in Seqs |-> 0]
    /\ completed = {}
    /\ duplicate = 0 /\ outOfOrder = 0 /\ malformed = 0
    /\ recorded = 0 /\ retried = 0
    /\ net = [s \in Seqs |-> [a \in Attempts |-> 0]]
    /\ copies = 0

-----------------------------------------------------------------------------
(* The coroutines *)

\* async with sem: asyncio serves its waiters first come first served, and
\* gather() creates them in the order of their sequence numbers.
Start(s) ==
    /\ Running
    /\ pc[s] = "queued"
    /\ \A t \in Seqs : pc[t] = "queued" => s <= t
    /\ Cardinality({t \in Seqs : Active(t)}) < Limit
    /\ pc' = [pc EXCEPT ![s] = "acquire"]
    /\ UNCHANGED <<phase, attempt, inflight, answer, sample, completed,
                   counters, recorded, retried, network>>

\* The limiter returns: a new future is registered and the packet is sent.
Send(s) ==
    /\ Running
    /\ pc[s] = "acquire"
    /\ pc' = [pc EXCEPT ![s] = "await"]
    /\ attempt' = [attempt EXCEPT ![s] = @ + 1]
    /\ inflight' = [inflight EXCEPT ![s] = "pending"]
    /\ answer' = [answer EXCEPT ![s] = 0]
    /\ net' = [net EXCEPT ![s][attempt[s] + 1] = 1]
    /\ UNCHANGED <<phase, sample, completed, counters, recorded, retried, copies>>

FaultyUnregister(s) == UNCHANGED <<inflight, answer>>

\* protocol.unregister(s), on every path out of the try statement.
Unregister(s) ==
    /\ inflight' = [inflight EXCEPT ![s] = "none"]
    /\ answer' = [answer EXCEPT ![s] = 0]

FaultyFinishWarmup(s, r) ==
    /\ pc' = [pc EXCEPT ![s] = "done"]
    /\ sample' = [sample EXCEPT ![s] = r]
    /\ recorded' = IF r # 0 THEN recorded + 1 ELSE recorded
    /\ retried' = IF s \in Measured THEN retried + attempt[s] - 1 ELSE retried

FaultyFinishAttempts(s, r) ==
    /\ pc' = [pc EXCEPT ![s] = "done"]
    /\ sample' = [sample EXCEPT ![s] = r]
    /\ recorded' = IF s \in Measured /\ r # 0 THEN recorded + 1 ELSE recorded
    /\ retried' = IF s \in Measured THEN retried + attempt[s] ELSE retried

\* send_one returns r (0 for None) and, in the measured phase, bounded()
\* adds the retries and records the round trip time if there is one.
Finish(s, r) ==
    /\ pc' = [pc EXCEPT ![s] = "done"]
    /\ sample' = [sample EXCEPT ![s] = r]
    /\ recorded' = IF s \in Measured /\ r # 0 THEN recorded + 1 ELSE recorded
    /\ retried' = IF s \in Measured THEN retried + attempt[s] - 1 ELSE retried

\* wait_for hands over the result of the future.  It may still do so after the
\* run is cancelled: up to Python 3.11 wait_for then prefers a result.
Resume(s) ==
    /\ Open
    /\ pc[s] = "await"
    /\ inflight[s] = "resolved"
    /\ Finish(s, answer[s])
    /\ Unregister(s)
    /\ UNCHANGED <<phase, attempt, completed, counters, network>>

\* The timer of wait_for fires.  The shielded future may already hold a result
\* that has not reached the coroutine: TimeoutError is raised all the same.
TimeoutRetry(s) ==
    /\ Running
    /\ pc[s] = "await"
    /\ attempt[s] <= Retries(s)
    /\ pc' = [pc EXCEPT ![s] = "acquire"]
    /\ Unregister(s)
    /\ UNCHANGED <<phase, attempt, sample, completed, counters, recorded,
                   retried, network>>

FaultyTimeoutGiveUp(s) ==
    /\ Running /\ pc[s] = "await" /\ attempt[s] > Retries(s)
    /\ inflight[s] = "resolved"
    /\ Finish(s, 0) /\ Unregister(s)
    /\ UNCHANGED <<phase, attempt, completed, counters, network>>

TimeoutGiveUp(s) ==
    /\ Running
    /\ pc[s] = "await"
    /\ attempt[s] > Retries(s)
    /\ Finish(s, 0)
    /\ Unregister(s)
    /\ UNCHANGED <<phase, attempt, completed, counters, network>>

\* CancelledError reaches the coroutine, wherever it is suspended.
CancelTask(s) ==
    /\ phase = "cancelling"
    /\ Live(s)
    /\ pc' = [pc EXCEPT ![s] = "cancelled"]
    /\ Unregister(s)
    /\ UNCHANGED <<phase, attempt, sample, completed, counters, recorded,
                   retried, network>>

-----------------------------------------------------------------------------
(* run_test *)

\* The warm-up gather() returns; the measured coroutines are created.
EndWarmup ==
    /\ phase = "warmup"
    /\ \A s \in Warm : pc[s] = "done"
    /\ phase' = "measure"
    /\ pc' = [s \in Seqs |-> IF s \in Measured THEN "queued" ELSE pc[s]]
    /\ UNCHANGED <<attempt, inflight, answer, sample, completed, counters,
                   recorded, retried, network>>

\* transport.close(), then connection_lost: what is registered is dropped.
ConnectionLost ==
    /\ inflight' = [s \in Seqs |-> "none"]
    /\ answer' = [s \in Seqs |-> 0]

FaultyReport ==
    /\ phase = "measure"
    /\ \E s \in Measured : pc[s] = "done"
    /\ phase' = "reported"
    /\ ConnectionLost
    /\ UNCHANGED <<pc, attempt, sample, completed, counters, recorded, retried,
                   network>>

\* The measured gather() returns, the transport is closed, stats are computed.
Report ==
    /\ phase = "measure"
    /\ \A s \in Measured : pc[s] = "done"
    /\ phase' = "reported"
    /\ ConnectionLost
    /\ UNCHANGED <<pc, attempt, sample, completed, counters, recorded, retried,
                   network>>

\* The task that runs run_test is cancelled (Ctrl+C): gather() cancels every
\* coroutine it waits for and ends when the last of them has ended.
Cancel ==
    /\ Running
    /\ phase' = "cancelling"
    /\ UNCHANGED <<pc, attempt, inflight, answer, sample, completed, counters,
                   recorded, retried, network>>

Abort ==
    /\ phase = "cancelling"
    /\ \A s \in Seqs : ~Live(s)
    /\ phase' = "aborted"
    /\ ConnectionLost
    /\ UNCHANGED <<pc, attempt, sample, completed, counters, recorded, retried,
                   network>>

-----------------------------------------------------------------------------
(* BlitzClientProtocol.datagram_received *)

Take(s, a) ==
    /\ Open
    /\ net[s][a] > 0
    /\ net' = [net EXCEPT ![s][a] = @ - 1]

DeliverDuplicate(s, a) ==
    /\ Take(s, a)
    /\ s \in completed
    /\ duplicate' = duplicate + 1
    /\ UNCHANGED <<run, inflight, answer, completed, outOfOrder, malformed, copies>>

DeliverOutOfOrder(s, a) ==
    /\ Take(s, a)
    /\ s \notin completed
    /\ inflight[s] # "pending"
    /\ outOfOrder' = outOfOrder + 1
    /\ UNCHANGED <<run, inflight, answer, completed, duplicate, malformed, copies>>

FaultyCompletePending(s) == completed \union {t \in Seqs : inflight[t] = "pending"}

\* _completed after one more sequence number: emptied above its cap.
Complete(s) ==
    LET more == completed \union {s}
    IN  IF Cardinality(more) > CompletedCap THEN {} ELSE more

FaultyDeliverAnswer(s, a) ==
    /\ Take(s, a)
    /\ s \notin completed
    /\ completed' = Complete(s)
    /\ inflight' = [inflight EXCEPT ![s] = "resolved"]
    /\ answer' = [answer EXCEPT ![s] = a]
    /\ UNCHANGED <<run, counters, copies>>

DeliverAnswer(s, a) ==
    /\ Take(s, a)
    /\ s \notin completed
    /\ inflight[s] = "pending"
    /\ completed' = Complete(s)
    /\ inflight' = [inflight EXCEPT ![s] = "resolved"]
    /\ answer' = [answer EXCEPT ![s] = a]
    /\ UNCHANGED <<run, counters, copies>>

DeliverMalformed ==
    /\ Open
    /\ malformed < MaxMalformed
    /\ malformed' = malformed + 1
    /\ UNCHANGED <<run, inflight, answer, completed, duplicate, outOfOrder, network>>

-----------------------------------------------------------------------------
(* The network and the echo server behind it *)

Lose(s, a) ==
    /\ Take(s, a)
    /\ UNCHANGED <<run, inflight, answer, completed, counters, copies>>

Duplicate(s, a) ==
    /\ Open
    /\ net[s][a] > 0
    /\ copies < MaxCopies
    /\ net' = [net EXCEPT ![s][a] = @ + 1]
    /\ copies' = copies + 1
    /\ UNCHANGED <<run, inflight, answer, completed, counters>>

-----------------------------------------------------------------------------

Coroutine(s) ==
    Start(s) \/ Send(s) \/ Resume(s) \/ TimeoutRetry(s) \/ TimeoutGiveUp(s)
        \/ CancelTask(s)

RunTest == EndWarmup \/ Report \/ Abort

Deliver(s, a) ==
    DeliverDuplicate(s, a) \/ DeliverOutOfOrder(s, a) \/ DeliverAnswer(s, a)

Terminated == ~Open /\ UNCHANGED vars

Next ==
    \/ \E s \in Seqs : Coroutine(s)
    \/ RunTest
    \/ Cancel
    \/ \E s \in Seqs, a \in Attempts : Deliver(s, a) \/ Lose(s, a) \/ Duplicate(s, a)
    \/ DeliverMalformed
    \/ Terminated

\* The event loop runs every ready coroutine: the limiter grants a token in
\* bounded time, a timer fires, a resolved future wakes its waiter.  Nothing is
\* assumed of the network, and nothing makes a cancellation happen.
Fairness ==
    /\ \A s \in Seqs : WF_vars(Coroutine(s))
    /\ WF_vars(RunTest)

Spec == Init /\ [][Next]_vars /\ Fairness

-----------------------------------------------------------------------------
(* Properties *)

TypeOK ==
    /\ phase \in {"warmup", "measure", "cancelling", "reported", "aborted"}
    /\ pc \in [Seqs -> {"absent", "queued", "acquire", "await", "done", "cancelled"}]
    /\ attempt \in [Seqs -> 0 .. MaxRetries + 1]
    /\ inflight \in [Seqs -> {"none", "pending", "resolved"}]
    /\ answer \in [Seqs -> 0 .. MaxRetries + 1]
    /\ sample \in [Seqs -> 0 .. MaxRetries + 1]
    /\ completed \in SUBSET Seqs
    /\ duplicate \in Nat /\ outOfOrder \in Nat /\ malformed \in Nat
    /\ recorded \in Nat /\ retried \in Nat
    /\ net \in [Seqs -> [Attempts -> Nat]]
    /\ copies \in Nat

(* A sequence number is registered with the protocol exactly while its
   coroutine waits for an echo: every return, retry, timeout and cancellation
   of send_one leaves _inflight without it, so nothing leaks and no late echo
   finds the future of a finished sequence. *)
InflightIffAwaiting ==
    \A s \in Seqs : inflight[s] # "none" <=> pc[s] = "await"

(* No more coroutines are past the semaphore than config.concurrency allows,
   and none of them is of the warm-up once the measured phase has begun (nor
   the other way round): the two gather() calls never overlap. *)
PhasesApart ==
    /\ Cardinality({s \in Seqs : Active(s)}) <= Concurrency
    /\ phase = "warmup" => \A s \in Measured : pc[s] = "absent"
    /\ phase \in {"measure", "reported"} => \A s \in Warm : pc[s] = "done"

\* Measured sequences for which send_one returned a round trip time.
Answered == {s \in Measured : sample[s] # 0}

(* The recorder has counted each measured sequence that was answered once, and
   nothing else: no warm-up packet, no late or duplicated echo, no sequence
   that timed out or was cancelled.  With count_lost = count_sent - count, sent
   is then received plus lost. *)
RecordedOnce == recorded = Cardinality(Answered)

\* The packets sent after the first, of the measured sequences that returned.
Resent == {p \in Measured \X Attempts : pc[p[1]] = "done" /\ p[2] \in 2 .. attempt[p[1]]}

(* total_retries of the report counts these packets, each once: the coroutines
   add to the shared counter in any order, and a cancelled one adds nothing. *)
RetriesAgree == retried = Cardinality(Resent)

(* A reported run has given every measured sequence its verdict. *)
ReportComplete ==
    phase = "reported" =>
        \A s \in Measured : pc[s] = "done" /\ (sample[s] = 0 => attempt[s] = MaxRetries + 1)

\* The timer of some attempt of s fired, or its coroutine was cancelled.
Withdrawn(s) ==
    \/ attempt[s] > 1
    \/ attempt[s] = 1 /\ pc[s] = "acquire"
    \/ pc[s] = "done" /\ sample[s] = 0
    \/ pc[s] = "cancelled"

(* Echoes are counted out of order only after a timeout or a cancellation, as
   long as _completed is not cleared: an echo that finds its sequence waiting is
   an answer and any later one a duplicate, however they are reordered. *)
OutOfOrderNeedsTimeout ==
    outOfOrder > 0 =>
        \/ \E s \in Seqs : Withdrawn(s)
        \/ Count + Warmup > CompletedCap

(* Echoes are counted as duplicates only if the network duplicated a datagram or
   a sequence was sent again. *)
DuplicateNeedsCopy ==
    duplicate > 0 => copies > 0 \/ \E s \in Seqs : attempt[s] > 1

(* The two counters of the report that tell about the network have such causes. *)
CountersHaveCauses == OutOfOrderNeedsTimeout /\ DuplicateNeedsCopy

(* Once send_one has returned, nothing that still arrives changes its result. *)
DoneIsFinal ==
    [][\A s \in Seqs : pc[s] = "done" =>
          pc'[s] = "done" /\ sample'[s] = sample[s] /\ attempt'[s] = attempt[s]
              /\ inflight'[s] = "none"]_vars

(* Whatever the network loses, the run ends: every coroutine returns or is
   cancelled, and run_test reports or raises. *)
Termination == <>(phase \in {"reported", "aborted"})

\* The verdict a measured sequence stands for, in the terms of ProbeRun.
Verdict(s) ==
    CASE pc[s] \in {"absent", "queued"} -> "todo"
      [] Active(s) -> "open"
      [] pc[s] = "cancelled" -> "dropped"
      [] pc[s] = "done" /\ sample[s] # 0 -> "received"
      [] OTHER -> "lost"

Status == [s \in Measured |-> Verdict(s)]
Stage ==
    CASE Running -> "running"
      [] phase = "cancelling" -> "stopping"
      [] OTHER -> phase

Probe == INSTANCE ProbeRun WITH Probes <- Measured, status <- Status, stage <- Stage

(* The client is a probe run: packets, echoes, retries and the warm-up only
   refine the verdict each measured sequence gets once. *)
ImplementsProbeRun == Probe!ProbeSpec
=============================================================================
