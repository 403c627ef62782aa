-------------------------- MODULE BlitzClientProofs --------------------------
(***************************************************************************)
(* Theorems about BlitzClient, for every count, warm-up, concurrency,      *)
(* retry limit, cap of _completed and network bound.                       *)
(***************************************************************************)
EXTENDS BlitzClient, FiniteSetTheorems, TLAPS

USE CountAssumption, WarmupAssumption, ConcurrencyAssumption,
    MaxRetriesAssumption, CompletedCapAssumption, BoundsAssumption

(* Where a coroutine stands bounds the packets it has sent, and an echo that
   resolved a future, or is in transit, belongs to a packet that was sent. *)
AttemptInv(s) ==
    /\ pc[s] \in {"absent", "queued"} => attempt[s] = 0
    /\ pc[s] = "acquire" => attempt[s] <= Retries(s)
    /\ pc[s] = "await" => attempt[s] \in 1 .. Retries(s) + 1
    /\ pc[s] = "done" => attempt[s] \in 1 .. Retries(s) + 1
    /\ pc[s] = "done" /\ sample[s] = 0 => attempt[s] = Retries(s) + 1
    /\ sample[s] # 0 => pc[s] = "done" /\ sample[s] <= attempt[s]
    /\ inflight[s] = "resolved" => answer[s] \in 1 .. attempt[s]
    /\ \A a \in Attempts : net[s][a] > 0 => a <= attempt[s]

AttemptsInv == \A s \in Seqs : AttemptInv(s)

LEMMA RetriesType == \A s \in Seqs : Retries(s) \in 0 .. MaxRetries
BY DEF Retries

LEMMA SeqsSplit == Seqs = Measured \union Warm /\ Measured \intersect Warm = {}
BY DEF Seqs, Measured, Warm

LEMMA SeqsFinite == IsFiniteSet(Seqs) /\ IsFiniteSet(Measured)
BY FS_Interval DEF Seqs, Measured

(* Returning from send_one keeps the types of what it writes. *)
LEMMA FinishType ==
    ASSUME TypeOK, NEW s \in Seqs, attempt[s] >= 1,
           NEW r \in 0 .. MaxRetries + 1, Finish(s, r)
    PROVE  /\ pc' \in [Seqs -> {"absent", "queued", "acquire", "await", "done", "cancelled"}]
           /\ sample' \in [Seqs -> 0 .. MaxRetries + 1]
           /\ recorded' \in Nat
           /\ retried' \in Nat
<1>1. attempt[s] \in Nat
  BY DEF TypeOK
<1>2. recorded' \in Nat /\ retried' \in Nat
  BY <1>1 DEF TypeOK, Finish
<1> QED BY <1>2 DEF TypeOK, Finish

(* One copy more or less of a datagram keeps the network's type. *)
LEMMA NetType ==
    ASSUME net \in [Seqs -> [Attempts -> Nat]],
           NEW s \in Seqs, NEW a \in Attempts, NEW n \in Nat
    PROVE  [net EXCEPT ![s][a] = n] \in [Seqs -> [Attempts -> Nat]]
OBVIOUS

LEMMA TakeType ==
    ASSUME net \in [Seqs -> [Attempts -> Nat]],
           NEW s \in Seqs, NEW a \in Attempts, Take(s, a)
    PROVE  net' \in [Seqs -> [Attempts -> Nat]]
<1>1. net[s][a] \in Nat /\ net[s][a] > 0
  BY DEF Take
<1>2. net[s][a] - 1 \in Nat
  BY <1>1
<1>3. net' = [net EXCEPT ![s][a] = net[s][a] - 1]
  BY DEF Take
<1>4. QED
  BY <1>2, <1>3, NetType

(* A delivery leaves the coroutines alone: what is left to show of its types. *)
LEMMA DeliveryType ==
    ASSUME TypeOK, UNCHANGED run, net' \in [Seqs -> [Attempts -> Nat]], copies' \in Nat,
           duplicate' \in Nat, outOfOrder' \in Nat, malformed' \in Nat,
           inflight' \in [Seqs -> {"none", "pending", "resolved"}],
           answer' \in [Seqs -> 0 .. MaxRetries + 1], completed' \in SUBSET Seqs
    PROVE  TypeOK'
BY DEF TypeOK, run

(* Every variable keeps its type: in particular no attempt beyond the retry
   limit is ever made, because of where AttemptsInv lets a coroutine stand. *)
LEMMA Typing == TypeOK /\ AttemptsInv /\ [Next]_vars => TypeOK'
<1> SUFFICES ASSUME TypeOK, AttemptsInv, [Next]_vars PROVE TypeOK'
  OBVIOUS
<1> USE DEF TypeOK, Attempts, run, counters, network
<1>1. CASE UNCHANGED vars
  BY <1>1 DEF vars
<1>2. ASSUME NEW s \in Seqs, Coroutine(s) PROVE TypeOK'
  <2>1. CASE Start(s)
    BY <2>1 DEF Start
  <2>2. CASE Send(s)
    BY <2>2, RetriesType DEF Send, AttemptsInv, AttemptInv
  <2>3. CASE Resume(s)
    <3>1. attempt[s] >= 1 /\ answer[s] \in 0 .. MaxRetries + 1
      BY <2>3, RetriesType DEF Resume, AttemptsInv, AttemptInv
    <3>2. Finish(s, answer[s])
      BY <2>3 DEF Resume
    <3>3. /\ pc' \in [Seqs -> {"absent", "queued", "acquire", "await", "done", "cancelled"}]
          /\ sample' \in [Seqs -> 0 .. MaxRetries + 1]
          /\ recorded' \in Nat /\ retried' \in Nat
      <4> HIDE DEF TypeOK
      <4> QED BY <3>1, <3>2, FinishType
    <3>4. /\ inflight' \in [Seqs -> {"none", "pending", "resolved"}]
          /\ answer' \in [Seqs -> 0 .. MaxRetries + 1]
      BY <2>3 DEF Resume, Unregister
    <3>5. UNCHANGED <<phase, attempt, completed, duplicate, outOfOrder, malformed, net, copies>>
      BY <2>3 DEF Resume
    <3> QED BY <3>3, <3>4, <3>5
  <2>4. CASE TimeoutRetry(s)
    BY <2>4 DEF TimeoutRetry, Unregister
  <2>5. CASE TimeoutGiveUp(s)
    <3>1. attempt[s] >= 1 /\ 0 \in 0 .. MaxRetries + 1
      BY <2>5, RetriesType DEF TimeoutGiveUp, AttemptsInv, AttemptInv
    <3>2. Finish(s, 0)
      BY <2>5 DEF TimeoutGiveUp
    <3>3. /\ pc' \in [Seqs -> {"absent", "queued", "acquire", "await", "done", "cancelled"}]
          /\ sample' \in [Seqs -> 0 .. MaxRetries + 1]
          /\ recorded' \in Nat /\ retried' \in Nat
      <4> HIDE DEF TypeOK
      <4> QED BY <3>1, <3>2, FinishType
    <3>4. /\ inflight' \in [Seqs -> {"none", "pending", "resolved"}]
          /\ answer' \in [Seqs -> 0 .. MaxRetries + 1]
      BY <2>5 DEF TimeoutGiveUp, Unregister
    <3>5. UNCHANGED <<phase, attempt, completed, duplicate, outOfOrder, malformed, net, copies>>
      BY <2>5 DEF TimeoutGiveUp
    <3> QED BY <3>3, <3>4, <3>5
  <2>6. CASE CancelTask(s)
    BY <2>6 DEF CancelTask, Unregister
  <2> QED BY <1>2, <2>1, <2>2, <2>3, <2>4, <2>5, <2>6 DEF Coroutine
<1>3. CASE RunTest
  <2>1. CASE EndWarmup
    BY <2>1 DEF EndWarmup
  <2>2. CASE Report \/ Abort
    BY <2>2 DEF Report, Abort, ConnectionLost
  <2> QED BY <1>3, <2>1, <2>2 DEF RunTest
<1>4. CASE Cancel
  BY <1>4 DEF Cancel
<1> HIDE DEF TypeOK, Attempts, run
<1>a. /\ net \in [Seqs -> [Attempts -> Nat]] /\ copies \in Nat
      /\ duplicate \in Nat /\ outOfOrder \in Nat /\ malformed \in Nat
      /\ inflight \in [Seqs -> {"none", "pending", "resolved"}]
      /\ answer \in [Seqs -> 0 .. MaxRetries + 1] /\ completed \in SUBSET Seqs
  BY DEF TypeOK
<1>5. ASSUME NEW s \in Seqs, NEW a \in Attempts, Deliver(s, a) PROVE TypeOK'
  <2>0. net' \in [Seqs -> [Attempts -> Nat]]
    <3>1. Take(s, a)
      BY <1>5 DEF Deliver, DeliverDuplicate, DeliverOutOfOrder, DeliverAnswer
    <3>2. QED
      BY <1>a, <3>1, TakeType
  <2>1. CASE DeliverDuplicate(s, a)
    <3>1. duplicate' \in Nat /\ UNCHANGED <<run, inflight, answer, completed, outOfOrder, malformed, copies>>
      BY <1>a, <2>1 DEF DeliverDuplicate
    <3>2. QED
      BY <1>a, <2>0, <3>1, DeliveryType
  <2>2. CASE DeliverOutOfOrder(s, a)
    <3>1. outOfOrder' \in Nat /\ UNCHANGED <<run, inflight, answer, completed, duplicate, malformed, copies>>
      BY <1>a, <2>2 DEF DeliverOutOfOrder
    <3>2. QED
      BY <1>a, <2>0, <3>1, DeliveryType
  <2>3. CASE DeliverAnswer(s, a)
    <3>1. UNCHANGED <<run, duplicate, outOfOrder, malformed, copies>>
      BY <2>3 DEF DeliverAnswer
    <3>2. completed' \in SUBSET Seqs
      BY <1>a, <2>3 DEF DeliverAnswer, Complete
    <3>3. a \in 0 .. MaxRetries + 1
      BY DEF Attempts
    <3>4. /\ inflight' \in [Seqs -> {"none", "pending", "resolved"}]
          /\ answer' \in [Seqs -> 0 .. MaxRetries + 1]
      BY <1>a, <2>3, <3>3 DEF DeliverAnswer
    <3>5. QED
      BY <1>a, <2>0, <3>1, <3>2, <3>4, DeliveryType
  <2> QED BY <1>5, <2>1, <2>2, <2>3 DEF Deliver
<1>6. ASSUME NEW s \in Seqs, NEW a \in Attempts, Lose(s, a) \/ Duplicate(s, a) PROVE TypeOK'
  <2>1. CASE Lose(s, a)
    <3>1. Take(s, a) /\ UNCHANGED <<run, inflight, answer, completed, duplicate, outOfOrder, malformed, copies>>
      BY <2>1 DEF Lose
    <3>2. net' \in [Seqs -> [Attempts -> Nat]]
      BY <1>a, <3>1, TakeType
    <3>3. QED
      BY <1>a, <3>1, <3>2, DeliveryType
  <2>2. CASE Duplicate(s, a)
    <3>1. /\ net' = [net EXCEPT ![s][a] = net[s][a] + 1] /\ copies' \in Nat
          /\ UNCHANGED <<run, inflight, answer, completed, duplicate, outOfOrder, malformed>>
      BY <1>a, <2>2 DEF Duplicate
    <3>2. net[s][a] + 1 \in Nat
      BY <1>a
    <3>3. net' \in [Seqs -> [Attempts -> Nat]]
      BY <1>a, <3>1, <3>2, NetType
    <3>4. QED
      BY <1>a, <3>1, <3>3, DeliveryType
  <2> QED BY <1>6, <2>1, <2>2
<1> USE DEF TypeOK, run
<1>7. CASE DeliverMalformed
  BY <1>7 DEF DeliverMalformed
<1>8. CASE Terminated
  BY <1>8 DEF Terminated, vars
<1> QED BY <1>1, <1>2, <1>3, <1>4, <1>5, <1>6, <1>7, <1>8 DEF Next

-----------------------------------------------------------------------------
(* One sequence number at a time *)

\* What the model keeps of sequence s does not change.
Untouched(s) ==
    /\ pc'[s] = pc[s] /\ attempt'[s] = attempt[s] /\ sample'[s] = sample[s]
    /\ inflight'[s] = inflight[s] /\ answer'[s] = answer[s] /\ net'[s] = net[s]

(* A coroutine writes only its own sequence number's state. *)
LEMMA CoroutineFrame ==
    ASSUME TypeOK, NEW s \in Seqs, Coroutine(s), NEW t \in Seqs, t # s
    PROVE  Untouched(t)
<1> USE DEF TypeOK, Untouched, run, counters, network
<1>1. CASE Start(s)
  BY <1>1 DEF Start
<1>2. CASE Send(s)
  BY <1>2 DEF Send
<1>3. CASE Resume(s)
  BY <1>3 DEF Resume, Finish, Unregister
<1>4. CASE TimeoutRetry(s)
  BY <1>4 DEF TimeoutRetry, Unregister
<1>5. CASE TimeoutGiveUp(s)
  BY <1>5 DEF TimeoutGiveUp, Finish, Unregister
<1>6. CASE CancelTask(s)
  BY <1>6 DEF CancelTask, Unregister
<1> QED BY <1>1, <1>2, <1>3, <1>4, <1>5, <1>6 DEF Coroutine

(* So does a datagram, and it leaves the coroutines alone. *)
LEMMA DatagramFrame ==
    ASSUME TypeOK, NEW s \in Seqs, NEW a \in Attempts,
           Deliver(s, a) \/ Lose(s, a) \/ Duplicate(s, a), NEW t \in Seqs
    PROVE  /\ UNCHANGED run
           /\ t # s => Untouched(t)
           /\ \A b \in Attempts : net'[t][b] > 0 => net[t][b] > 0
<1> USE DEF TypeOK, Untouched, run, counters, network
<1>0. net[s][a] \in Nat /\ \A b \in Attempts : net[t][b] \in Nat
  BY DEF Attempts
<1>1. CASE DeliverDuplicate(s, a)
  BY <1>0, <1>1 DEF DeliverDuplicate, Take
<1>2. CASE DeliverOutOfOrder(s, a)
  BY <1>0, <1>2 DEF DeliverOutOfOrder, Take
<1>3. CASE DeliverAnswer(s, a)
  BY <1>0, <1>3 DEF DeliverAnswer, Take
<1>4. CASE Lose(s, a)
  BY <1>0, <1>4 DEF Lose, Take
<1>5. CASE Duplicate(s, a)
  BY <1>0, <1>5 DEF Duplicate
<1> QED BY <1>1, <1>2, <1>3, <1>4, <1>5 DEF Deliver

(* _inflight holds exactly the sequences that wait for an echo. *)
LEMMA InflightStep ==
    TypeOK /\ InflightIffAwaiting /\ PhasesApart /\ [Next]_vars => InflightIffAwaiting'
<1> SUFFICES ASSUME TypeOK, InflightIffAwaiting, PhasesApart, [Next]_vars, NEW t \in Seqs
             PROVE  inflight'[t] # "none" <=> pc'[t] = "await"
  BY DEF InflightIffAwaiting
<1>0. inflight[t] # "none" <=> pc[t] = "await"
  BY DEF InflightIffAwaiting
<1>1. CASE UNCHANGED vars
  BY <1>0, <1>1 DEF vars
<1>2. ASSUME NEW s \in Seqs, Coroutine(s)
      PROVE  inflight'[t] # "none" <=> pc'[t] = "await"
  <2>1. CASE t # s
    BY <1>0, <1>2, <2>1, CoroutineFrame DEF Untouched
  <2>2. CASE t = s
    BY <1>0, <1>2, <2>2 DEF Coroutine, Start, Send, Resume, TimeoutRetry,
         TimeoutGiveUp, CancelTask, Finish, Unregister, TypeOK, Live, Active
  <2> QED BY <2>1, <2>2
<1>3. CASE EndWarmup
  BY <1>0, <1>3 DEF EndWarmup, PhasesApart
<1>4. CASE Report
  BY <1>0, <1>4, SeqsSplit DEF Report, ConnectionLost, PhasesApart
<1>5. CASE Abort
  BY <1>0, <1>5 DEF Abort, ConnectionLost, Live, Active
<1>6. CASE Cancel \/ DeliverMalformed \/ Terminated
  BY <1>0, <1>6 DEF Cancel, DeliverMalformed, Terminated, vars, run
<1>7. ASSUME NEW s \in Seqs, NEW a \in Attempts, Deliver(s, a) \/ Lose(s, a) \/ Duplicate(s, a)
      PROVE  inflight'[t] # "none" <=> pc'[t] = "await"
  <2>1. CASE t # s
    BY <1>0, <1>7, <2>1, DatagramFrame DEF Untouched, run
  <2>2. CASE t = s
    BY <1>0, <1>7, <2>2, DatagramFrame DEF Deliver, DeliverDuplicate, DeliverOutOfOrder,
         DeliverAnswer, Lose, Duplicate, run, TypeOK
  <2> QED BY <2>1, <2>2
<1> QED BY <1>1, <1>2, <1>3, <1>4, <1>5, <1>6, <1>7 DEF Next, RunTest

(* The packets a sequence has sent follow its coroutine. *)
LEMMA AttemptsStep ==
    TypeOK /\ AttemptsInv /\ PhasesApart /\ [Next]_vars => AttemptsInv'
<1> SUFFICES ASSUME TypeOK, AttemptsInv, PhasesApart, [Next]_vars, NEW t \in Seqs
             PROVE  AttemptInv(t)'
  BY DEF AttemptsInv
<1>0. AttemptInv(t)
  BY DEF AttemptsInv
<1>1. CASE UNCHANGED vars
  BY <1>0, <1>1 DEF vars, AttemptInv
<1>2. ASSUME Untouched(t) PROVE AttemptInv(t)'
  BY <1>0, <1>2 DEF Untouched, AttemptInv
<1>3. ASSUME NEW s \in Seqs, Coroutine(s) PROVE AttemptInv(t)'
  <2>1. CASE t # s
    BY <1>2, <1>3, <2>1, CoroutineFrame
  <2>2. CASE t = s /\ Start(t)
    BY <1>0, <2>2, RetriesType DEF Start, AttemptInv, TypeOK, network
  <2>3. CASE t = s /\ Send(t)
    <3>1. /\ pc[t] = "acquire" /\ pc'[t] = "await" /\ sample'[t] = sample[t]
          /\ attempt'[t] = attempt[t] + 1 /\ inflight'[t] = "pending"
          /\ net'[t] = [net[t] EXCEPT ![attempt[t] + 1] = 1]
      BY <2>3 DEF Send, TypeOK
    <3>2. attempt[t] <= Retries(t) /\ attempt[t] \in Nat
      BY <1>0, <3>1 DEF AttemptInv, TypeOK
    <3>3. \A b \in Attempts : net'[t][b] > 0 => b <= attempt'[t]
      BY <1>0, <3>1, <3>2 DEF AttemptInv, TypeOK, Attempts
    <3> QED BY <1>0, <3>1, <3>2, <3>3, RetriesType DEF AttemptInv
  <2>4. CASE t = s /\ Resume(t)
    <3>1. /\ pc'[t] = "done" /\ inflight'[t] = "none" /\ sample'[t] = answer[t]
          /\ attempt' = attempt /\ net' = net
      BY <2>4 DEF Resume, Finish, Unregister, TypeOK, network
    <3>2. pc[t] = "await" /\ inflight[t] = "resolved"
      BY <2>4 DEF Resume
    <3>3. answer[t] \in 1 .. attempt[t] /\ attempt[t] \in 1 .. Retries(t) + 1
      BY <1>0, <3>2 DEF AttemptInv
    <3>4. attempt[t] \in Nat
      BY DEF TypeOK
    <3> QED BY <1>0, <3>1, <3>3, <3>4 DEF AttemptInv
  <2>5. CASE t = s /\ TimeoutRetry(t)
    BY <1>0, <2>5, RetriesType DEF TimeoutRetry, Unregister, AttemptInv, TypeOK, network
  <2>6. CASE t = s /\ TimeoutGiveUp(t)
    BY <1>0, <2>6, RetriesType DEF TimeoutGiveUp, Finish, Unregister, AttemptInv, TypeOK, network
  <2>7. CASE t = s /\ CancelTask(t)
    BY <1>0, <2>7 DEF CancelTask, Unregister, AttemptInv, TypeOK, network, Live, Active
  <2> QED BY <1>3, <2>1, <2>2, <2>3, <2>4, <2>5, <2>6, <2>7 DEF Coroutine
<1>4. CASE EndWarmup
  BY <1>0, <1>4 DEF EndWarmup, PhasesApart, AttemptInv, network
<1>5. CASE Report \/ Abort
  BY <1>0, <1>5 DEF Report, Abort, ConnectionLost, AttemptInv, network
<1>6. CASE Cancel \/ DeliverMalformed \/ Terminated
  BY <1>0, <1>6 DEF Cancel, DeliverMalformed, Terminated, vars, run, network, AttemptInv
<1>7. ASSUME NEW s \in Seqs, NEW a \in Attempts, Deliver(s, a) \/ Lose(s, a) \/ Duplicate(s, a)
      PROVE  AttemptInv(t)'
  <2>1. CASE t # s
    BY <1>2, <1>7, <2>1, DatagramFrame
  <2>2. CASE t = s /\ DeliverAnswer(t, a)
    <3>1. UNCHANGED run /\ \A b \in Attempts : net'[t][b] > 0 => net[t][b] > 0
      BY <1>7, DatagramFrame
    <3>2. inflight'[t] = "resolved" /\ answer'[t] = a /\ net[t][a] > 0
      BY <2>2 DEF DeliverAnswer, Take, TypeOK
    <3>3. a \in 1 .. attempt[t]
      BY <1>0, <3>2 DEF AttemptInv, Attempts, TypeOK
    <3> QED BY <1>0, <3>1, <3>2, <3>3 DEF AttemptInv, run
  <2>3. CASE t = s /\ ~DeliverAnswer(t, a)
    <3>1. UNCHANGED run /\ \A b \in Attempts : net'[t][b] > 0 => net[t][b] > 0
      BY <1>7, DatagramFrame
    <3>2. UNCHANGED <<inflight, answer>>
      BY <1>7, <2>3 DEF Deliver, DeliverDuplicate, DeliverOutOfOrder, Lose, Duplicate
    <3> QED BY <1>0, <3>1, <3>2 DEF AttemptInv, run
  <2> QED BY <2>1, <2>2, <2>3
<1> QED BY <1>1, <1>3, <1>4, <1>5, <1>6, <1>7 DEF Next, RunTest

-----------------------------------------------------------------------------
(* The two phases and the recorder *)

ActiveSeqs == {s \in Seqs : Active(s)}

LEMMA ActiveFinite ==
    /\ IsFiniteSet(ActiveSeqs) /\ Cardinality(ActiveSeqs) \in Nat
    /\ \A S \in SUBSET ActiveSeqs : Cardinality(S) <= Cardinality(ActiveSeqs)
<1>1. IsFiniteSet(ActiveSeqs)
  BY SeqsFinite, FS_Subset DEF ActiveSeqs
<1> QED BY <1>1, FS_Subset, FS_CardinalityType

(* Only Start opens a coroutine, and it asks the semaphore first. *)
LEMMA ConcurrencyStep ==
    TypeOK /\ PhasesApart /\ [Next]_vars => Cardinality(ActiveSeqs') <= Concurrency
<1> SUFFICES ASSUME TypeOK, PhasesApart, [Next]_vars
             PROVE  Cardinality(ActiveSeqs') <= Concurrency
  OBVIOUS
<1>0. Cardinality(ActiveSeqs) <= Concurrency
  BY DEF PhasesApart, ActiveSeqs
<1>1. ASSUME \A t \in Seqs : Active(t)' => Active(t)
      PROVE  Cardinality(ActiveSeqs') <= Concurrency
  <2>1. ActiveSeqs' \in SUBSET ActiveSeqs
    BY <1>1 DEF ActiveSeqs
  <2>2. Cardinality(ActiveSeqs') \in Nat
    BY <2>1, ActiveFinite, FS_Subset, FS_CardinalityType
  <2> QED BY <1>0, <2>1, <2>2, ActiveFinite
<1>2. ASSUME NEW s \in Seqs, Coroutine(s)
      PROVE  Cardinality(ActiveSeqs') <= Concurrency
  <2>1. CASE Start(s)
    <3>1. ActiveSeqs' = ActiveSeqs \union {s}
      BY <2>1 DEF Start, ActiveSeqs, Active, TypeOK
    <3>2. Cardinality(ActiveSeqs') <= Cardinality(ActiveSeqs) + 1
      BY <3>1, ActiveFinite, FS_AddElement
    <3>3. Cardinality(ActiveSeqs) < Limit /\ Limit <= Concurrency /\ Limit \in Nat
      BY <2>1 DEF Start, ActiveSeqs, Limit
    <3>4. Cardinality(ActiveSeqs') \in Nat
      BY <3>1, ActiveFinite, FS_AddElement
    <3> QED BY <3>2, <3>3, <3>4, ActiveFinite
  <2>2. CASE ~Start(s)
    <3>1. Active(s)' => Active(s)
      BY <1>2, <2>2 DEF Coroutine, Send, Resume, TimeoutRetry, TimeoutGiveUp, CancelTask,
           Finish, Active, TypeOK
    <3>2. \A t \in Seqs : Active(t)' => Active(t)
      BY <1>2, <3>1, CoroutineFrame DEF Active, Untouched
    <3> QED BY <1>1, <3>2
  <2> QED BY <2>1, <2>2
<1>3. CASE RunTest
  BY <1>1, <1>3 DEF RunTest, EndWarmup, Report, Abort, Active
<1>4. CASE pc' = pc
  BY <1>1, <1>4 DEF Active
<1>5. ASSUME NEW s \in Seqs, NEW a \in Attempts, Deliver(s, a) \/ Lose(s, a) \/ Duplicate(s, a)
      PROVE  pc' = pc
  BY <1>5, DatagramFrame DEF run
<1>6. CASE UNCHANGED vars \/ Cancel \/ DeliverMalformed \/ Terminated
  BY <1>4, <1>6 DEF vars, Cancel, DeliverMalformed, Terminated, run
<1> QED BY <1>2, <1>3, <1>4, <1>5, <1>6 DEF Next

(* The warm-up is over before a measured coroutine exists. *)
LEMMA PhasesStep == TypeOK /\ PhasesApart /\ [Next]_vars => PhasesApart'
<1> SUFFICES ASSUME TypeOK, PhasesApart, [Next]_vars PROVE PhasesApart'
  OBVIOUS
<1>0. Cardinality({s \in Seqs : Active(s)})' <= Concurrency
  BY ConcurrencyStep DEF ActiveSeqs
<1>1. SUFFICES ASSUME NEW t \in Seqs
               PROVE  /\ phase' = "warmup" /\ t \in Measured => pc'[t] = "absent"
                      /\ phase' \in {"measure", "reported"} /\ t \in Warm => pc'[t] = "done"
  BY <1>0, SeqsSplit DEF PhasesApart
<1>2. /\ phase = "warmup" /\ t \in Measured => pc[t] = "absent"
      /\ phase \in {"measure", "reported"} /\ t \in Warm => pc[t] = "done"
  BY DEF PhasesApart
<1>3. ASSUME NEW s \in Seqs, Coroutine(s)
      PROVE  phase' = phase /\ (pc[t] \in {"absent", "done"} => pc'[t] = pc[t])
  <2>1. phase' = phase
    BY <1>3 DEF Coroutine, Start, Send, Resume, TimeoutRetry, TimeoutGiveUp, CancelTask
  <2>2. pc[s] \notin {"absent", "done"}
    BY <1>3 DEF Coroutine, Start, Send, Resume, TimeoutRetry, TimeoutGiveUp, CancelTask,
         Live, Active
  <2> QED BY <1>3, <2>1, <2>2, CoroutineFrame DEF Untouched
<1>4. CASE RunTest
  BY <1>2, <1>4, SeqsSplit DEF RunTest, EndWarmup, Report, Abort
<1>5. CASE Cancel
  BY <1>2, <1>5 DEF Cancel
<1>6. CASE phase' = phase /\ pc' = pc
  BY <1>2, <1>6
<1>7. ASSUME NEW s \in Seqs, NEW a \in Attempts, Deliver(s, a) \/ Lose(s, a) \/ Duplicate(s, a)
      PROVE  phase' = phase /\ pc' = pc
  BY <1>7, DatagramFrame DEF run
<1>8. CASE UNCHANGED vars \/ DeliverMalformed \/ Terminated
  BY <1>6, <1>8 DEF vars, DeliverMalformed, Terminated, run
<1> QED BY <1>2, <1>3, <1>4, <1>5, <1>6, <1>7, <1>8 DEF Next

LEMMA AnsweredFinite == IsFiniteSet(Answered) /\ Cardinality(Answered) \in Nat
BY SeqsFinite, FS_Subset, FS_CardinalityType DEF Answered

(* The recorder counts a sequence when its coroutine returns with a sample. *)
LEMMA RecordedStep ==
    TypeOK /\ AttemptsInv /\ RecordedOnce /\ [Next]_vars => RecordedOnce'
<1> SUFFICES ASSUME TypeOK, AttemptsInv, RecordedOnce, [Next]_vars PROVE RecordedOnce'
  OBVIOUS
<1>1. ASSUME UNCHANGED <<recorded, sample>> PROVE RecordedOnce'
  BY <1>1 DEF RecordedOnce, Answered
<1>2. ASSUME NEW s \in Seqs, NEW r \in 0 .. MaxRetries + 1, pc[s] = "await", Finish(s, r)
      PROVE  RecordedOnce'
  <2>0. sample[s] = 0 /\ sample' = [sample EXCEPT ![s] = r]
    BY <1>2 DEF AttemptsInv, AttemptInv, Finish
  <2>1. CASE s \in Measured /\ r # 0
    <3>1. Answered' = Answered \union {s} /\ s \notin Answered
      BY <2>0, <2>1, SeqsSplit DEF Answered, TypeOK
    <3>2. recorded' = recorded + 1
      BY <1>2, <2>1 DEF Finish
    <3> QED BY <3>1, <3>2, AnsweredFinite, FS_AddElement DEF RecordedOnce
  <2>2. CASE ~(s \in Measured /\ r # 0)
    <3>1. Answered' = Answered
      BY <2>0, <2>2, SeqsSplit DEF Answered, TypeOK
    <3>2. recorded' = recorded
      BY <1>2, <2>2 DEF Finish
    <3> QED BY <3>1, <3>2 DEF RecordedOnce
  <2> QED BY <2>1, <2>2
<1>3. ASSUME NEW s \in Seqs, Coroutine(s) PROVE RecordedOnce'
  <2>1. CASE Resume(s)
    BY <1>2, <2>1 DEF Resume, TypeOK
  <2>2. CASE TimeoutGiveUp(s)
    BY <1>2, <2>2 DEF TimeoutGiveUp
  <2>3. CASE Start(s) \/ Send(s) \/ TimeoutRetry(s) \/ CancelTask(s)
    BY <1>1, <2>3 DEF Start, Send, TimeoutRetry, CancelTask
  <2> QED BY <1>3, <2>1, <2>2, <2>3 DEF Coroutine
<1>4. CASE RunTest
  BY <1>1, <1>4 DEF RunTest, EndWarmup, Report, Abort
<1>5. ASSUME NEW s \in Seqs, NEW a \in Attempts, Deliver(s, a) \/ Lose(s, a) \/ Duplicate(s, a)
      PROVE  RecordedOnce'
  BY <1>1, <1>5, DatagramFrame DEF run
<1>6. CASE UNCHANGED vars \/ Cancel \/ DeliverMalformed \/ Terminated
  BY <1>1, <1>6 DEF vars, Cancel, DeliverMalformed, Terminated, run
<1> QED BY <1>3, <1>4, <1>5, <1>6 DEF Next

(* The retries of one sequence. *)
LEMMA ResentOf ==
    ASSUME NEW s, NEW n \in Nat, n >= 1
    PROVE  IsFiniteSet({s} \X (2 .. n)) /\ Cardinality({s} \X (2 .. n)) = n - 1
<1>1. IsFiniteSet({s}) /\ Cardinality({s}) = 1
  BY FS_Singleton
<1>2. IsFiniteSet(2 .. n) /\ Cardinality(2 .. n) = n - 1
  BY FS_Interval
<1>3. /\ IsFiniteSet({s} \X (2 .. n))
      /\ Cardinality({s} \X (2 .. n)) = Cardinality({s}) * Cardinality(2 .. n)
  BY <1>1, <1>2, FS_Product
<1> QED BY <1>1, <1>2, <1>3

LEMMA ResentFinite == IsFiniteSet(Resent) /\ Cardinality(Resent) \in Nat
<1>1. IsFiniteSet(Attempts)
  BY FS_Interval DEF Attempts
<1>2. IsFiniteSet(Measured \X Attempts)
  BY <1>1, SeqsFinite, FS_Product
<1> QED BY <1>2, FS_Subset, FS_CardinalityType DEF Resent

(* The shared counter takes over the retries of a sequence as it returns. *)
LEMMA RetriesStep ==
    TypeOK /\ AttemptsInv /\ PhasesApart /\ RetriesAgree /\ [Next]_vars => RetriesAgree'
<1> SUFFICES ASSUME TypeOK, AttemptsInv, PhasesApart, RetriesAgree, [Next]_vars PROVE RetriesAgree'
  OBVIOUS
<1>1. ASSUME Resent' = Resent, retried' = retried PROVE RetriesAgree'
  BY <1>1 DEF RetriesAgree
<1>2. ASSUME NEW s \in Seqs, NEW r \in 0 .. MaxRetries + 1, pc[s] = "await", Finish(s, r),
             attempt' = attempt
      PROVE  RetriesAgree'
  <2> DEFINE Own == {s} \X (2 .. attempt[s])
  <2>0. attempt[s] \in 1 .. Retries(s) + 1 /\ Retries(s) \in 0 .. MaxRetries
    BY <1>2, RetriesType DEF AttemptsInv, AttemptInv
  <2>1. /\ attempt[s] \in 1 .. MaxRetries + 1 /\ attempt[s] \in Nat /\ attempt[s] >= 1
        /\ pc'[s] = "done" /\ \A t \in Seqs : t # s => pc'[t] = pc[t]
    BY <1>2, <2>0 DEF Finish, TypeOK
  <2>2. CASE s \in Measured
    <3>1. 2 .. attempt[s] \subseteq Attempts
      BY <2>1 DEF Attempts
    <3>2. Resent' = Resent \union Own
      BY <1>2, <2>1, <2>2, <3>1, SeqsSplit DEF Resent
    <3>3. Resent \intersect Own = {}
      BY <1>2 DEF Resent
    <3>4. IsFiniteSet(Own) /\ Cardinality(Own) = attempt[s] - 1
      BY <2>1, ResentOf
    <3>5. Cardinality({}) = 0
      BY FS_EmptySet
    <3> HIDE DEF Own
    <3>6. Cardinality(Resent') = Cardinality(Resent) + attempt[s] - 1
      BY <2>1, <3>2, <3>3, <3>4, <3>5, ResentFinite, FS_Union
    <3>7. retried' = retried + attempt[s] - 1
      BY <1>2, <2>2 DEF Finish
    <3> QED BY <3>6, <3>7 DEF RetriesAgree
  <2>3. CASE s \notin Measured
    <3>1. Resent' = Resent
      BY <1>2, <2>1, <2>3, SeqsSplit DEF Resent
    <3>2. retried' = retried
      BY <1>2, <2>3 DEF Finish
    <3> QED BY <1>1, <3>1, <3>2
  <2> QED BY <2>2, <2>3
<1>3. ASSUME NEW s \in Seqs, Coroutine(s) PROVE RetriesAgree'
  <2>1. CASE Resume(s)
    BY <1>2, <2>1 DEF Resume, TypeOK
  <2>2. CASE TimeoutGiveUp(s)
    BY <1>2, <2>2 DEF TimeoutGiveUp
  <2>3. CASE Start(s) \/ Send(s) \/ TimeoutRetry(s) \/ CancelTask(s)
    <3>1. /\ retried' = retried /\ pc[s] # "done" /\ pc'[s] # "done"
          /\ \A t \in Seqs : t # s => pc'[t] = pc[t] /\ attempt'[t] = attempt[t]
      BY <2>3 DEF Start, Send, TimeoutRetry, CancelTask, Live, Active, TypeOK
    <3>2. Resent' = Resent
      BY <3>1, SeqsSplit DEF Resent
    <3> QED BY <1>1, <3>1, <3>2
  <2> QED BY <1>3, <2>1, <2>2, <2>3 DEF Coroutine
<1>4. CASE EndWarmup
  <2>1. \A s \in Measured : pc[s] # "done" /\ pc'[s] # "done"
    BY <1>4, SeqsSplit DEF EndWarmup, PhasesApart
  <2> QED BY <1>1, <1>4, <2>1 DEF EndWarmup, Resent
<1>5. CASE Report \/ Abort
  BY <1>1, <1>5 DEF Report, Abort, Resent
<1>6. ASSUME NEW s \in Seqs, NEW a \in Attempts, Deliver(s, a) \/ Lose(s, a) \/ Duplicate(s, a)
      PROVE  RetriesAgree'
  BY <1>1, <1>6, DatagramFrame DEF run, Resent
<1>7. CASE UNCHANGED vars \/ Cancel \/ DeliverMalformed \/ Terminated
  BY <1>1, <1>7 DEF vars, Cancel, DeliverMalformed, Terminated, run, Resent
<1> QED BY <1>3, <1>4, <1>5, <1>6, <1>7 DEF Next, RunTest

(* Once reported nothing moves; Report itself waits for every verdict. *)
LEMMA ReportStep ==
    TypeOK /\ AttemptsInv /\ ReportComplete /\ [Next]_vars => ReportComplete'
<1> SUFFICES ASSUME TypeOK, AttemptsInv, ReportComplete, [Next]_vars, phase' = "reported",
                    NEW t \in Measured
             PROVE  pc'[t] = "done" /\ (sample'[t] = 0 => attempt'[t] = MaxRetries + 1)
  BY DEF ReportComplete
<1>0. t \in Seqs /\ Retries(t) = MaxRetries
  BY SeqsSplit DEF Retries
<1>1. CASE Report
  BY <1>0, <1>1 DEF Report, AttemptsInv, AttemptInv
<1>2. CASE phase = "reported" /\ UNCHANGED run
  BY <1>2 DEF ReportComplete, run
<1>3. ASSUME NEW s \in Seqs, Coroutine(s) PROVE phase' # "reported"
  BY <1>3 DEF Coroutine, Start, Send, Resume, TimeoutRetry, TimeoutGiveUp, CancelTask, Open, Running
<1>4. CASE EndWarmup \/ Abort \/ Cancel
  BY <1>4 DEF EndWarmup, Abort, Cancel
<1>5. ASSUME NEW s \in Seqs, NEW a \in Attempts, Deliver(s, a) \/ Lose(s, a) \/ Duplicate(s, a)
      PROVE  UNCHANGED run
  BY <1>5, DatagramFrame
<1>6. CASE UNCHANGED vars \/ DeliverMalformed \/ Terminated
  BY <1>2, <1>6 DEF vars, DeliverMalformed, Terminated, run
<1> QED BY <1>1, <1>2, <1>3, <1>4, <1>5, <1>6 DEF Next, RunTest, run

-----------------------------------------------------------------------------
(* The inductive invariant *)

IInv ==
    /\ TypeOK
    /\ AttemptsInv
    /\ InflightIffAwaiting
    /\ PhasesApart
    /\ RecordedOnce
    /\ RetriesAgree
    /\ ReportComplete

LEMMA InitIInv == Init => IInv
<1> SUFFICES ASSUME Init PROVE IInv
  OBVIOUS
<1>1. TypeOK
  BY DEF Init, TypeOK
<1>2. AttemptsInv
  BY RetriesType, MaxRetriesAssumption DEF Init, AttemptsInv, AttemptInv, Attempts
<1>3. InflightIffAwaiting
  BY DEF Init, InflightIffAwaiting
<1>4. PhasesApart
  <2>1. {s \in Seqs : Active(s)} = {}
    BY DEF Init, Active
  <2>2. Warmup = 0 => Warm = {}
    BY DEF Warm
  <2>3. Warmup > 0 => phase = "warmup" /\ \A s \in Measured : pc[s] = "absent"
    BY SeqsSplit DEF Init
  <2>4. Warmup = 0 => phase = "measure"
    BY DEF Init
  <2> QED BY <2>1, <2>2, <2>3, <2>4, FS_EmptySet DEF PhasesApart
<1>5. RecordedOnce
  <2>1. Answered = {}
    BY SeqsSplit DEF Init, Answered
  <2> QED BY <2>1, FS_EmptySet DEF RecordedOnce, Init
<1>6. ReportComplete
  BY DEF Init, ReportComplete
<1>7. RetriesAgree
  <2>1. Resent = {}
    BY SeqsSplit DEF Init, Resent
  <2> QED BY <2>1, FS_EmptySet DEF RetriesAgree, Init
<1> QED BY <1>1, <1>2, <1>3, <1>4, <1>5, <1>6, <1>7 DEF IInv

LEMMA NextIInv == IInv /\ [Next]_vars => IInv'
BY Typing, AttemptsStep, InflightStep, PhasesStep, RecordedStep, RetriesStep, ReportStep DEF IInv

(* The inductive invariant holds throughout every measurement. *)
THEOREM Invariance == Spec => []IInv
BY InitIInv, NextIInv, PTL DEF Spec

(* Every variable of the client keeps its type: no packet is ever sent beyond
   config.max_retries, and every counter stays a natural number. *)
THEOREM TypeCorrect == Spec => []TypeOK
<1>1. IInv => TypeOK
  BY DEF IInv
<1> QED BY <1>1, Invariance, PTL

(* _inflight holds exactly the sequences that wait for an echo, for every
   interleaving of echoes, timeouts, retries and cancellation. *)
THEOREM NothingLeaks == Spec => []InflightIffAwaiting
<1>1. IInv => InflightIffAwaiting
  BY DEF IInv
<1> QED BY <1>1, Invariance, PTL

(* The semaphore bounds the open sequences, and warm-up and measurement never
   overlap. *)
THEOREM PhasesStayApart == Spec => []PhasesApart
<1>1. IInv => PhasesApart
  BY DEF IInv
<1> QED BY <1>1, Invariance, PTL

(* count_received is the number of measured sequences answered, whatever the
   network duplicates and however late its echoes are. *)
THEOREM ReceivedIsAnswered == Spec => []RecordedOnce
<1>1. IInv => RecordedOnce
  BY DEF IInv
<1> QED BY <1>1, Invariance, PTL

(* total_retries is the number of packets sent beyond the first to the measured
   sequences that returned, in whatever order they add to it. *)
THEOREM RetriesAreResent == Spec => []RetriesAgree
<1>1. IInv => RetriesAgree
  BY DEF IInv
<1> QED BY <1>1, Invariance, PTL

(* A report gives every measured sequence a verdict, and calls one lost only
   after its last attempt. *)
THEOREM ReportsAreComplete == Spec => []ReportComplete
<1>1. IInv => ReportComplete
  BY DEF IInv
<1> QED BY <1>1, Invariance, PTL

-----------------------------------------------------------------------------
(* The quality counters *)

(* While nothing has been duplicated and s was sent at most once, the network
   holds at most one datagram of s, and none once s is completed.  While
   _completed cannot be cleared, a sequence that was sent, has lost no attempt
   to a timer and waits no more is completed. *)
EchoInv(s) ==
    /\ attempt[s] = 0 => s \notin completed
    /\ copies = 0 /\ attempt[s] <= 1 => net[s][1] <= 1 /\ (s \in completed => net[s][1] = 0)
    /\ Count + Warmup <= CompletedCap /\ attempt[s] >= 1 /\ ~Withdrawn(s)
            /\ inflight[s] # "pending" => s \in completed

CountersInv ==
    /\ \A s \in Seqs : EchoInv(s)
    /\ OutOfOrderNeedsTimeout
    /\ DuplicateNeedsCopy

LEMMA OneIsAnAttempt == 1 \in Attempts
BY DEF Attempts

(* Below its cap _completed is never cleared. *)
LEMMA CompletedGrows ==
    ASSUME TypeOK, NEW s \in Seqs, Count + Warmup <= CompletedCap
    PROVE  Complete(s) = completed \union {s}
<1>1. completed \union {s} \in SUBSET Seqs
  BY DEF TypeOK
<1>2. Cardinality(Seqs) = Count + Warmup
  BY FS_Interval DEF Seqs
<1>3. Cardinality(completed \union {s}) <= Count + Warmup
  BY <1>1, <1>2, SeqsFinite, FS_Subset
<1>4. Cardinality(completed \union {s}) \in Nat
  BY <1>1, SeqsFinite, FS_Subset, FS_CardinalityType
<1> QED BY <1>3, <1>4 DEF Complete

(* What the two counters rest on is kept by a coroutine ... *)
LEMMA EchoCoroutine ==
    ASSUME IInv, NEW t \in Seqs, EchoInv(t), NEW s \in Seqs, Coroutine(s)
    PROVE  EchoInv(t)' /\ (Withdrawn(t) => Withdrawn(t)') /\ attempt'[t] >= attempt[t]
<1> USE DEF IInv, network, counters
<1>0. attempt[t] \in Nat /\ AttemptInv(t) /\ TypeOK
  BY DEF TypeOK, AttemptsInv
<1>1. completed' = completed /\ copies' = copies
  BY DEF Coroutine, Start, Send, Resume, TimeoutRetry, TimeoutGiveUp, CancelTask
<1>2. CASE t # s
  BY <1>0, <1>1, <1>2, CoroutineFrame DEF Untouched, EchoInv, Withdrawn
<1>3. CASE t = s /\ Send(t)
  <2>1. /\ pc'[t] = "await" /\ pc[t] = "acquire" /\ attempt'[t] = attempt[t] + 1
        /\ inflight'[t] = "pending" /\ sample' = sample
        /\ net'[t] = [net[t] EXCEPT ![attempt[t] + 1] = 1]
    BY <1>3 DEF Send, TypeOK
  <2>2. sample[t] = 0
    BY <1>0, <2>1 DEF AttemptInv
  <2>3. attempt[t] = 0 => net'[t][1] = 1
    BY <2>1, OneIsAnAttempt DEF TypeOK
  <2> QED BY <1>0, <1>1, <2>1, <2>2, <2>3 DEF EchoInv, Withdrawn
<1>4. CASE t = s /\ ~Send(t)
  <2>1. attempt' = attempt /\ net' = net
    BY <1>4 DEF Coroutine, Start, Resume, TimeoutRetry, TimeoutGiveUp, CancelTask
  <2>2. Withdrawn(t) => Withdrawn(t)'
    BY <1>4, <1>0, <2>1 DEF Coroutine, Start, Resume, TimeoutRetry, TimeoutGiveUp, CancelTask,
         Finish, Withdrawn, AttemptInv, TypeOK, Live, Active
  <2>3. inflight'[t] # "pending" /\ ~Withdrawn(t)' /\ attempt[t] >= 1 => inflight[t] # "pending"
    BY <1>4, <1>0, <2>1 DEF Coroutine, Start, Resume, TimeoutRetry, TimeoutGiveUp, CancelTask,
         Finish, Withdrawn, AttemptInv, TypeOK
  <2> QED BY <1>0, <1>1, <2>1, <2>2, <2>3 DEF EchoInv
<1> QED BY <1>2, <1>3, <1>4

(* ... and by a datagram. *)
LEMMA EchoDatagram ==
    ASSUME IInv, NEW t \in Seqs, EchoInv(t), NEW s \in Seqs, NEW a \in Attempts,
           Deliver(s, a) \/ Lose(s, a) \/ Duplicate(s, a)
    PROVE  EchoInv(t)'
<1> USE DEF IInv
<1>0. attempt[t] \in Nat /\ AttemptInv(t) /\ TypeOK /\ net[t][1] \in Nat /\ copies \in Nat
  BY OneIsAnAttempt DEF TypeOK, AttemptsInv
<1>1. UNCHANGED run /\ (Withdrawn(t) <=> Withdrawn(t)')
  BY DatagramFrame DEF run, Withdrawn
<1>2. CASE Duplicate(s, a)
  <2>1. copies' = copies + 1 /\ completed' = completed /\ inflight' = inflight
    BY <1>2 DEF Duplicate
  <2> QED BY <1>0, <1>1, <2>1 DEF EchoInv, run
<1>3. net'[t][1] \in Nat /\ (~Duplicate(s, a) => net'[t][1] <= net[t][1] /\ copies' = copies)
  <2>1. CASE Duplicate(s, a)
    BY <1>0, <2>1, OneIsAnAttempt DEF Duplicate, TypeOK
  <2>2. CASE Take(s, a) /\ copies' = copies
    <3>1. net[s][a] \in Nat
      BY DEF TypeOK
    <3> QED BY <1>0, <2>2, <3>1, OneIsAnAttempt DEF Take, TypeOK
  <2> QED BY <2>1, <2>2 DEF Deliver, DeliverDuplicate, DeliverOutOfOrder, DeliverAnswer, Lose
<1>4. CASE ~Duplicate(s, a) /\ ~DeliverAnswer(s, a)
  <2>1. UNCHANGED <<completed, inflight>>
    BY <1>4 DEF Deliver, DeliverDuplicate, DeliverOutOfOrder, Lose
  <2> QED BY <1>0, <1>1, <1>3, <1>4, <2>1 DEF EchoInv, run
<1>5. CASE DeliverAnswer(s, a) /\ ~Duplicate(s, a)
  <2>1. completed' = Complete(s) /\ completed' \in {{}, completed \union {s}}
    BY <1>5 DEF DeliverAnswer, Complete
  <2>2. CASE t # s
    <3>1. inflight'[t] = inflight[t]
      BY <2>2, DatagramFrame DEF Untouched
    <3>2. t \in completed' => t \in completed
      BY <2>1, <2>2
    <3>3. Count + Warmup <= CompletedCap /\ t \in completed => t \in completed'
      BY <2>1, CompletedGrows
    <3> QED BY <1>0, <1>1, <1>3, <1>5, <3>1, <3>2, <3>3 DEF EchoInv, run
  <2>3. CASE t = s
    <3>1. net[t][a] > 0 /\ net'[t] = [net[t] EXCEPT ![a] = @ - 1]
      BY <1>5, <2>3 DEF DeliverAnswer, Take, TypeOK
    <3>2. attempt[t] >= 1 /\ (attempt[t] <= 1 => a = 1)
      BY <1>0, <3>1 DEF AttemptInv, Attempts
    <3>3. attempt[t] <= 1 /\ copies = 0 => net'[t][1] = 0
      BY <1>0, <3>1, <3>2, OneIsAnAttempt DEF EchoInv, TypeOK
    <3>4. Count + Warmup <= CompletedCap => t \in completed'
      BY <2>1, <2>3, CompletedGrows
    <3> QED BY <1>0, <1>1, <1>3, <1>5, <3>2, <3>3, <3>4 DEF EchoInv, run
  <2> QED BY <2>2, <2>3
<1> QED BY <1>2, <1>4, <1>5

LEMMA CountersInit == Init => CountersInv
<1> SUFFICES ASSUME Init PROVE CountersInv
  OBVIOUS
<1>1. \A s \in Seqs : EchoInv(s)
  BY OneIsAnAttempt DEF Init, EchoInv
<1>2. OutOfOrderNeedsTimeout /\ DuplicateNeedsCopy
  BY DEF Init, OutOfOrderNeedsTimeout, DuplicateNeedsCopy
<1> QED BY <1>1, <1>2 DEF CountersInv

LEMMA CountersStep == IInv /\ CountersInv /\ [Next]_vars => CountersInv'
<1> SUFFICES ASSUME IInv, CountersInv, [Next]_vars PROVE CountersInv'
  OBVIOUS
<1>0. /\ \A t \in Seqs : EchoInv(t) /\ AttemptInv(t) /\ attempt[t] \in Nat
      /\ OutOfOrderNeedsTimeout /\ DuplicateNeedsCopy /\ TypeOK
  BY DEF CountersInv, IInv, AttemptsInv, TypeOK
<1>1. ASSUME UNCHANGED <<duplicate, outOfOrder, copies>>,
             \A t \in Seqs : /\ EchoInv(t)' /\ (Withdrawn(t) => Withdrawn(t)')
                             /\ attempt'[t] \in Nat /\ attempt'[t] >= attempt[t]
      PROVE  CountersInv'
  <2>1. OutOfOrderNeedsTimeout'
    BY <1>0, <1>1 DEF OutOfOrderNeedsTimeout
  <2>2. DuplicateNeedsCopy'
    BY <1>0, <1>1 DEF DuplicateNeedsCopy
  <2> QED BY <1>1, <2>1, <2>2 DEF CountersInv
<1>2. ASSUME NEW s \in Seqs, Coroutine(s) PROVE CountersInv'
  <2>1. UNCHANGED <<duplicate, outOfOrder, copies>>
    BY <1>2 DEF Coroutine, Start, Send, Resume, TimeoutRetry, TimeoutGiveUp, CancelTask,
         counters, network
  <2>2. \A t \in Seqs : attempt'[t] \in Nat
    BY Typing DEF IInv, TypeOK
  <2> QED BY <1>0, <1>1, <1>2, <2>1, <2>2, EchoCoroutine
<1>3. ASSUME NEW s \in Seqs, NEW a \in Attempts, Deliver(s, a) \/ Lose(s, a) \/ Duplicate(s, a)
      PROVE  CountersInv'
  <2>1. UNCHANGED run /\ \A t \in Seqs : EchoInv(t)'
    BY <1>0, <1>3, EchoDatagram, DatagramFrame
  <2>2. \A t \in Seqs : (Withdrawn(t) <=> Withdrawn(t)') /\ attempt'[t] = attempt[t]
    BY <2>1 DEF run, Withdrawn
  <2>3. CASE DeliverDuplicate(s, a)
    <3>1. net[s][a] > 0 /\ s \in completed /\ outOfOrder' = outOfOrder /\ copies' = copies
      BY <2>3 DEF DeliverDuplicate, Take
    <3>2. copies = 0 /\ attempt[s] <= 1 => FALSE
      <4>1. net[s][a] \in Nat /\ a \in Nat /\ a >= 1 /\ a <= attempt[s]
        BY <1>0, <3>1 DEF AttemptInv, TypeOK, Attempts
      <4> QED BY <1>0, <3>1, <4>1 DEF EchoInv
    <3>3. copies' > 0 \/ attempt'[s] > 1
      BY <1>0, <2>2, <3>1, <3>2 DEF TypeOK
    <3> QED BY <1>0, <2>1, <2>2, <3>1, <3>3 DEF CountersInv, DuplicateNeedsCopy, OutOfOrderNeedsTimeout
  <2>4. CASE DeliverOutOfOrder(s, a)
    <3>1. /\ net[s][a] > 0 /\ s \notin completed /\ inflight[s] # "pending"
          /\ duplicate' = duplicate /\ copies' = copies
      BY <2>4 DEF DeliverOutOfOrder, Take
    <3>2. attempt[s] >= 1
      BY <1>0, <3>1 DEF AttemptInv, Attempts
    <3>3. Count + Warmup <= CompletedCap => Withdrawn(s)'
      BY <1>0, <2>2, <3>1, <3>2 DEF EchoInv
    <3> QED BY <1>0, <2>1, <2>2, <3>1, <3>3 DEF CountersInv, DuplicateNeedsCopy, OutOfOrderNeedsTimeout
  <2>5. CASE DeliverAnswer(s, a) \/ Lose(s, a)
    <3>1. UNCHANGED <<duplicate, outOfOrder, copies>>
      BY <2>5 DEF DeliverAnswer, Lose, counters
    <3> QED BY <1>0, <1>1, <2>1, <2>2, <3>1
  <2>6. CASE Duplicate(s, a)
    <3>1. UNCHANGED <<duplicate, outOfOrder>> /\ copies' > 0
      BY <1>0, <2>6 DEF Duplicate, counters, TypeOK
    <3> QED BY <1>0, <2>1, <2>2, <3>1 DEF CountersInv, DuplicateNeedsCopy, OutOfOrderNeedsTimeout
  <2> QED BY <1>3, <2>3, <2>4, <2>5, <2>6 DEF Deliver
<1>4. ASSUME UNCHANGED <<completed, duplicate, outOfOrder, copies, attempt, net, sample>>,
             \A t \in Seqs : \/ pc'[t] = pc[t]
                             \/ pc[t] = "absent" /\ pc'[t] = "queued",
             \A t \in Seqs : inflight'[t] # "pending" => inflight[t] # "pending"
      PROVE  CountersInv'
  <2>1. \A t \in Seqs : Withdrawn(t) => Withdrawn(t)'
    BY <1>4 DEF Withdrawn
  <2>2. \A t \in Seqs : attempt[t] >= 1 => (Withdrawn(t) <=> Withdrawn(t)')
    BY <1>0, <1>4 DEF Withdrawn, AttemptInv
  <2>3. \A t \in Seqs : EchoInv(t)'
    BY <1>0, <1>4, <2>2 DEF EchoInv
  <2> QED BY <1>0, <1>1, <1>4, <2>1, <2>3
<1>5. CASE EndWarmup
  BY <1>4, <1>5, SeqsSplit DEF EndWarmup, IInv, PhasesApart, counters, network
<1>6. CASE Report \/ Abort
  <2>1. \A t \in Seqs : inflight[t] = "none"
    BY <1>6, SeqsSplit DEF Report, Abort, Live, Active, IInv, PhasesApart, InflightIffAwaiting
  <2> QED BY <1>4, <1>6, <2>1 DEF Report, Abort, counters, network
<1>7. CASE UNCHANGED vars \/ Cancel \/ DeliverMalformed \/ Terminated
  BY <1>4, <1>7 DEF vars, Cancel, DeliverMalformed, Terminated, counters, network, run
<1> QED BY <1>2, <1>3, <1>5, <1>6, <1>7 DEF Next, RunTest

(* However the network reorders and delays, an echo is counted out of order only
   after a timer has fired or a coroutine was cancelled, and as a duplicate
   only after a copy or a retry (for _completed within its cap). *)
THEOREM CountersMeanSomething == Spec => []CountersHaveCauses
<1>1. IInv /\ CountersInv /\ [Next]_vars => (IInv /\ CountersInv)'
  BY NextIInv, CountersStep
<1>2. CountersInv => CountersHaveCauses
  BY DEF CountersInv, CountersHaveCauses
<1> QED BY InitIInv, CountersInit, <1>1, <1>2, PTL DEF Spec

-----------------------------------------------------------------------------
(* Finished sequences *)

(* Once send_one has returned, late echoes, the other coroutines and the end of
   the run leave its result alone. *)
THEOREM DoneStaysDone == Spec => DoneIsFinal
<1>1. ASSUME IInv, [Next]_vars, NEW t \in Seqs, pc[t] = "done"
      PROVE  /\ pc'[t] = "done" /\ sample'[t] = sample[t] /\ attempt'[t] = attempt[t]
             /\ inflight'[t] = "none"
  <2>0. inflight'[t] # "none" <=> pc'[t] = "await"
    BY <1>1, InflightStep DEF IInv, InflightIffAwaiting
  <2>1. ASSUME NEW s \in Seqs, Coroutine(s)
        PROVE  pc'[t] = pc[t] /\ sample'[t] = sample[t] /\ attempt'[t] = attempt[t]
    <3>1. t # s
      BY <1>1, <2>1 DEF Coroutine, Start, Send, Resume, TimeoutRetry, TimeoutGiveUp,
           CancelTask, Live, Active
    <3> QED BY <1>1, <2>1, <3>1, CoroutineFrame DEF Untouched, IInv
  <2>2. ASSUME NEW s \in Seqs, NEW a \in Attempts, Deliver(s, a) \/ Lose(s, a) \/ Duplicate(s, a)
        PROVE  UNCHANGED run
    BY <1>1, <2>2, DatagramFrame DEF IInv
  <2>3. CASE EndWarmup
    BY <1>1, <2>0, <2>3 DEF EndWarmup, IInv, PhasesApart
  <2>4. CASE UNCHANGED vars \/ Report \/ Abort \/ Cancel \/ DeliverMalformed \/ Terminated
    BY <1>1, <2>0, <2>4 DEF vars, run, Report, Abort, Cancel, DeliverMalformed, Terminated
  <2> QED BY <1>1, <2>0, <2>1, <2>2, <2>3, <2>4 DEF Next, RunTest, run
<1>2. IInv /\ [Next]_vars =>
        [\A s \in Seqs : pc[s] = "done" =>
            pc'[s] = "done" /\ sample'[s] = sample[s] /\ attempt'[s] = attempt[s]
                /\ inflight'[s] = "none"]_vars
  BY <1>1
<1> QED BY Invariance, <1>2, PTL DEF Spec, DoneIsFinal

-----------------------------------------------------------------------------
(* The client implements ProbeRun *)

\* Stutters in the terms of ProbeRun.
Silent == UNCHANGED <<Status, Stage>>

LEMMA StatusAt ==
    /\ \A s \in Measured : Status[s] = Verdict(s)
    /\ \A s \in Measured : Status'[s] = Verdict(s)'
BY DEF Status

(* Only its own coroutine changes the verdict of a sequence. *)
LEMMA VerdictFrame ==
    ASSUME TypeOK, NEW s \in Seqs, Coroutine(s), NEW v, s \in Measured => Verdict(s)' = v
    PROVE  /\ Stage' = Stage
           /\ s \in Measured => Status' = [Status EXCEPT ![s] = v]
           /\ s \notin Measured => Status' = Status
<1>1. phase' = phase
  BY DEF Coroutine, Start, Send, Resume, TimeoutRetry, TimeoutGiveUp, CancelTask
<1>2. \A t \in Measured : t # s => Verdict(t)' = Verdict(t)
  BY SeqsSplit, CoroutineFrame DEF Untouched, Verdict, Active
<1> QED BY <1>1, <1>2 DEF Status, Stage, Running

\* The instance of ProbeRun brings a copy of Cardinality.
LEMMA SameCardinality == \A S : Probe!Cardinality(S) = Cardinality(S)
BY DEF Cardinality, Probe!Cardinality

LEMMA Refinement == IInv /\ [Next]_vars => [Probe!ProbeNext]_<<Status, Stage>>
<1> SUFFICES ASSUME IInv, [Next]_vars PROVE Probe!ProbeNext \/ Silent
  BY DEF Silent
<1>0. TypeOK
  BY DEF IInv
<1>1. ASSUME UNCHANGED <<phase, pc, sample>> PROVE Silent
  BY <1>1 DEF Silent, Status, Stage, Verdict, Active, Running
<1>2. ASSUME NEW s \in Seqs, Coroutine(s) PROVE Probe!ProbeNext \/ Silent
  <2>0. CASE s \notin Measured
    BY <1>0, <1>2, <2>0, VerdictFrame DEF Silent
  <2>1. CASE s \in Measured /\ Start(s)
    <3>1. pc[s] = "queued" /\ pc'[s] = "acquire" /\ Running /\ Cardinality(ActiveSeqs) < Limit
      BY <1>0, <2>1 DEF Start, TypeOK, ActiveSeqs
    <3>2. Verdict(s) = "todo" /\ Verdict(s)' = "open" /\ Stage = "running"
      BY <3>1 DEF Verdict, Active, Stage, Running
    <3>3. {q \in Measured : Status[q] = "open"} \in SUBSET ActiveSeqs
      BY StatusAt, SeqsSplit DEF Verdict, ActiveSeqs
    <3>4. Cardinality({q \in Measured : Status[q] = "open"}) < Concurrency
      <4>1. Cardinality({q \in Measured : Status[q] = "open"}) \in Nat
        BY <3>3, ActiveFinite, FS_Subset, FS_CardinalityType
      <4> QED BY <3>1, <3>3, <4>1, ActiveFinite DEF Limit
    <3>5. Status' = [Status EXCEPT ![s] = "open"] /\ Stage' = Stage
      BY <1>0, <1>2, <2>1, <3>2, VerdictFrame
    <3>6. Status[s] = "todo"
      BY <2>1, <3>2, StatusAt
    <3>7. Probe!OpenProbe(s)
      BY <3>2, <3>4, <3>5, <3>6, SameCardinality DEF Probe!OpenProbe, Probe!Become
    <3> QED BY <2>1, <3>7 DEF Probe!ProbeNext
  <2>2. CASE s \in Measured /\ (Send(s) \/ TimeoutRetry(s))
    <3>1. Verdict(s)' = Verdict(s)
      BY <1>0, <2>2 DEF Send, TimeoutRetry, TypeOK, Verdict, Active
    <3>2. Status' = [Status EXCEPT ![s] = Verdict(s)] /\ Stage' = Stage
      BY <1>0, <1>2, <2>2, <3>1, VerdictFrame
    <3> QED BY <2>2, <3>2, StatusAt DEF Silent, Status
  <2>3. CASE s \in Measured /\ Resume(s)
    <3>1. pc[s] = "await" /\ pc'[s] = "done" /\ sample'[s] = answer[s] /\ Open
      BY <1>0, <2>3 DEF Resume, Finish, TypeOK
    <3>2. answer[s] # 0
      BY <2>3 DEF Resume, IInv, AttemptsInv, AttemptInv
    <3>3. Verdict(s) = "open" /\ Verdict(s)' = "received" /\ Stage \in {"running", "stopping"}
      BY <1>0, <3>1, <3>2 DEF Verdict, Active, Stage, Open, Running, TypeOK
    <3>4. Status' = [Status EXCEPT ![s] = "received"] /\ Stage' = Stage
      BY <1>0, <1>2, <2>3, <3>3, VerdictFrame
    <3>5. Probe!Receive(s)
      BY <2>3, <3>3, <3>4, StatusAt DEF Probe!Receive, Probe!Become
    <3> QED BY <2>3, <3>5 DEF Probe!ProbeNext, Probe!Verdict
  <2>4. CASE s \in Measured /\ TimeoutGiveUp(s)
    <3>1. pc[s] = "await" /\ pc'[s] = "done" /\ sample'[s] = 0 /\ Running
      BY <1>0, <2>4 DEF TimeoutGiveUp, Finish, TypeOK
    <3>2. Verdict(s) = "open" /\ Verdict(s)' = "lost" /\ Stage = "running"
      BY <3>1 DEF Verdict, Active, Stage, Running
    <3>3. Status' = [Status EXCEPT ![s] = "lost"] /\ Stage' = Stage
      BY <1>0, <1>2, <2>4, <3>2, VerdictFrame
    <3>4. Probe!GiveUp(s)
      BY <2>4, <3>2, <3>3, StatusAt DEF Probe!GiveUp, Probe!Become
    <3> QED BY <2>4, <3>4 DEF Probe!ProbeNext, Probe!Verdict
  <2>5. CASE s \in Measured /\ CancelTask(s)
    <3>1. Live(s) /\ pc'[s] = "cancelled" /\ phase = "cancelling"
      BY <1>0, <2>5 DEF CancelTask, TypeOK
    <3>2. Verdict(s) \in {"todo", "open"} /\ Verdict(s)' = "dropped" /\ Stage = "stopping"
      BY <3>1 DEF Verdict, Live, Active, Stage, Running
    <3>3. Status' = [Status EXCEPT ![s] = "dropped"] /\ Stage' = Stage
      BY <1>0, <1>2, <2>5, <3>2, VerdictFrame
    <3>4. Probe!Drop(s)
      BY <2>5, <3>2, <3>3, StatusAt DEF Probe!Drop, Probe!Become
    <3> QED BY <2>5, <3>4 DEF Probe!ProbeNext, Probe!Verdict
  <2> QED BY <1>2, <2>0, <2>1, <2>2, <2>3, <2>4, <2>5 DEF Coroutine
<1>3. CASE EndWarmup
  <2>1. \A s \in Measured : Verdict(s)' = Verdict(s)
    BY <1>3, SeqsSplit DEF EndWarmup, IInv, PhasesApart, Verdict, Active
  <2> QED BY <1>3, <2>1 DEF EndWarmup, Silent, Status, Stage, Running
<1>4. CASE Report
  <2>1. Stage = "running" /\ Stage' = "reported" /\ Status' = Status
    BY <1>4 DEF Report, Stage, Running, Status, Verdict, Active
  <2>2. \A s \in Measured : Verdict(s) \in {"received", "lost"}
    BY <1>4 DEF Report, Verdict, Active
  <2> QED BY <2>1, <2>2, StatusAt DEF Probe!ProbeNext, Probe!ReportAll
<1>5. CASE Abort
  <2>1. Stage = "stopping" /\ Stage' = "aborted" /\ Status' = Status
    BY <1>5 DEF Abort, Stage, Running, Status, Verdict, Active
  <2>2. \A s \in Measured : Verdict(s) # "open"
    BY <1>0, <1>5, SeqsSplit DEF Abort, Verdict, Live, Active
  <2> QED BY <2>1, <2>2, StatusAt DEF Probe!ProbeNext, Probe!AbortAll
<1>6. CASE Cancel
  <2>1. Stage = "running" /\ Stage' = "stopping" /\ Status' = Status
    BY <1>6 DEF Cancel, Stage, Running, Status, Verdict, Active
  <2> QED BY <2>1 DEF Probe!ProbeNext, Probe!Stop
<1>7. ASSUME NEW s \in Seqs, NEW a \in Attempts, Deliver(s, a) \/ Lose(s, a) \/ Duplicate(s, a)
      PROVE  Silent
  BY <1>0, <1>1, <1>7, DatagramFrame DEF run
<1>8. CASE UNCHANGED vars \/ DeliverMalformed \/ Terminated
  BY <1>1, <1>8 DEF vars, run, DeliverMalformed, Terminated
<1> QED BY <1>2, <1>3, <1>4, <1>5, <1>6, <1>7, <1>8 DEF Next, RunTest

(* The safety part of ImplementsProbeRun: every run of the client is a run of
   the abstract one, in which each probe is opened, gets one verdict and keeps
   it, and a report has a verdict for all. *)
THEOREM ClientImplementsProbeRun == Spec => Probe!ProbeSafety
<1>1. Init => Probe!ProbeInit
  <2> SUFFICES ASSUME Init PROVE Probe!ProbeInit
    OBVIOUS
  <2>1. \A s \in Measured : Verdict(s) = "todo"
    BY SeqsSplit DEF Init, Verdict, Active
  <2>2. Stage = "running"
    BY DEF Init, Stage, Running
  <2> QED BY <2>1, <2>2 DEF Probe!ProbeInit, Status
<1> QED BY Invariance, <1>1, Refinement, PTL DEF Spec, Probe!ProbeSafety, Probe!probeVars
=============================================================================
