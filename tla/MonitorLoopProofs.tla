-------------------------- MODULE MonitorLoopProofs ---------------------------
(* The invariants of the monitor, and that what it shows is a TargetBoard, for *)
(* any labels, contents of the targets file, edits and settings.               *)
EXTENDS MonitorLoop, TLAPS

(* Between two cycles nothing is left of the one before, and before the startup *)
(* there are no targets. *)
BetweenCycles ==
    /\ pc # "cycle" => todo = {} /\ failures = {} /\ DOMAIN results = {}
    /\ pc = "boot" => targets = {}

Views ==
    /\ DOMAIN states = targets
    /\ DOMAIN latest = {l \in targets : states[l].latest # "none"}
    /\ DOMAIN history = DOMAIN latest
    /\ \A l \in DOMAIN latest : latest[l] = states[l].latest

(* The state of a target tells its last verdict, except for those the cycle has *)
(* tested, whose verdicts are in results and failures. *)
Told(l) ==
    /\ verdict[l] = "none" => states[l].latest = "none" /\ ~ states[l].failing
    /\ verdict[l] = "failed" => states[l].failing
    /\ verdict[l] \in Quality => states[l].latest = verdict[l] /\ ~ states[l].failing

Pending(l) ==
    /\ verdict[l] \in Quality => l \in DOMAIN results /\ results[l] = verdict[l]
    /\ verdict[l] = "failed" => l \in failures /\ l \notin DOMAIN results
    /\ verdict[l] # "none"

Verdicts ==
    /\ \A l \in Labels \ targets : verdict[l] = "none"
    /\ \A l \in targets :
          IF pc = "cycle" /\ l \notin todo THEN Pending(l)
          ELSE Told(l) /\ l \notin failures /\ l \notin DOMAIN results

IInv == TypeOK /\ BetweenCycles /\ Views /\ Verdicts /\ NoLostWakeup

-----------------------------------------------------------------------------
(* Types *)

LEMMA AppliedType ==
    ASSUME settings \in Settings, NEW c \in Contents
    PROVE  Applied(c) \in Settings
<1> SUFFICES ASSUME NEW k \in Keys,
                    k \in DOMAIN c.section, Bad(c) \intersect (Before(k) \union {k}) = {}
             PROVE  c.section[k] \in Nat \ {0}
    BY DEF Applied, Settings
<1>1. c.section[k] \in Nat
    BY ContentsAssumption
<1> QED
    BY <1>1 DEF Bad

LEMMA NewStateType == NewState \in TargetState
BY MonitorBoundsAssumption DEF NewState, TargetState

LEMMA InitializedType ==
    ASSUME IsTable(states, TargetState), NEW T \in SUBSET Labels
    PROVE  IsTable(Initialized(T), TargetState)
BY NewStateType DEF IsTable, Initialized

LEMMA PrunedType ==
    ASSUME NEW f, NEW S, IsTable(f, S), NEW T
    PROVE  IsTable(Pruned(f, T), S)
BY DEF IsTable, Pruned

LEMMA EnteredType ==
    ASSUME TypeOK, NEW l \in DOMAIN states \union DOMAIN results \union failures
    PROVE  Entered(l) \in TargetState
<1>1. CASE l \in DOMAIN results
  <2>1. results[l] \in Quality
    BY <1>1 DEF TypeOK, IsTable
  <2> QED
    BY <1>1, <2>1, MonitorBoundsAssumption DEF Entered, TargetState
<1>2. CASE l \notin DOMAIN results /\ l \in failures
  <2> DEFINE s == IF l \in DOMAIN states THEN states[l] ELSE NewState
  <2>1. s \in TargetState
    BY NewStateType DEF TypeOK, IsTable
  <2>2. [s EXCEPT !.failing = TRUE] \in TargetState
    BY <2>1 DEF TargetState
  <2> QED
    BY <1>2, <2>2 DEF Entered
<1>3. CASE l \notin DOMAIN results /\ l \notin failures
    BY <1>3 DEF Entered, TypeOK, IsTable
<1> QED
    BY <1>1, <1>2, <1>3

LEMMA AppendedType ==
    ASSUME TypeOK, NEW l
    PROVE  Appended(l) \in Nat \ {0} /\ Appended(l) <= settings["history_limit"]
<1>1. settings["history_limit"] \in Nat \ {0}
    BY DEF TypeOK, Settings, Keys
<1>2. l \in DOMAIN history => history[l] \in Nat \ {0}
    BY DEF TypeOK, IsTable
<1> QED
    BY <1>1, <1>2 DEF Appended, Min2

-----------------------------------------------------------------------------
(* One step per action.  Everything but the tables is kept or one of few values. *)
LEMMA TypeStep == TypeOK /\ BetweenCycles /\ [Next]_vars => TypeOK'
<1> SUFFICES ASSUME TypeOK, BetweenCycles, [Next]_vars PROVE TypeOK'
    OBVIOUS
<1> USE DEF TypeOK
<1> USE DEF disk, runtime, views, cycle, events
<1>1. CASE LoadInitial
  <2>1. CASE Accepted(file)
    <3>1. file.targets \in SUBSET Labels
      BY ContentsAssumption
    <3>2. Applied(file) \in Settings
      BY AppliedType
    <3>3. IsTable(Initialized(file.targets), TargetState)
      BY <3>1, InitializedType
    <3>4. todo = {} /\ failures = {} /\ DOMAIN results = {}
      BY <1>1 DEF LoadInitial, BetweenCycles
    <3> QED
      BY <1>1, <2>1, <3>1, <3>2, <3>3, <3>4 DEF LoadInitial
  <2>2. CASE ~ Accepted(file)
    BY <1>1, <2>2 DEF LoadInitial
  <2> QED
    BY <2>1, <2>2
<1>2. CASE StatInitial
    BY <1>2 DEF StatInitial, Stat
<1>3. CASE Stop
    BY <1>3 DEF Stop
<1>4. CASE SkipReload \/ Unchanged
  <2>1. {shutdown', reloadNow', wakeup', asked'} \subseteq BOOLEAN
    BY <1>4 DEF SkipReload, Unchanged
  <2>2. UNCHANGED <<disk, runtime, views, results, failures, verdict>>
    BY <1>4 DEF SkipReload, Unchanged, StartCycle
  <2>3. pc' = "cycle" /\ seen' = 0 /\ todo' = targets
    BY <1>4 DEF SkipReload, Unchanged, StartCycle
  <2>4. seen' \in 0 .. mtime' /\ todo' \in SUBSET targets'
    BY <2>2, <2>3
  <2> QED
    BY <2>1, <2>2, <2>3, <2>4
<1>5. CASE StatReload
    BY <1>5 DEF StatReload, Stat
<1>6. CASE Accept
  <2>1. file.targets \in SUBSET Labels
    BY ContentsAssumption
  <2>2. Applied(file) \in Settings
    BY AppliedType
  <2>3. IsTable(Pruned(Initialized(file.targets), file.targets), TargetState)
    BY <2>1, InitializedType, PrunedType
  <2>4. IsTable(Pruned(latest, file.targets), Quality)
    BY PrunedType
  <2>5. IsTable(Pruned(history, file.targets), Nat \ {0})
    BY PrunedType
  <2>6. failures = {} /\ DOMAIN results = {}
    BY <1>6 DEF Accept, BetweenCycles
  <2>7. verdict' \in [Labels -> Quality \union {"none", "failed"}]
    BY <1>6 DEF Accept
  <2>8. {shutdown', reloadNow', wakeup', asked'} \subseteq BOOLEAN
    BY <1>6 DEF Accept
  <2>9. seen' \in 0 .. mtime' /\ lastMtime' \in 0 .. mtime' /\ pc' = "cycle"
    BY <1>6 DEF Accept, StartCycle
  <2>10. todo' = file.targets /\ UNCHANGED <<file, mtime, reloading, stateFile, results, failures>>
    BY <1>6 DEF Accept, StartCycle
  <2>11. reloadError' = FALSE /\ unseen' = "none"
    BY <1>6 DEF Accept
  <2>12. settings' \in Settings /\ targets' = file.targets
    BY <1>6, <2>2 DEF Accept
  <2>13. IsTable(states', TargetState) /\ IsTable(latest', Quality) /\ IsTable(history', Nat \ {0})
    BY <1>6, <2>3, <2>4, <2>5 DEF Accept
  <2> QED
    BY <2>1, <2>6, <2>7, <2>8, <2>9, <2>10, <2>11, <2>12, <2>13
<1>7. CASE Reject
  <2>1. settings' \in Settings
    BY <1>7, AppliedType DEF Reject
  <2>2. {shutdown', reloadNow', wakeup', asked'} \subseteq BOOLEAN
    BY <1>7 DEF Reject
  <2>3. seen' \in 0 .. mtime' /\ lastMtime' \in 0 .. mtime' /\ pc' = "cycle" /\ todo' = targets
    BY <1>7 DEF Reject, StartCycle
  <2>4. reloadError' = TRUE /\ unseen' = "none"
    BY <1>7 DEF Reject
  <2>5. UNCHANGED <<file, mtime, reloading, targets, views, results, failures, verdict>>
    BY <1>7 DEF Reject, StartCycle
  <2> QED
    BY <2>1, <2>2, <2>3, <2>4, <2>5
<1>8. CASE ReloadFails
    BY <1>8 DEF ReloadFails
<1>9. ASSUME NEW l \in Labels, TestEnds(l) PROVE TypeOK'
  <2>1. l \in targets /\ todo' \in SUBSET targets /\ failures' \in SUBSET targets
    BY <1>9 DEF TestEnds
  <2>2. verdict' \in [Labels -> Quality \union {"none", "failed"}]
    BY <1>9 DEF TestEnds, Quality
  <2>3. IsTable(results', Quality) /\ DOMAIN results' \subseteq targets
    BY <1>9, <2>1 DEF TestEnds, Quality, IsTable
  <2> QED
    BY <1>9, <2>1, <2>2, <2>3 DEF TestEnds
<1>10. CASE FinishCycle
  <2>1. IsTable(states', TargetState)
    BY <1>10, EnteredType DEF FinishCycle, IsTable
  <2>2. IsTable(latest', Quality)
    BY <1>10 DEF FinishCycle, IsTable
  <2>3. IsTable(history', Nat \ {0})
    BY <1>10, AppendedType DEF FinishCycle, IsTable
  <2>4. stateFile' \in SUBSET Labels
    BY <1>10, <2>1 DEF FinishCycle, IsTable
  <2>5. IsTable(results', Quality) /\ DOMAIN results' = {}
    BY <1>10 DEF FinishCycle, IsTable, Empty
  <2>6. pc' \in {"top", "wait"} /\ wakeup' \in BOOLEAN
    BY <1>10 DEF FinishCycle, AfterCycle
  <2> QED
    BY <1>10, <2>1, <2>2, <2>3, <2>4, <2>5, <2>6 DEF FinishCycle
<1>11. CASE Wait
    BY <1>11 DEF Wait
<1>12. CASE SignalStop \/ SignalReload
    BY <1>12 DEF SignalStop, SignalReload
<1>13. CASE Edit
    BY <1>13 DEF Edit
<1>14. CASE Tick
  <2>1. ASSUME NEW l \in DOMAIN states
        PROVE  [states[l] EXCEPT !.age = IF states[l].latest = "none" THEN @ ELSE Min2(@ + 1, AgeCap)]
                   \in TargetState
    <3>1. states[l] \in TargetState
      BY DEF IsTable
    <3>2. (IF states[l].latest = "none" THEN states[l].age ELSE Min2(states[l].age + 1, AgeCap))
              \in 0 .. AgeCap
      BY <3>1, MonitorBoundsAssumption DEF TargetState, Min2
    <3> QED
      BY <3>1, <3>2 DEF TargetState
  <2>2. IsTable(states', TargetState)
    BY <1>14, <2>1 DEF Tick, IsTable
  <2> QED
    BY <1>14, <2>2 DEF Tick
<1>15. CASE Terminated \/ UNCHANGED vars
    BY <1>15 DEF Terminated, vars
<1> QED
    BY <1>1, <1>2, <1>3, <1>4, <1>5, <1>6, <1>7, <1>8, <1>9, <1>10, <1>11, <1>12, <1>13, <1>14,
       <1>15 DEF Next, Loop

LEMMA BetweenStep == BetweenCycles /\ [Next]_vars => BetweenCycles'
<1> SUFFICES ASSUME BetweenCycles, [Next]_vars PROVE BetweenCycles'
    OBVIOUS
<1> USE DEF BetweenCycles, disk, runtime, views, cycle, events
<1>1. CASE LoadInitial \/ StatInitial \/ Stop \/ StatReload \/ ReloadFails \/ Wait
    BY <1>1 DEF LoadInitial, StatInitial, Stop, StatReload, ReloadFails, Wait
<1>2. CASE SkipReload \/ Unchanged \/ Accept \/ Reject
    BY <1>2 DEF SkipReload, Unchanged, Accept, Reject, StartCycle
<1>3. ASSUME NEW l \in Labels, TestEnds(l) PROVE BetweenCycles'
    BY <1>3 DEF TestEnds
<1>4. CASE FinishCycle
    BY <1>4 DEF FinishCycle, AfterCycle, Empty
<1>5. CASE SignalStop \/ SignalReload \/ Edit \/ Tick
    BY <1>5 DEF SignalStop, SignalReload, Edit, Tick, Awaiting
<1>6. CASE Terminated \/ UNCHANGED vars
    BY <1>6 DEF Terminated, vars
<1> QED
    BY <1>1, <1>2, <1>3, <1>4, <1>5, <1>6 DEF Next, Loop

-----------------------------------------------------------------------------
(* The views *)

LEMMA ViewsStep == TypeOK /\ BetweenCycles /\ Views /\ [Next]_vars => Views'
<1> SUFFICES ASSUME TypeOK, BetweenCycles, Views, [Next]_vars PROVE Views'
    OBVIOUS
<1> USE DEF disk, runtime, views, cycle, events
<1>1. CASE LoadInitial
  <2>1. CASE Accepted(file)
    <3>1. targets = {} /\ DOMAIN states = {}
      BY <1>1 DEF LoadInitial, BetweenCycles, Views
    <3>2. DOMAIN latest = {} /\ DOMAIN history = {}
      BY <3>1 DEF Views
    <3>3. DOMAIN states' = targets'
      BY <1>1, <2>1, <3>1 DEF LoadInitial, Initialized
    <3>4. \A l \in targets' : states'[l].latest = "none"
      BY <1>1, <2>1, <3>1 DEF LoadInitial, Initialized, NewState
    <3> QED
      BY <1>1, <2>1, <3>2, <3>3, <3>4 DEF LoadInitial, Views
  <2> QED
    BY <1>1, <2>1 DEF LoadInitial, Views
<1>2. CASE Accept
  <2> DEFINE T == file.targets
  <2>1. states' = [l \in T |-> IF l \in DOMAIN states THEN states[l] ELSE NewState]
    BY <1>2 DEF Accept, Pruned, Initialized
  <2>2. DOMAIN latest' = DOMAIN latest \intersect T /\ \A l \in DOMAIN latest' : latest'[l] = latest[l]
    BY <1>2 DEF Accept, Pruned
  <2>3. DOMAIN history' = DOMAIN history \intersect T
    BY <1>2 DEF Accept, Pruned
  <2>4. targets' = T
    BY <1>2 DEF Accept
  <2> QED
    BY <2>1, <2>2, <2>3, <2>4 DEF Views, NewState
<1>3. CASE FinishCycle
  <2>1. DOMAIN results \subseteq targets /\ failures \subseteq targets /\ targets' = targets
    BY <1>3 DEF FinishCycle, TypeOK
  <2>2. states' = [l \in targets |-> Entered(l)]
    BY <1>3, <2>1 DEF FinishCycle, Views
  <2>3. ASSUME NEW l \in targets
        PROVE  Entered(l).latest = IF l \in DOMAIN results THEN results[l] ELSE states[l].latest
    <3>1. states[l] \in TargetState
      BY DEF Views, TypeOK, IsTable
    <3>2. [states[l] EXCEPT !.failing = TRUE].latest = states[l].latest
      BY <3>1 DEF TargetState
    <3> QED
      BY <3>2 DEF Entered, Views
  <2>4. \A l \in DOMAIN results : results[l] # "none"
    BY DEF TypeOK, IsTable, Quality
  <2>5. latest' = [l \in DOMAIN latest \union DOMAIN results |->
                     IF l \in DOMAIN results THEN results[l] ELSE latest[l]]
    BY <1>3 DEF FinishCycle
  <2>6. DOMAIN history' = DOMAIN history \union DOMAIN results
    BY <1>3 DEF FinishCycle
  <2> QED
    BY <2>1, <2>2, <2>3, <2>4, <2>5, <2>6 DEF Views
<1>4. CASE Tick
  <2>1. ASSUME NEW l \in DOMAIN states PROVE states'[l].latest = states[l].latest
    <3>1. states[l] \in TargetState
      BY DEF TypeOK, IsTable
    <3> QED
      BY <1>4, <3>1 DEF Tick, TargetState
  <2>2. DOMAIN states' = DOMAIN states
    BY <1>4 DEF Tick
  <2> QED
    BY <1>4, <2>1, <2>2 DEF Tick, Views
<1>5. CASE UNCHANGED <<states, latest, history, targets>>
    BY <1>5 DEF Views
<1>6. ASSUME NEW l \in Labels, TestEnds(l) PROVE UNCHANGED <<states, latest, history, targets>>
    BY <1>6 DEF TestEnds
<1> QED
    BY <1>1, <1>2, <1>3, <1>4, <1>5, <1>6 DEF Next, Loop, StatInitial, Stop, SkipReload, Unchanged,
       StatReload, Reject, ReloadFails, Wait, SignalStop, SignalReload, Edit, Terminated, vars

LEMMA WakeupStep == NoLostWakeup /\ [Next]_vars => NoLostWakeup'
<1> SUFFICES ASSUME NoLostWakeup, [Next]_vars PROVE NoLostWakeup'
    OBVIOUS
<1> USE DEF NoLostWakeup, disk, runtime, views, cycle, events
<1>1. ASSUME NEW l \in Labels, TestEnds(l) PROVE NoLostWakeup'
    BY <1>1 DEF TestEnds
<1>2. CASE FinishCycle
    BY <1>2 DEF FinishCycle, AfterCycle
<1>3. CASE SignalStop \/ SignalReload \/ Edit \/ Tick \/ Terminated \/ UNCHANGED vars
    BY <1>3 DEF SignalStop, SignalReload, Edit, Tick, Terminated, vars
<1>4. CASE LoadInitial \/ StatInitial \/ Stop \/ SkipReload \/ Unchanged \/ StatReload
    BY <1>4 DEF LoadInitial, StatInitial, Stop, SkipReload, Unchanged, StatReload, StartCycle
<1>5. CASE Accept \/ Reject \/ ReloadFails \/ Wait
    BY <1>5 DEF Accept, Reject, ReloadFails, Wait, StartCycle
<1> QED
    BY <1>1, <1>2, <1>3, <1>4, <1>5 DEF Next, Loop

-----------------------------------------------------------------------------
(* The verdicts *)

(* A cycle starts with every target of it to be tested. *)
LEMMA VerdictsStart ==
    ASSUME Verdicts, BetweenCycles, pc # "cycle", pc' = "cycle", todo' = targets',
           UNCHANGED <<targets, states, verdict, results, failures>>
    PROVE  Verdicts'
BY DEF Verdicts, Told

LEMMA VerdictsAccept ==
    ASSUME TypeOK, BetweenCycles, Views, Verdicts, Accept
    PROVE  Verdicts'
<1> DEFINE T == file.targets
<1>1. states' = [l \in T |-> IF l \in DOMAIN states THEN states[l] ELSE NewState]
    BY DEF Accept, Pruned, Initialized
<1>2. targets' = T /\ todo' = T /\ failures' = {} /\ DOMAIN results' = {} /\ pc # "cycle"
    BY DEF Accept, StartCycle, BetweenCycles
<1>3. verdict' = [l \in Labels |-> IF l \in T THEN verdict[l] ELSE "none"]
    BY DEF Accept
<1>4. T \in SUBSET Labels
    BY ContentsAssumption DEF TypeOK
<1>5. ASSUME NEW l \in T PROVE Told(l)'
  <2>1. CASE l \in targets
    BY <1>1, <1>2, <1>3, <1>4, <2>1 DEF Verdicts, Views, Told
  <2>2. CASE l \notin targets
    <3>1. verdict'[l] = "none" /\ states'[l] = NewState
      BY <1>1, <1>3, <1>4, <2>2 DEF Verdicts, Views
    <3> QED
      BY <3>1 DEF Told, NewState, Quality
  <2> QED
    BY <2>1, <2>2
<1> QED
    BY <1>2, <1>3, <1>5 DEF Verdicts

LEMMA VerdictsTestEnds ==
    ASSUME TypeOK, Verdicts, NEW k \in Labels, TestEnds(k)
    PROVE  Verdicts'
<1>1. k \in todo /\ k \in targets /\ pc = "cycle" /\ todo' = todo \ {k}
    BY DEF TestEnds, TypeOK
<1>2. Told(k) /\ k \notin failures /\ k \notin DOMAIN results
    BY <1>1 DEF Verdicts
<1>3. UNCHANGED <<targets, pc, states>>
    BY DEF TestEnds, runtime, views
<1>4. ASSUME NEW l \in Labels, l # k
      PROVE  /\ verdict'[l] = verdict[l] /\ (l \in failures' <=> l \in failures)
             /\ l \in DOMAIN results' <=> l \in DOMAIN results
             /\ l \in DOMAIN results => results'[l] = results[l]
    BY <1>4 DEF TestEnds, TypeOK
<1>5. Pending(k)'
  <2>1. CASE /\ failures' = failures \union {k} /\ results' = results
             /\ verdict' = [verdict EXCEPT ![k] = "failed"]
    <3>1. verdict'[k] = "failed"
      BY <2>1 DEF TypeOK
    <3> QED
      BY <1>2, <2>1, <3>1 DEF Pending, Quality
  <2>2. ASSUME NEW q \in Quality,
               results' = [x \in DOMAIN results \union {k} |-> IF x = k THEN q ELSE results[x]],
               verdict' = [verdict EXCEPT ![k] = q]
        PROVE  Pending(k)'
    <3>1. verdict'[k] = q /\ k \in DOMAIN results' /\ results'[k] = q
      BY <2>2 DEF TypeOK
    <3> QED
      BY <3>1 DEF Pending, Quality
  <2> QED
    BY <2>1, <2>2 DEF TestEnds, Quality
<1>6. ASSUME NEW l \in targets, l # k
      PROVE  IF pc' = "cycle" /\ l \notin todo' THEN Pending(l)'
             ELSE Told(l)' /\ l \notin failures' /\ l \notin DOMAIN results'
  <2>1. l \in Labels
    BY DEF TypeOK
  <2>2. l \in todo' <=> l \in todo
    BY <1>1, <1>6
  <2> QED
    BY <1>1, <1>3, <1>4, <1>6, <2>1, <2>2 DEF Verdicts, Pending, Told
<1>7. \A l \in Labels \ targets : verdict'[l] = "none"
    BY <1>1, <1>4 DEF Verdicts
<1> QED
    BY <1>1, <1>3, <1>5, <1>6, <1>7 DEF Verdicts

(* After the cycle the state of each target tells its verdict. *)
LEMMA VerdictsFinish ==
    ASSUME TypeOK, Views, Verdicts, FinishCycle
    PROVE  Verdicts'
<1>1. DOMAIN results \subseteq targets /\ failures \subseteq targets
    BY DEF TypeOK
<1>2. states' = [l \in targets |-> Entered(l)] /\ UNCHANGED <<targets, verdict, todo>>
    BY <1>1 DEF FinishCycle, Views, runtime
<1>3. pc = "cycle" /\ todo = {} /\ pc' # "cycle" /\ failures' = {} /\ DOMAIN results' = {}
    BY DEF FinishCycle, AfterCycle, Empty
<1>4. ASSUME NEW l \in targets PROVE Told(l)'
  <2>1. Pending(l) /\ states'[l] = Entered(l) /\ verdict'[l] = verdict[l]
    BY <1>2, <1>3 DEF Verdicts
  <2>2. verdict[l] \in Quality \union {"none", "failed"}
    BY DEF TypeOK
  <2>3. states[l] \in TargetState /\ l \in DOMAIN states
    BY DEF Views, TypeOK, IsTable
  <2>4. CASE verdict[l] \in Quality
    <3>1. states'[l].latest = verdict[l] /\ ~ states'[l].failing
      BY <2>1, <2>4 DEF Pending, Entered
    <3> QED
      BY <2>1, <2>4, <3>1 DEF Told, Quality
  <2>5. CASE verdict[l] = "failed"
    <3>1. states'[l] = [states[l] EXCEPT !.failing = TRUE]
      BY <2>1, <2>3, <2>5 DEF Pending, Entered
    <3>2. states'[l].failing
      BY <2>3, <3>1 DEF TargetState
    <3> QED
      BY <2>1, <2>5, <3>2 DEF Told, Quality
  <2> QED
    BY <2>1, <2>2, <2>4, <2>5 DEF Pending
<1> QED
    BY <1>2, <1>3, <1>4 DEF Verdicts

LEMMA VerdictsStep == TypeOK /\ BetweenCycles /\ Views /\ Verdicts /\ [Next]_vars => Verdicts'
<1> SUFFICES ASSUME TypeOK, BetweenCycles, Views, Verdicts, [Next]_vars PROVE Verdicts'
    OBVIOUS
<1> USE DEF disk, runtime, views, cycle, events
<1>1. CASE LoadInitial
  <2>1. targets = {} /\ pc = "boot" /\ pc' # "cycle"
    BY <1>1 DEF LoadInitial, BetweenCycles
  <2>2. todo = {} /\ failures = {} /\ DOMAIN results = {} /\ DOMAIN states = {}
    BY <2>1 DEF BetweenCycles, Views
  <2>3. UNCHANGED <<results, failures, verdict>>
    BY <1>1 DEF LoadInitial
  <2>4. targets' \in SUBSET Labels /\ \A l \in targets' : states'[l] = NewState
    BY <1>1, <2>1, <2>2, ContentsAssumption DEF LoadInitial, Initialized, TypeOK
  <2> QED
    BY <2>1, <2>2, <2>3, <2>4 DEF Verdicts, Told, NewState, Quality
<1>2. CASE SkipReload \/ Unchanged \/ Reject
    BY <1>2, VerdictsStart DEF SkipReload, Unchanged, Reject, StartCycle
<1>3. CASE Accept
    BY <1>3, VerdictsAccept
<1>4. ASSUME NEW l \in Labels, TestEnds(l) PROVE Verdicts'
    BY <1>4, VerdictsTestEnds
<1>5. CASE FinishCycle
    BY <1>5, VerdictsFinish
<1>6. CASE Tick
  <2>1. ASSUME NEW l \in DOMAIN states
        PROVE  states'[l].latest = states[l].latest /\ states'[l].failing = states[l].failing
    <3>1. states[l] \in TargetState
      BY DEF TypeOK, IsTable
    <3> QED
      BY <1>6, <3>1 DEF Tick, TargetState
  <2>2. UNCHANGED <<pc, targets, todo, results, failures, verdict>>
    BY <1>6 DEF Tick
  <2> QED
    BY <2>1, <2>2 DEF Verdicts, Told, Pending, Views
<1>7. CASE UNCHANGED <<targets, states, verdict, todo, results, failures>>
              /\ (pc = "cycle" <=> pc' = "cycle")
    BY <1>7 DEF Verdicts, Told, Pending
<1>8. CASE StatInitial \/ Stop \/ StatReload \/ ReloadFails \/ Wait
    BY <1>7, <1>8 DEF StatInitial, Stop, StatReload, ReloadFails, Wait
<1>9. CASE SignalStop \/ SignalReload \/ Edit \/ Terminated \/ UNCHANGED vars
    BY <1>7, <1>9 DEF SignalStop, SignalReload, Edit, Terminated, vars
<1> QED
    BY <1>1, <1>2, <1>3, <1>4, <1>5, <1>6, <1>8, <1>9 DEF Next, Loop

-----------------------------------------------------------------------------
(* The invariants *)

LEMMA InitIInv == Init => IInv
<1> SUFFICES ASSUME Init PROVE IInv
    OBVIOUS
<1>1. TypeOK
  <2>1. IsTable(states, TargetState) /\ IsTable(latest, Quality)
            /\ IsTable(history, Nat \ {0}) /\ IsTable(results, Quality)
      BY DEF Init, IsTable, Empty
  <2>2. DOMAIN results = {}
      BY DEF Init, Empty
  <2>3. settings \in Settings /\ reloading \in BOOLEAN /\ reloadError \in BOOLEAN
      BY DefaultsAssumption DEF Init
  <2>4. /\ file \in Contents /\ mtime \in Nat \ {0}
        /\ seen \in 0 .. mtime /\ lastMtime \in 0 .. mtime
        /\ unseen \in {"none", "startup", "late"}
        /\ pc \in {"boot", "stat", "top", "load", "cycle", "wait", "stopped", "failed"}
      BY DEF Init
  <2>5. /\ targets \in SUBSET Labels /\ stateFile \in SUBSET Labels
        /\ todo \in SUBSET targets /\ failures \in SUBSET targets
        /\ DOMAIN results \subseteq targets
      BY <2>2 DEF Init
  <2>6. {shutdown, reloadNow, wakeup, asked} \subseteq BOOLEAN
      BY DEF Init
  <2>7. verdict \in [Labels -> Quality \union {"none", "failed"}]
      BY DEF Init
  <2> QED
      BY <2>1, <2>3, <2>4, <2>5, <2>6, <2>7, Zenon DEF TypeOK
<1>2. BetweenCycles /\ NoLostWakeup
    BY DEF Init, BetweenCycles, NoLostWakeup, Empty
<1>3. Views
    BY DEF Init, Views, Empty
<1>4. Verdicts
    BY DEF Init, Verdicts
<1> QED
    BY <1>1, <1>2, <1>3, <1>4 DEF IInv

LEMMA NextIInv == IInv /\ [Next]_vars => IInv'
BY TypeStep, BetweenStep, ViewsStep, VerdictsStep, WakeupStep DEF IInv

LEMMA Invariance == Spec => []IInv
BY InitIInv, NextIInv, PTL DEF Spec

(* Every variable keeps its type: the tables speak of labels, the settings stay
   positive, the cycle tests targets in force. *)
THEOREM TypeCorrect == Spec => []TypeOK
<1>1. IInv => TypeOK
    BY DEF IInv
<1> QED
    BY <1>1, Invariance, PTL

(* /health, /api, /metrics and the histories speak of the targets in force and
   of one result per target, whatever reloads and cycles come in between. *)
THEOREM ViewsStayTrue == Spec => []ViewsAgree
<1>1. IInv => ViewsAgree
    BY DEF IInv, Views, ViewsAgree
<1> QED
    BY <1>1, Invariance, PTL

(* A wait never begins with a signal handled and not looked at. *)
THEOREM NothingSleepsThrough == Spec => []NoLostWakeup
<1>1. IInv => NoLostWakeup
    BY DEF IInv
<1> QED
    BY <1>1, Invariance, PTL

(* A state that is "ok" had replies last time and has not failed since. *)
LEMMA OkIsGood ==
    ASSUME NEW s \in TargetState, Status(s) = "ok"
    PROVE  s.latest = "good" /\ ~ s.failing
BY DEF Status, TargetState, Quality

(* /health answers 200 outside a cycle only if the last test of every target
   since it was configured had replies, and its target_up is 1. *)
THEOREM HealthIsHonest == Spec => []HealthHonest
<1>1. IInv => HealthHonest
  <2> SUFFICES ASSUME IInv, HealthOk, pc # "cycle", NEW l \in targets
               PROVE  verdict[l] = "good" /\ TargetUp(l)
      BY DEF HealthHonest
  <2>1. l \in DOMAIN states /\ states[l] \in TargetState
      BY DEF IInv, Views, TypeOK, IsTable
  <2>2. states[l].latest = "good" /\ ~ states[l].failing
      BY <2>1, OkIsGood DEF HealthOk
  <2>3. Told(l)
      BY DEF IInv, Verdicts
  <2>4. verdict[l] \in Quality \union {"none", "failed"}
      BY DEF IInv, TypeOK
  <2>5. l \in DOMAIN latest /\ latest[l] = "good"
      BY <2>2 DEF IInv, Views
  <2> QED
      BY <2>2, <2>3, <2>4, <2>5 DEF Told, TargetUp
<1> QED
    BY <1>1, Invariance, PTL

(* A history that grows stays within the limit in force: a reload that lowers
   the limit, or one that removes targets, never lengthens one. *)
THEOREM HistoriesStayShort == Spec => HistoryWithinLimit
<1> DEFINE Within == \A l \in DOMAIN history' :
          (l \notin DOMAIN history \/ history'[l] > history[l]) =>
              history'[l] <= settings["history_limit"]
<1>1. IInv /\ [Next]_vars => [Within]_vars
  <2> SUFFICES ASSUME IInv, Next PROVE Within
      BY DEF vars
  <2> USE DEF disk, runtime, views, cycle, events
  <2>1. ASSUME NEW l \in DOMAIN history PROVE history[l] \in Nat
      BY DEF IInv, TypeOK, IsTable
  <2>2. CASE FinishCycle
    <3>1. history' = [l \in DOMAIN history \union DOMAIN results |->
                     IF l \in DOMAIN results THEN Appended(l) ELSE history[l]]
        BY <2>2 DEF FinishCycle
    <3>2. \A l : Appended(l) <= settings["history_limit"]
        BY AppendedType DEF IInv
    <3> QED
        BY <2>1, <3>1, <3>2
  <2>3. CASE Accept
    <3>1. DOMAIN history' \subseteq DOMAIN history
              /\ \A l \in DOMAIN history' : history'[l] = history[l]
        BY <2>3 DEF Accept, Pruned
    <3> QED
        BY <2>1, <3>1
  <2>4. CASE UNCHANGED history
    BY <2>1, <2>4
  <2>5. ASSUME NEW l \in Labels, TestEnds(l) PROVE UNCHANGED history
    BY <2>5 DEF TestEnds
  <2> QED
    BY <2>2, <2>3, <2>4, <2>5 DEF Next, Loop, LoadInitial, StatInitial, Stop, SkipReload, Unchanged,
       StatReload, Reject, ReloadFails, Wait, SignalStop, SignalReload, Edit, Tick, Terminated, vars
<1> QED
    BY <1>1, Invariance, PTL DEF Spec, HistoryWithinLimit

-----------------------------------------------------------------------------
(* The board *)

Shown(l) == [latest |-> states[l].latest, failing |-> states[l].failing]

(* The outcome the cycle has for a target: a result outdoes a failure. *)
Outcome == [l \in targets |-> IF l \in DOMAIN results THEN results[l] ELSE "failed"]

LEMMA LoadConfigures ==
    ASSUME IInv, NEW T \in SUBSET Labels, ~ Over, ~ Over',
           states' = [l \in T |-> IF l \in DOMAIN states THEN states[l] ELSE NewState],
           stateFile' = stateFile
    PROVE  Board!Configure
<1>1. [l \in DOMAIN states' |-> Shown(l)'] =
          [l \in T |-> IF l \in DOMAIN states THEN Shown(l) ELSE Board!Untested]
    BY DEF Shown, NewState, Board!Untested
<1>2. [l \in DOMAIN states' |-> Shown(l)'] =
          [l \in T |-> IF l \in DOMAIN [x \in DOMAIN states |-> Shown(x)]
                       THEN [x \in DOMAIN states |-> Shown(x)][l] ELSE Board!Untested]
    BY <1>1
<1>3. stateFile' = stateFile /\ Over' = Over /\ ~ Over
    BY DEF Over
<1> QED
    BY <1>2, <1>3, Zenon DEF Board!Configure, Shown

LEMMA CycleIsRound ==
    ASSUME IInv, FinishCycle
    PROVE  Board!Round
<1>1. DOMAIN results \subseteq targets /\ failures \subseteq targets /\ DOMAIN states = targets
    BY DEF IInv, TypeOK, Views
<1>2. states' = [l \in targets |-> Entered(l)]
    BY <1>1 DEF FinishCycle
<1>3. Outcome \in [targets -> {"failed", "lossy", "good"}]
    BY DEF Outcome, IInv, TypeOK, IsTable, Quality
<1>4. ASSUME NEW l \in targets
      PROVE  Shown(l)' = IF Outcome[l] = "failed" THEN [Shown(l) EXCEPT !.failing = TRUE]
                         ELSE [latest |-> Outcome[l], failing |-> FALSE]
  <2>1. states[l] \in TargetState /\ states'[l] = Entered(l)
    BY <1>1, <1>2 DEF IInv, TypeOK, IsTable
  <2>2. CASE l \in DOMAIN results
    <3>1. Outcome[l] = results[l] /\ results[l] # "failed"
      BY <2>2 DEF Outcome, IInv, TypeOK, IsTable, Quality
    <3> QED
      BY <2>1, <2>2, <3>1 DEF Entered, Shown
  <2>3. CASE l \notin DOMAIN results
    <3>1. Pending(l) /\ verdict[l] \in Quality \union {"none", "failed"}
      BY DEF IInv, Verdicts, FinishCycle, TypeOK
    <3>2. l \in failures
      BY <2>3, <3>1 DEF Pending
    <3>3. states'[l] = [states[l] EXCEPT !.failing = TRUE]
      BY <1>1, <2>1, <2>3, <3>2 DEF Entered
    <3>4. Outcome[l] = "failed"
      BY <2>3 DEF Outcome
    <3> QED
      BY <2>1, <3>3, <3>4 DEF Shown, TargetState
  <2> QED
    BY <2>2, <2>3
<1>5. ~ Over /\ ~ Over'
    BY DEF FinishCycle, AfterCycle, Over
<1>6. stateFile' \in {stateFile, targets}
    BY <1>2 DEF FinishCycle
<1>7. [l \in DOMAIN states' |-> Shown(l)'] =
          [l \in DOMAIN [x \in DOMAIN states |-> Shown(x)] |->
              IF Outcome[l] = "failed"
              THEN [[x \in DOMAIN states |-> Shown(x)][l] EXCEPT !.failing = TRUE]
              ELSE [latest |-> Outcome[l], failing |-> FALSE]]
    BY <1>1, <1>2, <1>4
<1>8. targets = DOMAIN [x \in DOMAIN states |-> Shown(x)] /\ Over' = Over
    BY <1>1, <1>5 DEF Over
<1>9. \E outcome \in [targets -> {"failed", "lossy", "good"}] :
          [l \in DOMAIN states' |-> Shown(l)'] =
              [l \in DOMAIN [x \in DOMAIN states |-> Shown(x)] |->
                  IF outcome[l] = "failed"
                  THEN [[x \in DOMAIN states |-> Shown(x)][l] EXCEPT !.failing = TRUE]
                  ELSE [latest |-> outcome[l], failing |-> FALSE]]
    BY <1>3, <1>7, Zenon
<1> QED
    BY <1>5, <1>6, <1>8, <1>9, Zenon DEF Board!Round, Board!Entry, Shown

LEMMA BoardStep ==
    ASSUME IInv, [Next]_vars
    PROVE  [Board!BoardNext]_<<[l \in DOMAIN states |-> Shown(l)], stateFile, Over>>
<1> DEFINE board == [l \in DOMAIN states |-> Shown(l)]
<1> USE DEF disk, runtime, views, cycle, events
<1>1. CASE LoadInitial
  <2>1. CASE Accepted(file)
    <3>1. file.targets \in SUBSET Labels
      BY ContentsAssumption DEF IInv, TypeOK
    <3>2. DOMAIN states = {}
      BY <1>1 DEF LoadInitial, IInv, BetweenCycles, Views
    <3>3. states' = [l \in file.targets |-> IF l \in DOMAIN states THEN states[l] ELSE NewState]
      BY <1>1, <2>1, <3>2 DEF LoadInitial, Initialized
    <3>4. ~ Over /\ ~ Over' /\ stateFile' = stateFile
      BY <1>1, <2>1 DEF LoadInitial, Over
    <3> QED
      BY <3>1, <3>3, <3>4, LoadConfigures DEF Board!BoardNext
  <2>2. CASE ~ Accepted(file)
    <3>1. ~ Over /\ Over' /\ Over' \in BOOLEAN /\ UNCHANGED <<states, stateFile>>
      BY <1>1, <2>2 DEF LoadInitial, Over
    <3> QED
      BY <3>1 DEF Board!BoardNext, Board!End, Shown
  <2> QED
    BY <2>1, <2>2
<1>2. CASE Accept
  <2>1. file.targets \in SUBSET Labels
    BY ContentsAssumption DEF IInv, TypeOK
  <2>2. states' = [l \in file.targets |-> IF l \in DOMAIN states THEN states[l] ELSE NewState]
    BY <1>2 DEF Accept, Pruned, Initialized
  <2>3. ~ Over /\ ~ Over' /\ stateFile' = stateFile
    BY <1>2 DEF Accept, StartCycle, Over
  <2> QED
    BY <2>1, <2>2, <2>3, LoadConfigures DEF Board!BoardNext
<1>3. CASE FinishCycle
    BY <1>3, CycleIsRound DEF Board!BoardNext
<1>4. CASE Stop \/ ReloadFails
  <2>1. ~ Over /\ Over' = TRUE /\ UNCHANGED <<states, stateFile>>
    BY <1>4 DEF Stop, ReloadFails, Over
  <2> QED
    BY <2>1 DEF Board!BoardNext, Board!End, Shown
<1>5. CASE Tick
  <2>1. ASSUME NEW l \in DOMAIN states PROVE Shown(l)' = Shown(l)
    <3>1. states[l] \in TargetState
      BY DEF IInv, TypeOK, IsTable
    <3> QED
      BY <1>5, <3>1 DEF Tick, TargetState, Shown
  <2>2. DOMAIN states' = DOMAIN states /\ UNCHANGED <<stateFile, pc>>
    BY <1>5 DEF Tick
  <2>3. UNCHANGED <<board, stateFile, Over>>
    BY <2>1, <2>2 DEF Over
  <2> QED
    BY <2>3
<1>6. CASE UNCHANGED <<states, stateFile, Over>>
    BY <1>6 DEF Shown
<1>7. ASSUME NEW l \in Labels, TestEnds(l) PROVE UNCHANGED <<states, stateFile, Over>>
    BY <1>7 DEF TestEnds, Over
<1>8. CASE StatInitial \/ SkipReload \/ Unchanged \/ StatReload \/ Reject \/ Wait
  <2>1. UNCHANGED <<states, stateFile>> /\ ~ Over /\ ~ Over'
    BY <1>8 DEF StatInitial, SkipReload, Unchanged, StatReload, Reject, Wait, StartCycle, Over
  <2> QED
    BY <1>6, <2>1 DEF Over
<1>9. CASE SignalStop \/ SignalReload \/ Edit \/ Terminated \/ UNCHANGED vars
  <2>1. UNCHANGED <<states, stateFile, pc>>
    BY <1>9 DEF SignalStop, SignalReload, Edit, Terminated, vars
  <2> QED
    BY <1>6, <2>1 DEF Over
<1> QED
    BY <1>1, <1>2, <1>3, <1>4, <1>5, <1>6, <1>7, <1>8, <1>9 DEF Next, Loop

(* What the endpoints and the state file show is a board of the configured
   targets: only a load changes whose entries there are, and a cycle gives
   each one new verdict at once, none of them mixed with a reload. *)
THEOREM MonitorImplementsBoard == Spec => ImplementsTargetBoard
<1>1. Init => Board!BoardInit
    BY DEF Init, Over, Empty, Board!BoardInit, Board!Empty
<1>2. IInv /\ [Next]_vars =>
          [Board!BoardNext]_<<[l \in DOMAIN states |-> Shown(l)], stateFile, Over>>
    BY BoardStep
<1> QED
    BY <1>1, <1>2, Invariance, PTL DEF Spec, ImplementsTargetBoard, Board!BoardSpec, Shown
===============================================================================
