----------------------------- MODULE MonitorLoop ------------------------------
(***************************************************************************)
(* The monitor, neural_blitz/monitor.py: run_monitor_loop with its         *)
(* startup, the hot reload of the targets file, a cycle of tests over all  *)
(* targets, the application of their results, and the wait that SIGINT,    *)
(* SIGTERM and SIGHUP interrupt.                                           *)
(*                                                                         *)
(* The monitor is one thread: signals are handled only where it awaits.    *)
(* The targets file is edited by somebody else at any moment.  What the    *)
(* code compares is kept, what it only shows (messages, timestamps, the    *)
(* reload count, the figures of a test) is not.                            *)
(***************************************************************************)
EXTENDS Integers, FiniteSets

CONSTANTS
    Labels,      \* labels targets may have
    Contents,    \* contents the targets file may have
    Modes,       \* reload_config: FALSE with --no-reload
    Defaults,    \* the settings of the command line and its configuration
    MaxEdits,    \* bound: edits of the targets file
    AgeCap       \* bound: ages above every stale_after_seconds are one

Keys == {"interval", "history_limit", "stale_after_seconds"}
Settings == [Keys -> Nat \ {0}]

(* A content of the file: whether there is a file; whether reading it and      *)
(* validating its targets succeeds ("valid"), raises an error that reload      *)
(* handles ("invalid") or one it does not ("overflow": int() of an infinity);  *)
(* its targets; and its "monitor" section, of the keys that are given, where 0 *)
(* stands for a value that is refused. *)
ASSUME ContentsAssumption ==
    \A c \in Contents :
        /\ c.present \in BOOLEAN /\ c.parse \in {"valid", "invalid", "overflow"}
        /\ c.targets \in SUBSET Labels
        /\ DOMAIN c.section \in SUBSET Keys /\ c.section \in [DOMAIN c.section -> Nat]
        /\ c.parse = "valid" => c.present /\ c.targets # {}
ASSUME DefaultsAssumption == Modes \subseteq BOOLEAN /\ Defaults \in Settings
ASSUME MonitorBoundsAssumption ==
    /\ MaxEdits \in Nat /\ AgeCap \in Nat
    /\ Defaults["stale_after_seconds"] < AgeCap
    /\ \A c \in Contents : \A k \in DOMAIN c.section : c.section[k] < AgeCap

VARIABLES
    file,       \* the targets file
    mtime,      \* its modification time; every edit has a new one
    reloading,  \* reload_config
    pc,         \* where run_monitor_loop stands
    seen,       \* local of reload_monitor_config: the mtime read before loading
    targets,    \* runtime.targets_data: the labels
    settings,   \* runtime.interval, history_limit, stale_after_seconds
    lastMtime,  \* runtime.last_mtime; 0 is None
    reloadError,\* runtime.reload_error is set
    states,     \* per label: latest and last_success_at (age), last_error (failing)
    latest,     \* per label: the result /metrics shows
    history,    \* per label: the number of results in the history
    stateFile,  \* the labels the state file lists
    todo,       \* the targets of the cycle still to be tested
    results,    \* results of run_batch_tests
    failures,   \* cycle_failures
    shutdown, reloadNow, wakeup,  \* the events
    unseen,     \* history: whether an edit has not been read, and since when
    asked,      \* history: a SIGHUP was not followed by a load
    verdict     \* history: outcome of a label's last test since it was configured

vars == <<file, mtime, reloading, pc, seen, targets, settings, lastMtime, reloadError,
          states, latest, history, stateFile, todo, results, failures,
          shutdown, reloadNow, wakeup, unseen, asked, verdict>>
disk == <<file, mtime, unseen>>
runtime == <<targets, settings, lastMtime, reloadError, reloading>>
views == <<states, latest, history, stateFile>>
cycle == <<todo, results, failures, verdict>>
events == <<shutdown, reloadNow, wakeup, asked>>

Empty == [l \in {} |-> l]
Stat == IF file.present THEN mtime ELSE 0
Over == pc \in {"stopped", "failed"}

Init ==
    /\ file \in Contents /\ mtime = 1 /\ unseen = "none"
    /\ reloading \in Modes
    /\ pc = "boot" /\ seen = 0
    /\ targets = {} /\ settings = Defaults /\ lastMtime = 0 /\ reloadError = FALSE
    /\ states = Empty /\ latest = Empty /\ history = Empty /\ stateFile = {}
    /\ todo = {} /\ results = Empty /\ failures = {}
    /\ shutdown = FALSE /\ reloadNow = FALSE /\ wakeup = FALSE /\ asked = FALSE
    /\ verdict = [l \in Labels |-> "none"]

-----------------------------------------------------------------------------
(* The targets file *)

FaultyBad(c) == {}

Bad(c) == {k \in DOMAIN c.section : c.section[k] = 0}
Accepted(c) == c.parse = "valid" /\ Bad(c) = {}

Before(k) == CASE k = "interval" -> {}
               [] k = "history_limit" -> {"interval"}
               [] k = "stale_after_seconds" -> {"interval", "history_limit"}

\* apply_reloadable_monitor_settings checks and assigns key by key: a value
\* that is refused does not undo those assigned before it.
Applied(c) ==
    [k \in Keys |->
        IF k \in DOMAIN c.section /\ Bad(c) \intersect (Before(k) \union {k}) = {}
        THEN c.section[k] ELSE settings[k]]

NewState == [latest |-> "none", age |-> 0, failing |-> FALSE]

FaultyInitialized(T) == [l \in DOMAIN states \union T |-> NewState]

\* _initialize_target_states: labels that have a state keep it.
Initialized(T) ==
    [l \in DOMAIN states \union T |-> IF l \in DOMAIN states THEN states[l] ELSE NewState]

FaultyPruned(f, T) == f

\* prune_unconfigured_targets, for each of its three tables.
Pruned(f, T) == [l \in DOMAIN f \intersect T |-> f[l]]

LoadInitial ==
    /\ pc = "boot"
    /\ IF Accepted(file)
       THEN /\ pc' = "stat"
            /\ states' = Initialized(file.targets)
            /\ settings' = Applied(file)
            /\ targets' = file.targets
       ELSE pc' = "failed" /\ UNCHANGED <<states, settings, targets>>
    /\ unseen' = "none"
    /\ UNCHANGED <<file, mtime, reloading, seen, lastMtime, reloadError, latest, history,
                   stateFile, cycle, events>>

\* The modification time is read after the file.
StatInitial ==
    /\ pc = "stat"
    /\ lastMtime' = Stat
    /\ pc' = "top"
    /\ UNCHANGED <<disk, seen, targets, settings, reloadError, reloading, views, cycle, events>>

-----------------------------------------------------------------------------
(* The loop *)

\* run_cycle starts with the targets in force; its other locals are empty.
StartCycle(T) == pc' = "cycle" /\ todo' = T /\ seen' = 0 /\ UNCHANGED <<results, failures>>

FaultyRunning == ~ shutdown \/ reloadNow

Running == ~ shutdown

Stop ==
    /\ pc = "top" /\ ~ Running
    /\ pc' = "stopped"
    /\ UNCHANGED <<disk, seen, runtime, views, cycle, events>>

\* With --no-reload the file is not looked at, nor reload_now cleared.
SkipReload ==
    /\ pc = "top" /\ Running /\ ~ reloading
    /\ StartCycle(targets)
    /\ UNCHANGED <<disk, runtime, views, events, verdict>>

FaultyCurrentUnforced == Stat # 0 /\ Stat = lastMtime
FaultyCurrentOlder == ~ reloadNow /\ Stat # 0 /\ Stat >= lastMtime

\* Neither forced nor changed; a missing file is always tried.
Current == ~ reloadNow /\ Stat # 0 /\ Stat = lastMtime

Unchanged ==
    /\ pc = "top" /\ Running /\ reloading /\ Current
    /\ reloadNow' = FALSE
    /\ StartCycle(targets)
    /\ UNCHANGED <<disk, runtime, views, shutdown, wakeup, asked, verdict>>

\* The modification time is read before the file.
StatReload ==
    /\ pc = "top" /\ Running /\ reloading /\ ~ Current
    /\ seen' = Stat
    /\ pc' = "load"
    /\ UNCHANGED <<disk, runtime, views, cycle, events>>

Accept ==
    /\ pc = "load" /\ Accepted(file)
    /\ settings' = Applied(file)
    /\ states' = Pruned(Initialized(file.targets), file.targets)
    /\ latest' = Pruned(latest, file.targets)
    /\ history' = Pruned(history, file.targets)
    /\ targets' = file.targets
    /\ lastMtime' = seen /\ reloadError' = FALSE /\ reloadNow' = FALSE
    /\ unseen' = "none" /\ asked' = FALSE
    /\ verdict' = [l \in Labels |-> IF l \in file.targets THEN verdict[l] ELSE "none"]
    /\ StartCycle(file.targets)
    /\ UNCHANGED <<file, mtime, reloading, stateFile, shutdown, wakeup>>

\* The trial run on an empty table of states finds every fault of the targets
\* before anything is changed; a fault of a setting is found while they are set.
Reject ==
    /\ pc = "load" /\ ~ Accepted(file) /\ file.parse # "overflow"
    /\ settings' = IF file.parse = "valid" THEN Applied(file) ELSE settings
    /\ lastMtime' = seen /\ reloadError' = TRUE /\ reloadNow' = FALSE
    /\ unseen' = "none" /\ asked' = FALSE
    /\ StartCycle(targets)
    /\ UNCHANGED <<file, mtime, reloading, targets, views, shutdown, wakeup, verdict>>

\* OverflowError is none of the exceptions reload_monitor_config handles.
ReloadFails ==
    /\ pc = "load" /\ file.parse = "overflow"
    /\ pc' = "failed" /\ unseen' = "none" /\ asked' = FALSE
    /\ UNCHANGED <<file, mtime, seen, runtime, views, cycle, shutdown, reloadNow, wakeup>>

\* One test of run_batch_tests: run_test fails; or it ends, with or without
\* replies; and then writing its metrics or its report may still fail.  The
\* order of the targets in the file is not told apart.
TestEnds(l) ==
    /\ pc = "cycle" /\ l \in todo
    /\ todo' = todo \ {l}
    /\ \/ /\ failures' = failures \union {l}
          /\ verdict' = [verdict EXCEPT ![l] = "failed"]
          /\ UNCHANGED results
       \/ \E q \in {"lossy", "good"} :
             /\ results' = [x \in DOMAIN results \union {l} |-> IF x = l THEN q ELSE results[x]]
             /\ failures' \in {failures, failures \union {l}}
             /\ verdict' = [verdict EXCEPT ![l] = q]
    /\ UNCHANGED <<disk, pc, seen, runtime, views, events>>

-----------------------------------------------------------------------------
(* The end of run_cycle *)

Min2(a, b) == IF a < b THEN a ELSE b

FaultyAppended(l) ==
    LET n == IF l \in DOMAIN history THEN history[l] + 1 ELSE 1
    IN  IF n > settings["history_limit"] + 1 THEN n - 1 ELSE n

\* The new result is appended, then the oldest above the limit are deleted.
Appended(l) ==
    Min2(IF l \in DOMAIN history THEN history[l] + 1 ELSE 1, settings["history_limit"])

\* Failures are entered first; a result of the same target undoes its failure.
Entered(l) ==
    IF l \in DOMAIN results THEN [latest |-> results[l], age |-> 0, failing |-> FALSE]
    ELSE IF l \in failures
         THEN [(IF l \in DOMAIN states THEN states[l] ELSE NewState) EXCEPT !.failing = TRUE]
         ELSE states[l]

FaultyStatus(state) ==
    CASE state.latest = "none" /\ state.failing -> "failed"
      [] state.latest = "none" /\ ~ state.failing -> "never_run"
      [] state.latest # "none" ->
            IF state.age > settings["stale_after_seconds"] THEN "stale"
            ELSE IF state.failing THEN "degraded" ELSE "ok"

\* TargetState.status.  A result has a success rate above 0 ("good") or not.
Status(state) ==
    CASE state.latest = "none" /\ state.failing -> "failed"
      [] state.latest = "none" /\ ~ state.failing -> "never_run"
      [] state.latest # "none" ->
            IF state.age > settings["stale_after_seconds"] THEN "stale"
            ELSE IF state.failing \/ state.latest = "lossy" THEN "degraded" ELSE "ok"

\* neural_blitz_target_up of /metrics/prometheus is 1.
TargetUp(l) == l \in DOMAIN latest /\ latest[l] = "good"

\* The answer of /health is 200.
HealthOk == DOMAIN states # {} /\ \A l \in DOMAIN states : Status(states[l]) = "ok"

FaultyAfterCycle ==
    IF shutdown THEN pc' = "top" /\ UNCHANGED wakeup
    ELSE pc' = "wait" /\ wakeup' = FALSE

\* A signal handled during the cycle skips the wait.
AfterCycle ==
    IF shutdown \/ reloadNow THEN pc' = "top" /\ UNCHANGED wakeup
    ELSE pc' = "wait" /\ wakeup' = FALSE

\* Without an await between the last test and the wait.  There may be no state
\* file, and an error in writing it ends the cycle.
FinishCycle ==
    /\ pc = "cycle" /\ todo = {}
    /\ states' = [l \in DOMAIN states \union DOMAIN results \union failures |-> Entered(l)]
    /\ latest' = [l \in DOMAIN latest \union DOMAIN results |->
                     IF l \in DOMAIN results THEN results[l] ELSE latest[l]]
    /\ history' = [l \in DOMAIN history \union DOMAIN results |->
                     IF l \in DOMAIN results THEN Appended(l) ELSE history[l]]
    /\ stateFile' \in {stateFile, DOMAIN states'}
    /\ AfterCycle
    /\ results' = Empty /\ failures' = {}
    /\ UNCHANGED <<disk, seen, runtime, todo, verdict, shutdown, reloadNow, asked>>

\* wait_for returns because an event was set, or times out after the interval.
Wait ==
    /\ pc = "wait"
    /\ pc' = "top"
    /\ UNCHANGED <<disk, seen, runtime, views, cycle, events>>

-----------------------------------------------------------------------------
(* The environment *)

\* run_monitor_loop has given the control to the event loop.
Awaiting == pc = "wait" \/ (pc = "cycle" /\ todo # {})

\* SIGINT or SIGTERM.
SignalStop ==
    /\ Awaiting
    /\ shutdown' = TRUE /\ wakeup' = TRUE
    /\ UNCHANGED <<disk, pc, seen, runtime, views, cycle, reloadNow, asked>>

\* SIGHUP.
SignalReload ==
    /\ Awaiting
    /\ reloadNow' = TRUE /\ wakeup' = TRUE /\ asked' = TRUE
    /\ UNCHANGED <<disk, pc, seen, runtime, views, cycle, shutdown>>

Edit ==
    /\ ~ Over /\ mtime <= MaxEdits
    /\ file' \in Contents
    /\ mtime' = mtime + 1
    /\ unseen' = IF pc = "boot" THEN "none" ELSE IF pc = "stat" THEN "startup" ELSE "late"
    /\ UNCHANGED <<pc, seen, runtime, views, cycle, events>>

\* Time passes while the monitor awaits.
Tick ==
    /\ Awaiting
    /\ states' = [l \in DOMAIN states |->
                     [states[l] EXCEPT !.age =
                        IF states[l].latest = "none" THEN @ ELSE Min2(@ + 1, AgeCap)]]
    /\ UNCHANGED <<disk, pc, seen, runtime, latest, history, stateFile, cycle, events>>

Terminated == Over /\ UNCHANGED vars

Loop ==
    \/ LoadInitial \/ StatInitial
    \/ Stop \/ SkipReload \/ Unchanged \/ StatReload
    \/ Accept \/ Reject \/ ReloadFails
    \/ \E l \in Labels : TestEnds(l)
    \/ FinishCycle \/ Wait

Next == Loop \/ SignalStop \/ SignalReload \/ Edit \/ Tick \/ Terminated

\* The event loop runs what is ready, a test ends (its attempts time out) and
\* the interval passes.
Spec == Init /\ [][Next]_vars
FairSpec == Spec /\ WF_vars(Loop)

-----------------------------------------------------------------------------
(* Properties *)

Quality == {"lossy", "good"}
TargetState == [latest : Quality \union {"none"}, age : 0 .. AgeCap, failing : BOOLEAN]
IsTable(f, T) == DOMAIN f \in SUBSET Labels /\ f \in [DOMAIN f -> T]

TypeOK ==
    /\ file \in Contents /\ mtime \in Nat \ {0} /\ unseen \in {"none", "startup", "late"}
    /\ pc \in {"boot", "stat", "top", "load", "cycle", "wait", "stopped", "failed"}
    /\ seen \in 0 .. mtime /\ lastMtime \in 0 .. mtime
    /\ targets \in SUBSET Labels /\ settings \in Settings
    /\ reloading \in BOOLEAN /\ reloadError \in BOOLEAN
    /\ IsTable(states, TargetState)
    /\ IsTable(latest, Quality)
    /\ IsTable(history, Nat \ {0})
    /\ stateFile \in SUBSET Labels
    /\ todo \in SUBSET targets /\ failures \in SUBSET targets
    /\ IsTable(results, Quality) /\ DOMAIN results \subseteq targets
    /\ {shutdown, reloadNow, wakeup, asked} \subseteq BOOLEAN
    /\ verdict \in [Labels -> Quality \union {"none", "failed"}]

(* Whatever reloads, cycles and failures come in between, /health and /api speak
   of exactly the targets in force, and the result /metrics shows and the
   history exist for exactly those that have a result, which is the same one. *)
ViewsAgree ==
    pc \notin {"boot", "failed"} =>
        /\ DOMAIN states = targets
        /\ DOMAIN latest = {l \in targets : states[l].latest # "none"}
        /\ DOMAIN history = DOMAIN latest
        /\ \A l \in DOMAIN latest : latest[l] = states[l].latest

(* "/health returns 200 only when every configured target is current and
   healthy" (docs/PROMETHEUS.md:45): outside a cycle, the last test of every
   target since it was configured had replies, and neural_blitz_target_up says
   the same.  A target that is removed and configured again is not healthy by
   what it did before. *)
HealthHonest ==
    HealthOk /\ pc \in {"top", "load", "wait"} =>
        \A l \in targets : verdict[l] = "good" /\ TargetUp(l)

(* No signal is left behind by a wait for the whole interval: between the check
   of the events and the reset of wakeup nothing is handled. *)
NoLostWakeup == pc = "wait" /\ (shutdown \/ reloadNow) => wakeup

(* A history only grows up to the limit in force when it does. *)
HistoryWithinLimit ==
    [][\A l \in DOMAIN history' :
          (l \notin DOMAIN history \/ history'[l] > history[l]) =>
              history'[l] <= settings["history_limit"]]_vars

(* A SIGHUP leads to a load of the file, even one that has not changed
   (unless the process ends first, or with --no-reload). *)
SighupLoads == asked /\ reloading ~> ~ asked \/ Over

(* "it reloads on the next cycle" (docs/QUICKSTART.md:40): an edit made once the
   startup is over is read, whenever in the cycle it happens. *)
EditsAreRead == unseen = "late" /\ reloading ~> unseen = "none" \/ Over

(* SIGINT or SIGTERM ends the monitor. *)
StopsWhenAsked == shutdown ~> Over

Board == INSTANCE TargetBoard WITH
    board <- [l \in DOMAIN states |-> [latest |-> states[l].latest, failing |-> states[l].failing]],
    saved <- stateFile,
    over <- Over

(* What the endpoints and the state file show is a board of the configured
   targets, whose rounds are complete and never mixed with a change of them. *)
ImplementsTargetBoard == Board!BoardSpec

(* "Invalid YAML or failed validation keeps the last-good config"
   (docs/CONFIGURATION.md:94); settings that precede the refused one change. *)
RejectionKeepsSettings ==
    [][reloadError' /\ pc = "load" /\ pc' = "cycle" => UNCHANGED settings]_vars

(* The same sentence: whatever the file holds, a reload does not end the
   monitor.  An infinite number in it does. *)
ReloadSurvives == [][pc = "load" => pc' # "failed"]_vars

(* The help of --no-reload: "mtime changes and SIGHUP are ignored" (cli.py:133).
   A SIGHUP is never cleared, and no cycle after it is followed by a wait. *)
SighupIgnored == [][~ reloading /\ pc = "cycle" /\ pc' = "top" => shutdown]_vars
===============================================================================
