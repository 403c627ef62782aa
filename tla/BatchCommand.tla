----------------------------- MODULE BatchCommand -----------------------------
(***************************************************************************)
(* neural-blitz batch beside neural-blitz test, as main dispatches them:   *)
(* execute_batch of neural_blitz/cli.py and run_batch_tests of monitor.py, *)
(* which runs the targets of a file one after the other and goes on when   *)
(* one fails.  The run of one target is TestCommand's, here from its first *)
(* packet to its end in one step; validate-config is what it says of the   *)
(* files either command reads.                                             *)
(***************************************************************************)
EXTENDS TestCommand

(* A request with targets is one of batch; its cli holds at most the flag.     *)
(* targets are the keys each entry gives itself, shared_test and               *)
(* shared_defaults the sections of the targets file; an entry that is no       *)
(* mapping ends the command as one with a port outside its range does.         *)
IsBatch == "targets" \in DOMAIN request

ASSUME BatchAssumption ==
    \A r \in Requests : "targets" \in DOMAIN r =>
        /\ DOMAIN r.cli \subseteq {"authorized_target"}
        /\ IsLayer(r.shared_test) /\ IsLayer(r.shared_defaults)
        /\ r.targets \in Seq({r.targets[i] : i \in DOMAIN r.targets})
        /\ \A i \in DOMAIN r.targets : IsLayer(r.targets[i])
        /\ {r.targets_readable, r.output, r.pdf_dir} \subseteq BOOLEAN

VARIABLES
    at,        \* index of the target
    results,   \* the targets whose statistics are in results
    failed,    \* the targets whose failure was logged
    reached,   \* the targets a run was started for
    written,   \* per metrics file: the target whose statistics it holds, else 0
    combined   \* the file of --output

batch == <<at, results, failed, reached, written, combined>>
single == <<request, address, measurement, outcome, files, gate>>

Targets == DOMAIN request.targets

BatchInit ==
    /\ Init
    /\ at = 0 /\ results = <<>> /\ failed = {} /\ reached = {}
    /\ written = [d \in 0 .. (IF IsBatch THEN Len(request.targets) ELSE 0) |-> 0]
    /\ combined = [state |-> "earlier", of |-> <<>>]

-----------------------------------------------------------------------------
(* The configuration of a target, and what validate-config says of a file *)

\* _apply_authorized_flag: to the section "test" of either file.
Flagged(r, section) ==
    IF "authorized_target" \in DOMAIN r.cli THEN [authorized_target |-> TRUE] ++ section ELSE section

\* --pdf-dir, with a name for each target, whatever its entry says.
Reports(r) == IF r.pdf_dir THEN [pdf_report |-> "file"] ELSE << >>

FaultyTargetConfig(r, i) ==
    Reports(r) ++ Flagged(r, r.targets[i])
        ++ r.shared_test ++ r.shared_defaults ++ Section(r) ++ Builtin

\* The keys of the entry, then those of its file, then those of --config.
TargetConfig(r, i) ==
    Reports(r) ++ r.targets[i]
        ++ (Flagged(r, r.shared_test) ++ r.shared_defaults)
        ++ (Flagged(r, r.test) ++ r.defaults) ++ Builtin

\* The file a target writes: one of its own, or the one its siblings name too.
Destination(i) == IF "metrics_output" \in DOMAIN request.targets[i] THEN i ELSE 0

FaultyValidated(readable, test, defaults, targets) ==
    readable /\ Valid(test ++ defaults ++ Builtin)

\* The schema, for the two sections and for each target, knows the ranges but of
\* an output only that it is a string; validate_test_config is called for the
\* sections alone.
Validated(readable, test, defaults, targets) ==
    /\ readable
    /\ \A layer \in {test, defaults} \union {targets[i] : i \in DOMAIN targets} :
          "port" \in DOMAIN layer => layer.port = "good"
    /\ \A i \in DOMAIN targets : "host" \in DOMAIN targets[i]
    /\ Valid(test ++ defaults ++ Builtin)

-----------------------------------------------------------------------------
(* The batch *)

\* A file with no list of targets, or an empty one, is refused as well.
LoadTargets ==
    /\ pc = "start" /\ request.readable
    /\ IF request.targets_readable /\ request.targets # <<>>
       THEN pc' = "next" /\ at' = 1 /\ UNCHANGED exit
       ELSE Exit(3) /\ UNCHANGED at
    /\ UNCHANGED <<single, config, results, failed, reached, written, combined>>

\* Outside the try: what is wrong with one target ends the whole batch, and the
\* results there are go nowhere.
Prepare ==
    /\ pc = "next" /\ at \in Targets
    /\ config' = TargetConfig(request, at)
    /\ \/ config'.port = "text" /\ Exit(1)
       \/ config'.port # "text" /\ ~ Valid(config') /\ Exit(3)
       \/ Valid(config') /\ pc' = "target" /\ UNCHANGED exit
    /\ UNCHANGED <<single, batch>>

\* except Exception: the target is logged and the next one follows.
Skip ==
    /\ failed' = failed \union {at}
    /\ at' = at + 1 /\ pc' = "next"
    /\ UNCHANGED <<single, config, exit, results, reached, written, combined>>

RefuseTarget == pc = "target" /\ ~ Safe(config) /\ Skip

StartTarget ==
    /\ pc = "target" /\ Safe(config)
    /\ reached' = reached \union {at}
    /\ pc' = "run"
    /\ UNCHANGED <<single, config, exit, at, results, failed, written, combined>>

TargetFails == pc = "run" /\ Skip

TargetEnds ==
    /\ pc = "run"
    /\ results' = Append(results, at)
    /\ pc' = "save"
    /\ UNCHANGED <<single, config, exit, at, failed, reached, written, combined>>

SaveTarget ==
    /\ pc = "save"
    /\ written' = IF config.metrics_output # "none" THEN [written EXCEPT ![Destination(at)] = at] ELSE written
    /\ pc' = "report"
    /\ UNCHANGED <<single, config, exit, at, results, failed, reached, combined>>

\* Its statistics stay in results.
SaveFails == pc = "save" /\ config.metrics_output # "none" /\ Skip

\* The SLA is read and evaluated for the report only.
ReportTarget ==
    /\ pc = "report" /\ (config.pdf_report # "none" => config.sla_path # "broken")
    /\ at' = at + 1 /\ pc' = "next"
    /\ UNCHANGED <<single, config, exit, results, failed, reached, written, combined>>

ReportFails == pc = "report" /\ config.pdf_report # "none" /\ Skip

AllTried == pc = "next" /\ at \notin Targets

\* open("w") cuts the file off before json.dump fills it.
OpenOutput ==
    /\ AllTried /\ request.output
    /\ combined' = [state |-> "torn", of |-> <<>>]
    /\ pc' = "dump"
    /\ UNCHANGED <<single, config, exit, at, results, failed, reached, written>>

Dump ==
    /\ pc = "dump"
    /\ combined' = [state |-> "whole", of |-> results]
    /\ pc' = "conclude"
    /\ UNCHANGED <<single, config, exit, at, results, failed, reached, written>>

FaultyOutputFails ==
    /\ (AllTried /\ request.output) \/ pc = "dump"
    /\ pc' = "conclude"
    /\ UNCHANGED <<single, config, exit, batch>>

OutputFails ==
    /\ (AllTried /\ request.output) \/ pc = "dump"
    /\ Exit(1)
    /\ UNCHANGED <<single, config, batch>>

\* Neither failures nor lost packets nor an SLA count, only that one run ended.
ConcludeBatch ==
    /\ (AllTried /\ ~ request.output) \/ pc = "conclude"
    /\ Exit(IF results # <<>> THEN 0 ELSE 1)
    /\ UNCHANGED <<single, config, batch>>

-----------------------------------------------------------------------------

BatchStep ==
    /\ IsBatch
    /\ \/ LoadTargets \/ Prepare
       \/ RefuseTarget \/ StartTarget \/ TargetFails \/ TargetEnds
       \/ SaveTarget \/ SaveFails \/ ReportTarget \/ ReportFails
       \/ OpenOutput \/ Dump \/ OutputFails \/ ConcludeBatch

\* What main does for both.
Common == (FileUnreadable \/ Interrupt) /\ UNCHANGED batch

Test(A) == ~ IsBatch /\ A /\ UNCHANGED batch

BatchOver == IsBatch /\ ~ Running /\ UNCHANGED <<vars, batch>>

BatchNext ==
    \/ BatchStep \/ Common \/ BatchOver
    \/ Test(Command) \/ Test(Pass) \/ Test(Compare) \/ Test(Terminated)
    \/ \E s \in Callers : Test(Coroutine(s))

\* As in TestCommand; a run ends in one way or another.
BatchSpec ==
    /\ BatchInit /\ [][BatchNext]_<<vars, batch>>
    /\ WF_<<vars, batch>>(BatchStep) /\ WF_<<vars, batch>>(FileUnreadable /\ UNCHANGED batch)
    /\ WF_<<vars, batch>>(Test(Command)) /\ WF_<<vars, batch>>(Test(Pass))
    /\ \A s \in Callers : WF_<<vars, batch>>(Test(Coroutine(s)))

-----------------------------------------------------------------------------
(* Properties *)

BatchTypeOK ==
    /\ ~ IsBatch => TypeOK
    /\ IsBatch =>
          /\ pc \in {"start", "next", "target", "run", "save", "report", "dump", "conclude", "ended"}
          /\ exit \in {-1, 0, 1, 3, 130}
          /\ at \in 0 .. Len(request.targets) + 1
          /\ results \in Seq(Targets) /\ failed \subseteq Targets /\ reached \subseteq Targets
          /\ written \in [Targets \union {0} -> Targets \union {0}]
          /\ combined.state \in {"earlier", "torn", "whole"} /\ combined.of \in Seq(Targets)

Ended == {results[k] : k \in DOMAIN results}

(* A batch that succeeds has tried every target in the order of the file, some
   run ended, --output holds exactly the runs that did, and a target that did
   not fail finds in its metrics file its own statistics or, where several
   name the same file, those of a later one.  However the batch ends, a metrics
   file holds no statistics of a target whose run did not end, and --output is
   cut off only by an error or an interrupt. *)
GreenBatch ==
    /\ exit = 0 =>
          /\ results # <<>> /\ Targets = Ended \union failed
          /\ \A j, k \in DOMAIN results : j < k => results[j] < results[k]
          /\ request.output => combined = [state |-> "whole", of |-> results]
          /\ \A i \in Targets \ failed :
                TargetConfig(request, i).metrics_output # "none" => written[Destination(i)] >= i
    /\ \A d \in DOMAIN written : written[d] \in Ended \union {0}
    /\ ~ Running /\ combined.state = "torn" => exit \in {1, 130}

(* Either command, when it succeeds, has done what it was asked for. *)
GreenMeansAsked == IF IsBatch THEN GreenBatch ELSE GreenMeansMet

(* No run is started for a public host that is not permitted, whichever of the
   two files names the host and in whichever section: by the entry if it says so
   or denies it, whatever the flag, else by the flag or by one of the sections. *)
TargetsAuthorized ==
    \A i \in reached :
        LET target == request.targets[i]
        IN  TargetConfig(request, i).host = "public" =>
                \E layer \in IF "authorized_target" \in DOMAIN target THEN {target}
                             ELSE {request.cli, request.shared_test, request.shared_defaults,
                                   request.test, request.defaults} :
                    "authorized_target" \in DOMAIN layer /\ layer.authorized_target

\* validate-config accepts the files of the command, and with test nothing that
\* it looks at is given on the command line.
FilesValidated ==
    /\ Validated(request.readable, request.test, request.defaults, <<>>)
    /\ IF IsBatch THEN /\ request.targets # <<>>
                       /\ Validated(request.targets_readable,
                                    request.shared_test, request.shared_defaults, request.targets)
       ELSE DOMAIN request.cli \intersect (Outputs \union {"port"}) = {}

(* Files that validate-config accepts do not stop a command half-way: whichever
   layers are merged, test ends as on a wrong configuration only for its SLA
   file, and batch only between two targets, at one whose entry itself names an
   output with a wrong suffix; no number and no section is refused later. *)
ValidatedFilesRun ==
    FilesValidated =>
        /\ config.port = "good"
        /\ exit = 3 =>
              IF IsBatch THEN \E k \in Outputs \intersect DOMAIN request.targets[at] :
                                 request.targets[at][k] = "misnamed"
              ELSE config.sla_path = "broken"

(* "`validate-config` applies the bundled strict JSON Schema and runtime
   validation" (docs/CONFIGURATION.md:64-65): what a command merges of files
   that it accepts passes the validation at run time. *)
RuntimeValidation == FilesValidated => Valid(config)
=============================================================================
