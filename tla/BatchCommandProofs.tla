-------------------------- MODULE BatchCommandProofs --------------------------
(* What test and batch promise, for any requests, numbers of packets, retries, *)
(* addresses and targets: the rate, the endpoints, the permissions, and what   *)
(* the exit code and the files of a batch say.                                 *)
EXTENDS BatchCommand, TokenBucketProofs

-----------------------------------------------------------------------------
(* Layers of options *)

LEMMA LayerOver ==
    ASSUME NEW f, NEW g, IsLayer(f), IsLayer(g)
    PROVE  IsLayer(f ++ g)
BY DEF IsLayer, ++

Flags == {"co_correction", "fail_on_sla", "authorized_target"}

LEMMA FlagValues == ASSUME NEW k \in Flags PROVE Values(k) = BOOLEAN
BY DEF Flags, Values, Outputs

LEMMA BuiltinLayer == IsLayer(Builtin)
<1>1. ASSUME NEW k \in Flags PROVE Builtin[k] \in Values(k)
  <2>1. Builtin[k] = TRUE \/ Builtin[k] = FALSE
    BY DEF Flags, Builtin
  <2>2. Builtin[k] \in BOOLEAN
    BY <2>1
  <2> QED
    BY <2>2, FlagValues
<1>2. ASSUME NEW k \in DOMAIN Builtin \ Flags PROVE Builtin[k] \in Values(k)
    BY <1>2, RequestsAssumption DEF Flags, Builtin, Values, Outputs
<1> QED
    BY <1>1, <1>2 DEF IsLayer

(* What is made of layers has every option, each of its own kind. *)
Complete(c) == IsLayer(c) /\ DOMAIN c = DOMAIN Builtin

LEMMA ConfiguredComplete ==
    ASSUME NEW r \in Requests
    PROVE  Complete(Configured(r))
<1>1. IsLayer(r.cli) /\ IsLayer(r.test) /\ IsLayer(r.defaults)
    BY RequestsAssumption
<1>2. IsLayer(Section(r))
    BY <1>1, LayerOver DEF Section
<1>3. IsLayer(Configured(r))
    BY <1>1, <1>2, LayerOver, BuiltinLayer DEF Configured
<1>4. DOMAIN Configured(r) = DOMAIN Builtin
    BY <1>1, <1>2 DEF Configured, IsLayer, ++
<1> QED
    BY <1>3, <1>4 DEF Complete

LEMMA FlaggedLayer ==
    ASSUME NEW r, NEW f, IsLayer(f)
    PROVE  IsLayer(Flagged(r, f))
<1>1. IsLayer([authorized_target |-> TRUE])
  <2>1. [authorized_target |-> TRUE].authorized_target \in BOOLEAN
    OBVIOUS
  <2>2. Values("authorized_target") = BOOLEAN
    BY FlagValues DEF Flags
  <2> QED
    BY <2>1, <2>2 DEF IsLayer, Builtin
<1> QED
    BY <1>1, LayerOver DEF Flagged

LEMMA ReportsLayer == ASSUME NEW r PROVE IsLayer(Reports(r))
<1>1. IsLayer([pdf_report |-> "file"])
  <2>1. Values("pdf_report") = {"none", "file", "misnamed"}
    BY DEF Values, Outputs
  <2> QED
    BY <2>1 DEF IsLayer, Builtin
<1>2. DOMAIN << >> = {}
    OBVIOUS
<1>3. IsLayer(<< >>)
    BY <1>2, Zenon DEF IsLayer
<1> QED
    BY <1>1, <1>3 DEF Reports

LEMMA TargetComplete ==
    ASSUME NEW r \in Requests, "targets" \in DOMAIN r, NEW i \in DOMAIN r.targets
    PROVE  Complete(TargetConfig(r, i))
<1> DEFINE target == Reports(r) ++ r.targets[i]
           shared == Flagged(r, r.shared_test) ++ r.shared_defaults
           section == Flagged(r, r.test) ++ r.defaults
           given == target ++ shared ++ section
<1>1. IsLayer(r.test) /\ IsLayer(r.defaults) /\ IsLayer(r.shared_test)
          /\ IsLayer(r.shared_defaults) /\ IsLayer(r.targets[i])
    BY RequestsAssumption, BatchAssumption
<1>2. IsLayer(target)
    BY <1>1, ReportsLayer, LayerOver
<1>3. IsLayer(shared)
    BY <1>1, LayerOver, FlaggedLayer
<1>4. IsLayer(section)
    BY <1>1, LayerOver, FlaggedLayer
<1>5. IsLayer(given)
    BY <1>2, <1>3, <1>4, LayerOver
<1>6. TargetConfig(r, i) = given ++ Builtin
    BY DEF TargetConfig
<1>7. IsLayer(given ++ Builtin)
    BY <1>5, LayerOver, BuiltinLayer
<1>8. DOMAIN (given ++ Builtin) = DOMAIN given \union DOMAIN Builtin
    BY DEF ++
<1>9. DOMAIN given \subseteq DOMAIN Builtin
    BY <1>5 DEF IsLayer
<1> QED
    BY <1>6, <1>7, <1>8, <1>9 DEF Complete

LEMMA CompleteTypes ==
    ASSUME NEW c, Complete(c)
    PROVE  /\ c.interval \in Intervals /\ c.authorized_target \in BOOLEAN
           /\ c.host \in {"private", "public"}
BY DEF Complete, IsLayer, Builtin, Values, Outputs

Permits(layer) == "authorized_target" \in DOMAIN layer /\ layer.authorized_target

LEMMA PermitsOver == ASSUME NEW f, NEW g, Permits(f ++ g) PROVE Permits(f) \/ Permits(g)
BY DEF Permits, ++

(* A public host that is safe is permitted by a layer of its own. *)
LEMMA TestPermitted ==
    ASSUME NEW r \in Requests, Safe(Configured(r)), Configured(r).host = "public"
    PROVE  \E layer \in {r.cli, r.test, r.defaults} :
              "authorized_target" \in DOMAIN layer /\ layer.authorized_target
<1>1. Permits(Configured(r))
    BY ConfiguredComplete DEF Safe, Permits, Complete, Builtin
<1>2. ~ Permits(Builtin)
    BY DEF Permits, Builtin
<1> QED
    BY <1>1, <1>2, PermitsOver DEF Configured, Section, Permits

LEMMA TargetPermitted ==
    ASSUME NEW r \in Requests, "targets" \in DOMAIN r, NEW i \in DOMAIN r.targets,
           Safe(TargetConfig(r, i)), TargetConfig(r, i).host = "public"
    PROVE  \E layer \in IF "authorized_target" \in DOMAIN r.targets[i] THEN {r.targets[i]}
                        ELSE {r.cli, r.shared_test, r.shared_defaults, r.test, r.defaults} :
              "authorized_target" \in DOMAIN layer /\ layer.authorized_target
<1> DEFINE c == TargetConfig(r, i)
<1>1. "authorized_target" \notin DOMAIN Reports(r)
    BY DEF Reports
<1>2. c.authorized_target
    BY DEF Safe
<1>3. Permits(c) /\ ~ Permits(Builtin) /\ ~ Permits(Reports(r))
    BY <1>1, <1>2, TargetComplete DEF Complete, Permits, Builtin
<1>4. CASE "authorized_target" \in DOMAIN r.targets[i]
  <2>1. c.authorized_target = r.targets[i].authorized_target
    BY <1>1, <1>4 DEF TargetConfig, ++
  <2> QED
    BY <1>2, <1>4, <2>1
<1>5. CASE "authorized_target" \notin DOMAIN r.targets[i]
  <2>1. CASE "authorized_target" \in DOMAIN r.cli
    <3>1. r.cli.authorized_target \in BOOLEAN /\ r.cli.authorized_target # Builtin.authorized_target
      BY <2>1, RequestsAssumption, FlagValues DEF IsLayer, Flags
    <3> QED
      BY <1>5, <2>1, <3>1 DEF Builtin
  <2>2. CASE "authorized_target" \notin DOMAIN r.cli
    <3>1. Flagged(r, r.shared_test) = r.shared_test /\ Flagged(r, r.test) = r.test
      BY <2>2 DEF Flagged
    <3>2. ~ Permits(r.targets[i])
      BY <1>5 DEF Permits
    <3>3. \/ Permits(r.shared_test) \/ Permits(r.shared_defaults)
          \/ Permits(r.test) \/ Permits(r.defaults)
      BY <1>3, <3>1, <3>2, PermitsOver DEF TargetConfig
    <3> QED
      BY <1>5, <3>3 DEF Permits
  <2> QED
    BY <2>1, <2>2
<1> QED
    BY <1>4, <1>5

-----------------------------------------------------------------------------
(* Where the commands stand, and with which configuration *)

TestStages ==
    {"start", "check", "connect", "probe", "warmup", "measure", "write", "sla", "pdf", "ended"}
BatchStages ==
    {"start", "next", "target", "run", "save", "report", "dump", "conclude", "ended"}

Control ==
    /\ request \in Requests
    /\ pc \in IF IsBatch THEN BatchStages ELSE TestStages
    /\ Running <=> pc # "ended"

(* Between two targets of a batch the configuration is the one of the last. *)
Sources ==
    /\ IF IsBatch THEN config = Builtin \/ \E i \in Targets : config = TargetConfig(request, i)
       ELSE config = Builtin \/ config = Configured(request)
    /\ ~ IsBatch /\ pc \notin {"start", "ended"} => config = Configured(request)
    /\ IsBatch /\ pc \in {"target", "run", "save", "report"} =>
          at \in Targets /\ config = TargetConfig(request, at)

LEMMA ConfigComplete == Control /\ Sources => Complete(config)
<1>1. Complete(Builtin)
    BY BuiltinLayer DEF Complete
<1> QED
    BY <1>1, ConfiguredComplete, TargetComplete DEF Control, Sources, IsBatch, Targets

AllVars == <<vars, batch>>

(* The actions of test, by what they leave alone. *)
Refusals == UsageError \/ NotANumber \/ Invalid \/ Unsafe \/ ResolveFails
Measuring == \E s \in Callers : Coroutine(s)
Concluding ==
    WriteMetrics \/ WriteFails \/ EvaluateSla \/ SlaUnreadable \/ PdfFails \/ Conclude

(* What the commands do is one of these. *)
LEMMA Steps ==
    ASSUME [BatchNext]_AllVars
    PROVE  \/ IsBatch /\ BatchStep
           \/ FileUnreadable /\ UNCHANGED batch
           \/ Interrupt /\ UNCHANGED batch
           \/ ~ IsBatch /\ UNCHANGED batch /\
                 (\/ Refusals \/ Configure \/ Resolve \/ EndpointFails \/ EndpointOpens
                  \/ ProbeAnswered \/ ProbeSilent \/ EndWarmup \/ Report \/ Measuring
                  \/ Pass \/ Concluding \/ Compare)
           \/ UNCHANGED AllVars
BY DEF BatchNext, BatchStep, Common, Test, Command, BatchOver, Terminated, AllVars,
       Refusals, Measuring, Concluding

LEMMA ControlStep == Control /\ [BatchNext]_AllVars => Control'
<1> SUFFICES ASSUME Control, [BatchNext]_AllVars PROVE Control'
    OBVIOUS
<1> USE DEF Control, Running, TestStages, BatchStages, input, single
<1>1. CASE IsBatch /\ BatchStep
  <2>1. request' = request /\ IsBatch' = IsBatch
    BY <1>1 DEF BatchStep, IsBatch, LoadTargets, Prepare, RefuseTarget, StartTarget, TargetFails,
       TargetEnds, SaveTarget, SaveFails, ReportTarget, ReportFails, OpenOutput, Dump, OutputFails,
       ConcludeBatch, Skip
  <2>2. pc' \in BatchStages
    BY <1>1 DEF BatchStep, LoadTargets, Prepare, RefuseTarget, StartTarget, TargetFails,
       TargetEnds, SaveTarget, SaveFails, ReportTarget, ReportFails, OpenOutput, Dump, OutputFails,
       ConcludeBatch, Skip, Exit
  <2>3. Running' <=> pc' # "ended"
    <3>1. pc # "ended" /\ exit = -1
      BY <1>1 DEF BatchStep, LoadTargets, Prepare, RefuseTarget, StartTarget, TargetFails,
         TargetEnds, SaveTarget, SaveFails, ReportTarget, ReportFails, OpenOutput, Dump, OutputFails,
         ConcludeBatch, AllTried
    <3>2. CASE LoadTargets \/ Prepare \/ OutputFails \/ ConcludeBatch
      BY <3>1, <3>2 DEF LoadTargets, Prepare, OutputFails, ConcludeBatch, Exit
    <3>3. CASE Skip \/ StartTarget \/ TargetEnds \/ SaveTarget \/ ReportTarget \/ OpenOutput \/ Dump
      BY <3>1, <3>3 DEF Skip, StartTarget, TargetEnds, SaveTarget, ReportTarget, OpenOutput, Dump
    <3> QED
      BY <1>1, <3>2, <3>3 DEF BatchStep, RefuseTarget, TargetFails, SaveFails, ReportFails
  <2> QED
    BY <1>1, <2>1, <2>2, <2>3
<1>2. CASE FileUnreadable \/ Interrupt
    BY <1>2 DEF FileUnreadable, Interrupt, Exit, IsBatch
<1>3. CASE UNCHANGED AllVars \/ Compare
    BY <1>3 DEF AllVars, vars, Compare, IsBatch
<1>4. ASSUME ~ IsBatch
      PROVE  /\ Refusals => Control'
             /\ Configure \/ Resolve \/ EndpointOpens \/ ProbeAnswered \/ EndWarmup \/ Report => Control'
             /\ EndpointFails \/ ProbeSilent => Control'
             /\ Concluding => Control'
  <2>1. Refusals => Control'
    BY <1>4 DEF Refusals, UsageError, NotANumber, Invalid, Unsafe, ResolveFails, Exit, IsBatch
  <2>2. Configure \/ Resolve \/ EndpointOpens \/ ProbeAnswered \/ EndWarmup \/ Report => Control'
    BY <1>4 DEF Configure, Resolve, EndpointOpens, ProbeAnswered, Choose, EndWarmup, Report, IsBatch
  <2>3. EndpointFails \/ ProbeSilent => Control'
    BY <1>4 DEF EndpointFails, ProbeSilent, NextAddress, Exit, IsBatch
  <2>4. Verdict \in {0, 1, 2}
    BY DEF Verdict
  <2>5. Concluding => Control'
    BY <1>4, <2>4 DEF Concluding, WriteMetrics, WriteFails, EvaluateSla, SlaUnreadable, PdfFails,
       Conclude, Exit, IsBatch
  <2> QED
    BY <2>1, <2>2, <2>3, <2>5
<1>5. CASE Measuring \/ Pass
    BY <1>5 DEF Measuring, Coroutine, Pace, Timeout, Answer, Pass, IsBatch
<1> QED
    BY <1>1, <1>2, <1>3, <1>4, <1>5, Steps

LEMMA SourcesStep == Control /\ Sources /\ [BatchNext]_AllVars => Sources'
<1> SUFFICES ASSUME Control, Sources, [BatchNext]_AllVars PROVE Sources'
    OBVIOUS
<1> USE DEF Sources, input, single, batch
<1>1. CASE IsBatch /\ Prepare
  <2>1. IsBatch' /\ request' = request /\ at' = at /\ Targets' = Targets
            /\ config' = TargetConfig(request, at) /\ at \in Targets
    BY <1>1 DEF Prepare, IsBatch, Targets
  <2>2. TargetConfig(request, at)' = TargetConfig(request, at)
    BY <2>1 DEF TargetConfig, Reports, Flagged
  <2> QED
    BY <2>1, <2>2
<1>2. CASE IsBatch /\ BatchStep /\ ~ Prepare
  <2>1. IsBatch' /\ request' = request /\ config' = config /\ Targets' = Targets
    BY <1>2 DEF BatchStep, LoadTargets, RefuseTarget, StartTarget, TargetFails,
       TargetEnds, SaveTarget, SaveFails, ReportTarget, ReportFails, OpenOutput, Dump, OutputFails,
       ConcludeBatch, Skip, IsBatch, Targets
  <2>2. pc' \in {"target", "run", "save", "report"} =>
            pc \in {"target", "run", "save", "report"} /\ at' = at
    BY <1>2 DEF BatchStep, LoadTargets, RefuseTarget, StartTarget, TargetFails,
       TargetEnds, SaveTarget, SaveFails, ReportTarget, ReportFails, OpenOutput, Dump, OutputFails,
       ConcludeBatch, Skip, Exit
  <2>3. \A i : TargetConfig(request, i)' = TargetConfig(request, i)
    BY <2>1 DEF TargetConfig, Reports, Flagged
  <2> QED
    BY <1>2, <2>1, <2>2, <2>3
<1>3. ASSUME UNCHANGED <<request, config, batch>>,
             pc' \in {pc, "ended"} \/ (~ IsBatch /\ pc \notin {"start", "ended"})
      PROVE  Sources'
    BY <1>3 DEF IsBatch, Targets, TargetConfig, Reports, Flagged, Configured, Section
<1>4. CASE (FileUnreadable \/ Interrupt) /\ UNCHANGED batch
    BY <1>3, <1>4 DEF FileUnreadable, Interrupt, Exit
<1>5. CASE UNCHANGED AllVars
    BY <1>3, <1>5 DEF AllVars, vars
<1>6. CASE ~ IsBatch /\ UNCHANGED batch /\ Configure
    BY <1>6 DEF Configure, IsBatch, Configured, Section
<1>7. CASE ~ IsBatch /\ UNCHANGED batch /\ (Refusals \/ Compare)
    BY <1>3, <1>7 DEF Refusals, UsageError, NotANumber, Invalid, Unsafe, ResolveFails, Exit, Compare
<1>8. CASE ~ IsBatch /\ UNCHANGED batch /\
              (Resolve \/ EndpointFails \/ EndpointOpens \/ ProbeAnswered \/ ProbeSilent \/ EndWarmup \/ Report)
    BY <1>3, <1>8 DEF Resolve, EndpointFails, EndpointOpens, ProbeAnswered, ProbeSilent, EndWarmup, Report
<1>9. CASE ~ IsBatch /\ UNCHANGED batch /\ (Measuring \/ Pass)
    BY <1>3, <1>9 DEF Measuring, Coroutine, Pace, Timeout, Answer, Pass
<1>10. CASE ~ IsBatch /\ UNCHANGED batch /\ Concluding
    BY <1>3, <1>10 DEF Concluding, WriteMetrics, WriteFails, EvaluateSla, SlaUnreadable, PdfFails, Conclude
<1> QED
    BY <1>1, <1>2, <1>4, <1>5, <1>6, <1>7, <1>8, <1>9, <1>10, Steps

-----------------------------------------------------------------------------
(* The endpoints, and who is reached *)

Opened ==
    /\ index \in Nat /\ (pc \in {"connect", "probe"} => index # 0)
    /\ open # {} => ~ IsBatch /\ config = Configured(request)
    /\ pc \in {"connect", "probe", "warmup", "measure"} \/ open # {} => Safe(config)
    /\ pc \notin {"probe", "warmup", "measure", "ended"} => open = {}
    /\ pc \in {"start", "check", "connect", "probe"} => chosen = 0
    /\ pc = "probe" => open = {index}
    /\ pc \in {"warmup", "measure"} => open = {chosen} /\ chosen # 0
    /\ pc = "ended" /\ open # {} => exit = 130 /\ chosen = 0

Reached == \A i \in reached : IsBatch /\ i \in Targets /\ Safe(TargetConfig(request, i))

LEMMA OpenedStep == Control /\ Sources /\ Opened /\ [BatchNext]_AllVars => Opened'
<1> SUFFICES ASSUME Control, Sources, Opened, [BatchNext]_AllVars PROVE Opened'
    OBVIOUS
<1> USE DEF Opened, input, address, single
<1>1. CASE IsBatch /\ BatchStep
  <2>1. UNCHANGED <<request, address>> /\ open = {}
    BY <1>1 DEF BatchStep, LoadTargets, Prepare, RefuseTarget, StartTarget, TargetFails,
       TargetEnds, SaveTarget, SaveFails, ReportTarget, ReportFails, OpenOutput, Dump, OutputFails,
       ConcludeBatch, Skip
  <2>2. pc' \notin {"start", "check", "connect", "probe", "warmup", "measure"}
    BY <1>1 DEF BatchStep, LoadTargets, Prepare, RefuseTarget, StartTarget, TargetFails,
       TargetEnds, SaveTarget, SaveFails, ReportTarget, ReportFails, OpenOutput, Dump, OutputFails,
       ConcludeBatch, Skip, Exit
  <2> QED
    BY <2>1, <2>2
<1>2. ASSUME UNCHANGED <<config, request>> PROVE Safe(config)' = Safe(config)
             /\ IsBatch' = IsBatch /\ Configured(request)' = Configured(request)
    BY <1>2 DEF Safe, IsBatch, Configured, Section
<1>3. CASE FileUnreadable
    BY <1>2, <1>3 DEF FileUnreadable, Exit
<1>4. CASE Interrupt
  <2>1. pc # "ended"
    BY <1>4 DEF Interrupt, Control
  <2>2. UNCHANGED <<request, config, index, chosen>> /\ pc' = "ended" /\ exit' = 130
    BY <1>4 DEF Interrupt, Exit
  <2>3. open' # {} => open' = open /\ chosen = 0
    BY <1>4 DEF Interrupt
  <2> QED
    BY <1>2, <2>1, <2>2, <2>3
<1>5. CASE UNCHANGED AllVars \/ Compare
    BY <1>2, <1>5 DEF AllVars, vars, Compare
<1>6. CASE ~ IsBatch /\ Refusals
    BY <1>2, <1>6 DEF Refusals, UsageError, NotANumber, Invalid, Unsafe, ResolveFails, Exit
<1>7. CASE ~ IsBatch /\ Configure
    BY <1>7 DEF Configure
<1>8. CASE ~ IsBatch /\ Resolve
    BY <1>2, <1>8 DEF Resolve
<1>9. CASE ~ IsBatch /\ (EndpointFails \/ ProbeSilent)
    BY <1>2, <1>9 DEF EndpointFails, ProbeSilent, NextAddress, Exit
<1>10. CASE ~ IsBatch /\ (EndpointOpens \/ ProbeAnswered)
  <2>1. UNCHANGED <<request, config, index>> /\ open' = {index} /\ index # 0
    BY <1>10 DEF EndpointOpens, ProbeAnswered, Choose
  <2>2. (pc' = "warmup" /\ chosen' = index) \/ (pc' = "probe" /\ chosen' = 0)
    BY <1>10 DEF EndpointOpens, ProbeAnswered, Choose
  <2>3. Safe(config) /\ config = Configured(request)
    BY <1>10 DEF EndpointOpens, ProbeAnswered, Sources
  <2> QED
    BY <1>2, <1>10, <2>1, <2>2, <2>3
<1>11. CASE ~ IsBatch /\ (EndWarmup \/ Report)
    BY <1>2, <1>11 DEF EndWarmup, Report
<1>12. CASE Measuring \/ Pass
    BY <1>2, <1>12 DEF Measuring, Coroutine, Pace, Timeout, Answer, Pass
<1>13. CASE ~ IsBatch /\ Concluding
    BY <1>2, <1>13 DEF Concluding, WriteMetrics, WriteFails, EvaluateSla, SlaUnreadable, PdfFails,
       Conclude, Exit
<1> QED
    BY <1>1, <1>3, <1>4, <1>5, <1>6, <1>7, <1>8, <1>9, <1>10, <1>11, <1>12, <1>13, Steps

LEMMA ReachedStep == Control /\ Sources /\ Reached /\ [BatchNext]_AllVars => Reached'
<1> SUFFICES ASSUME Control, Sources, Reached, [BatchNext]_AllVars PROVE Reached'
    OBVIOUS
<1> USE DEF Reached, input, single, batch
<1>1. request' = request
    BY Steps DEF BatchStep, LoadTargets, Prepare, RefuseTarget, StartTarget, TargetFails,
       TargetEnds, SaveTarget, SaveFails, ReportTarget, ReportFails, OpenOutput, Dump, OutputFails,
       ConcludeBatch, Skip, FileUnreadable, Interrupt, Refusals, UsageError, NotANumber, Invalid,
       Unsafe, ResolveFails, Configure, Resolve, EndpointFails, EndpointOpens, ProbeAnswered,
       ProbeSilent, EndWarmup, Report, Measuring, Coroutine, Pace, Timeout, Answer, Pass, Concluding,
       WriteMetrics, WriteFails, EvaluateSla, SlaUnreadable, PdfFails, Conclude, Compare, AllVars, vars
<1>2. IsBatch' = IsBatch /\ Targets' = Targets
          /\ \A i : Safe(TargetConfig(request, i))' = Safe(TargetConfig(request, i))
    BY <1>1 DEF IsBatch, Targets, Safe, TargetConfig, Reports, Flagged
<1>3. CASE UNCHANGED reached
    BY <1>2, <1>3
<1>4. CASE IsBatch /\ StartTarget
    BY <1>2, <1>4 DEF StartTarget, Sources
<1>5. CASE IsBatch /\ BatchStep /\ ~ StartTarget
    BY <1>3, <1>5 DEF BatchStep, LoadTargets, Prepare, RefuseTarget, TargetFails,
       TargetEnds, SaveTarget, SaveFails, ReportTarget, ReportFails, OpenOutput, Dump, OutputFails,
       ConcludeBatch, Skip
<1> QED
    BY <1>3, <1>4, <1>5, Steps DEF AllVars

-----------------------------------------------------------------------------
(* The limiter *)

LEMMA LimiterStep == Control /\ Sources /\ IInv /\ [BatchNext]_AllVars => IInv'
<1> SUFFICES ASSUME Control, Sources, IInv, [BatchNext]_AllVars PROVE IInv'
    OBVIOUS
<1> USE DEF measurement, single
<1>1. CASE UNCHANGED limiter
    BY <1>1, NextIInv
<1>2. BucketInit' => IInv'
    BY InitIInv, PTL
<1>3. ASSUME Choose PROVE IInv'
  <2>1. config.interval \in Intervals
    BY ConfigComplete, CompleteTypes
  <2>2. BucketInit'
    BY <1>3, <2>1 DEF Choose, BucketInit, Created
  <2> QED
    BY <1>2, <2>2
<1>4. ASSUME NEW s \in Callers, Coroutine(s) PROVE IInv'
  <2>1. CASE Pace(s)
    BY <2>1, NextIInv DEF Pace, BucketNext
  <2>2. CASE Timeout(s) \/ \E rtt \in Rtts : Answer(s, rtt)
    BY <1>1, <2>2 DEF Timeout, Answer
  <2> QED
    BY <1>4, <2>1, <2>2 DEF Coroutine
<1>5. CASE Pass
    BY <1>5, NextIInv DEF Pass, BucketNext
<1>6. CASE EndpointOpens \/ ProbeAnswered
    BY <1>1, <1>3, <1>6 DEF EndpointOpens, ProbeAnswered
<1>7. CASE IsBatch /\ BatchStep
    BY <1>1, <1>7 DEF BatchStep, LoadTargets, Prepare, RefuseTarget, StartTarget, TargetFails,
       TargetEnds, SaveTarget, SaveFails, ReportTarget, ReportFails, OpenOutput, Dump, OutputFails,
       ConcludeBatch, Skip
<1>8. CASE FileUnreadable \/ Interrupt \/ Refusals \/ Configure \/ Compare
    BY <1>1, <1>8 DEF FileUnreadable, Interrupt, Refusals, UsageError, NotANumber, Invalid, Unsafe,
       ResolveFails, Configure, Compare
<1>9. CASE Resolve \/ EndpointFails \/ ProbeSilent \/ EndWarmup \/ Report
    BY <1>1, <1>9 DEF Resolve, EndpointFails, ProbeSilent, EndWarmup, Report
<1>10. CASE Concluding \/ UNCHANGED AllVars
    BY <1>1, <1>10 DEF Concluding, WriteMetrics, WriteFails, EvaluateSla, SlaUnreadable, PdfFails,
       Conclude, AllVars, vars
<1> QED
    BY <1>4, <1>5, <1>6, <1>7, <1>8, <1>9, <1>10, Steps DEF Measuring


-----------------------------------------------------------------------------
(* What a batch has done when it has come to a target *)

Place ==
    /\ at \in Nat /\ at <= Len(request.targets) + 1
    /\ pc = "start" => at = 0
    /\ pc \notin {"start", "ended"} => at # 0
    /\ pc \in {"dump", "conclude"} => at \notin Targets

(* The statistics are in the order of the file, none of a target to come. *)
Order ==
    /\ results \in Seq(Targets)
    /\ \A j, k \in DOMAIN results : j < k => results[j] < results[k]
    /\ \A k \in DOMAIN results :
          results[k] <= at /\ (pc \in {"next", "target", "run"} => results[k] < at)

Covered ==
    /\ failed \subseteq Targets
    /\ \A i \in Targets : i < at => i \in Ended \union failed
    /\ pc \in {"save", "report"} => at \in Ended

Wants(i) == TargetConfig(request, i).metrics_output # "none"

Stored ==
    /\ written \in [0 .. Len(request.targets) -> Ended \union {0}]
    /\ \A i \in Targets \ failed : i < at /\ Wants(i) => written[Destination(i)] >= i
    /\ pc = "report" /\ config.metrics_output # "none" => written[Destination(at)] = at

Combined ==
    /\ pc \notin {"dump", "conclude", "ended"} => combined.state = "earlier"
    /\ pc \in {"dump", "conclude"} => request.output
    /\ pc = "conclude" => combined = [state |-> "whole", of |-> results]

Accounts == IsBatch => Place /\ Order /\ Covered /\ Stored /\ Combined /\ GreenBatch

LEMMA TargetsCounted ==
    Control /\ IsBatch => /\ Len(request.targets) \in Nat /\ Targets = 1 .. Len(request.targets)
                          /\ \A i \in Targets : Destination(i) \in 0 .. Len(request.targets)
<1> SUFFICES ASSUME Control, IsBatch
             PROVE  /\ Len(request.targets) \in Nat /\ Targets = 1 .. Len(request.targets)
                    /\ \A i \in Targets : Destination(i) \in 0 .. Len(request.targets)
    OBVIOUS
<1>1. request.targets \in Seq({request.targets[i] : i \in DOMAIN request.targets})
    BY BatchAssumption DEF Control, IsBatch
<1>2. Len(request.targets) \in Nat /\ Targets = 1 .. Len(request.targets)
    BY <1>1 DEF Targets
<1> QED
    BY <1>2 DEF Destination

(* While the command runs, its exit code promises nothing yet. *)
LEMMA StillRunning ==
    ASSUME NEW n, written \in [0 .. n -> Ended \union {0}], exit = -1
    PROVE  GreenBatch
BY DEF GreenBatch, Running

LEMMA SkipStep ==
    ASSUME Control, Sources, Accounts, IsBatch, Skip, pc \in {"target", "run", "save", "report"}
    PROVE  Accounts'
<1> DEFINE N == Len(request.targets)
<1>1. N \in Nat /\ Targets = 1 .. N /\ at \in Targets
    BY TargetsCounted DEF Sources
<1>2. /\ UNCHANGED <<request, config, exit, results, written, combined>>
      /\ failed' = failed \union {at} /\ at' = at + 1 /\ pc' = "next"
    BY DEF Skip, single
<1>3. /\ IsBatch' /\ N' = N /\ Targets' = Targets /\ Ended' = Ended
      /\ \A i : Wants(i)' = Wants(i) /\ Destination(i)' = Destination(i)
    BY <1>2 DEF IsBatch, Targets, Ended, Wants, TargetConfig, Reports, Flagged, Destination
<1>4. Place'
    BY <1>1, <1>2, <1>3 DEF Accounts, Place
<1>5. Order'
    BY <1>1, <1>2, <1>3 DEF Accounts, Order
<1>6. Covered'
    BY <1>1, <1>2, <1>3 DEF Accounts, Covered
<1>7. Stored'
    BY <1>1, <1>2, <1>3 DEF Accounts, Stored
<1>8. Combined'
    BY <1>2 DEF Accounts, Combined
<1>9. GreenBatch'
    BY <1>2, <1>3 DEF Accounts, GreenBatch, Control, Running
<1> QED
    BY <1>4, <1>5, <1>6, <1>7, <1>8, <1>9 DEF Accounts

LEMMA TargetEndsStep ==
    ASSUME Control, Sources, Accounts, IsBatch, TargetEnds
    PROVE  Accounts'
<1> DEFINE N == Len(request.targets)
<1>1. N \in Nat /\ Targets = 1 .. N /\ at \in Targets
    BY TargetsCounted DEF Sources, TargetEnds
<1>2. /\ UNCHANGED <<request, config, exit, at, failed, written, combined>>
      /\ results' = Append(results, at) /\ pc = "run" /\ pc' = "save"
    BY DEF TargetEnds, single
<1>3. /\ IsBatch' /\ N' = N /\ Targets' = Targets
      /\ \A i : Wants(i)' = Wants(i) /\ Destination(i)' = Destination(i)
    BY <1>2 DEF IsBatch, Targets, Wants, TargetConfig, Reports, Flagged, Destination
<1>4. /\ results \in Seq(Targets) /\ results' \in Seq(Targets)
      /\ DOMAIN results' = 1 .. (Len(results) + 1) /\ DOMAIN results = 1 .. Len(results)
      /\ Len(results) \in Nat
      /\ results'[Len(results) + 1] = at
      /\ \A k \in DOMAIN results : results'[k] = results[k]
    BY <1>1, <1>2 DEF Accounts, Order
<1>5. Ended' = Ended \union {at}
    BY <1>4 DEF Ended
<1>6. Place'
    BY <1>1, <1>2, <1>3 DEF Accounts, Place
<1>7. Order'
  <2>1. \A k \in DOMAIN results : results[k] < at
    BY <1>2 DEF Accounts, Order
  <2>2. \A k \in DOMAIN results' : results'[k] <= at
    BY <1>1, <1>4, <2>1
  <2>3. \A j, k \in DOMAIN results' : j < k => results'[j] < results'[k]
    <3> SUFFICES ASSUME NEW j \in DOMAIN results', NEW k \in DOMAIN results', j < k
                 PROVE  results'[j] < results'[k]
      OBVIOUS
    <3>1. j \in DOMAIN results
      BY <1>4
    <3>2. CASE k \in DOMAIN results
      BY <1>4, <3>1, <3>2 DEF Accounts, Order
    <3>3. CASE k = Len(results) + 1
      BY <1>4, <2>1, <3>1, <3>3
    <3> QED
      BY <1>4, <3>2, <3>3
  <2> QED
    BY <1>2, <1>3, <1>4, <2>2, <2>3 DEF Order
<1>8. Covered'
    BY <1>1, <1>2, <1>3, <1>5 DEF Accounts, Covered
<1>9. Stored'
    BY <1>1, <1>2, <1>3, <1>5 DEF Accounts, Stored
<1>10. Combined'
    BY <1>2 DEF Accounts, Combined
<1>11. GreenBatch'
    BY <1>2, <1>3, <1>5 DEF Accounts, GreenBatch, Control, Running
<1> QED
    BY <1>3, <1>6, <1>7, <1>8, <1>9, <1>10, <1>11 DEF Accounts

(* The steps between two runs, and the last ones. *)
LEMMA BatchStepAccounts ==
    ASSUME Control, Sources, Accounts, IsBatch, BatchStep
    PROVE  Accounts'
<1> DEFINE N == Len(request.targets)
<1>1. /\ N \in Nat /\ Targets = 1 .. N
      /\ \A i \in Targets : Destination(i) \in 0 .. N
    BY TargetsCounted
<1>2. ASSUME request' = request
      PROVE  /\ IsBatch' /\ N' = N /\ Targets' = Targets
             /\ \A i : Wants(i)' = Wants(i) /\ Destination(i)' = Destination(i)
    BY <1>2 DEF IsBatch, Targets, Wants, TargetConfig, Reports, Flagged, Destination
<1>3. Place /\ Order /\ Covered /\ Stored /\ Combined /\ GreenBatch
    BY DEF Accounts
<1>4. CASE RefuseTarget \/ TargetFails \/ SaveFails \/ ReportFails
    BY <1>4, SkipStep DEF RefuseTarget, TargetFails, SaveFails, ReportFails
<1>5. CASE TargetEnds
    BY <1>5, TargetEndsStep
<1>6. ASSUME UNCHANGED <<request, results, failed, written>> PROVE Ended' = Ended
    BY <1>6 DEF Ended
<1>7. CASE LoadTargets
  <2>1. /\ UNCHANGED <<request, results, failed, written, combined>>
        /\ pc = "start" /\ pc' \in {"next", "ended"}
        /\ pc' = "next" => at' = 1 /\ N >= 1 /\ exit' = exit
        /\ pc' = "ended" => at' = at /\ exit' = 3
    <3>1. IF request.targets_readable /\ request.targets # <<>>
          THEN pc' = "next" /\ at' = 1 /\ UNCHANGED exit
          ELSE Exit(3) /\ UNCHANGED at
      BY <1>7 DEF LoadTargets
    <3>2. request.targets \in Seq({request.targets[i] : i \in DOMAIN request.targets})
      BY BatchAssumption DEF Control, IsBatch
    <3>3. request.targets # <<>> => N >= 1
      BY <3>2
    <3>4. UNCHANGED <<request, results, failed, written, combined>> /\ pc = "start"
      BY <1>7 DEF LoadTargets, single
    <3> QED
      BY <3>1, <3>3, <3>4 DEF Exit
  <2>2. at = 0
    BY <1>3, <2>1 DEF Place
  <2>3. DOMAIN results = {}
    BY <1>1, <1>3, <2>2 DEF Order
  <2>4. Place'
    BY <1>1, <1>2, <1>3, <2>1 DEF Place
  <2>5. Order'
    BY <1>2, <1>3, <2>1, <2>3 DEF Order
  <2>6. Covered'
    BY <1>1, <1>2, <1>3, <1>6, <2>1, <2>2 DEF Covered
  <2>7. Stored'
    BY <1>1, <1>2, <1>3, <1>6, <2>1, <2>2 DEF Stored
  <2>8. Combined'
    BY <1>3, <2>1 DEF Combined
  <2>9. exit = -1 /\ combined.state = "earlier"
    BY <1>3, <2>1 DEF Control, Running, Combined
  <2>10. GreenBatch'
    BY <1>2, <1>3, <1>6, <2>1, <2>9 DEF GreenBatch, Running
  <2> QED
    BY <1>2, <2>1, <2>4, <2>5, <2>6, <2>7, <2>8, <2>10 DEF Accounts
<1>8. CASE Prepare \/ StartTarget \/ ReportTarget \/ OpenOutput
  <2>1. /\ UNCHANGED <<request, results, failed, written>> /\ pc # "ended"
        /\ pc' \in {"target", "run", "next", "dump", "ended"} /\ at' \in {at, at + 1}
        /\ pc' = "ended" => exit' \in {1, 3} /\ pc = "next" /\ at' = at
        /\ pc' # "ended" => exit' = exit
        /\ pc' = "next" => pc = "report"
        /\ pc' # "next" => at' = at /\ pc \in {"next", "target"}
        /\ pc' # "dump" => combined' = combined
        /\ pc' = "dump" => at \notin Targets /\ request.output
    BY <1>8 DEF Prepare, StartTarget, ReportTarget, OpenOutput, AllTried, Exit, single, batch
  <2>2. pc = "report" => at \in Targets /\ config = TargetConfig(request, at)
    BY DEF Sources
  <2>3. pc = "report" => at' = at + 1
    BY <1>8 DEF Prepare, StartTarget, ReportTarget, OpenOutput, AllTried, Exit
  <2>4. Place'
    BY <1>1, <1>2, <1>3, <2>1, <2>2, <2>3 DEF Place
  <2>5. Order'
    BY <1>1, <1>2, <1>3, <2>1, <2>2, <2>3 DEF Order, Place
  <2>6. Covered'
    <3>1. \A i \in Targets : i < at' => i \in Ended \union failed
      BY <1>1, <1>3, <2>1, <2>2, <2>3 DEF Covered, Place
    <3> QED
      BY <1>2, <1>3, <1>6, <2>1, <3>1 DEF Covered
  <2>7. Stored'
    <3>1. ASSUME NEW i \in Targets \ failed, i < at', Wants(i)
          PROVE  written[Destination(i)] >= i
      <4>1. CASE i < at
        BY <1>3, <3>1, <4>1 DEF Stored
      <4>2. CASE i = at /\ pc = "report"
        BY <1>1, <1>3, <2>2, <3>1, <4>2 DEF Stored, Wants
      <4> QED
        BY <1>1, <1>3, <2>1, <2>3, <3>1, <4>1, <4>2 DEF Place
    <3> QED
      BY <1>2, <1>3, <1>6, <2>1, <3>1 DEF Stored
  <2>8. Combined'
    BY <1>3, <2>1 DEF Combined
  <2>9. exit = -1 /\ (pc = "next" => combined.state = "earlier")
    BY <1>3, <2>1 DEF Control, Running, Combined
  <2>10. GreenBatch'
    BY <1>2, <1>3, <1>6, <2>1, <2>9 DEF GreenBatch, Running
  <2> QED
    BY <1>2, <2>1, <2>4, <2>5, <2>6, <2>7, <2>8, <2>10 DEF Accounts
<1>9. CASE SaveTarget
  <2>1. /\ UNCHANGED <<request, config, exit, at, results, failed, combined>>
        /\ pc = "save" /\ pc' = "report"
        /\ written' = IF config.metrics_output # "none" THEN [written EXCEPT ![Destination(at)] = at] ELSE written
    BY <1>9 DEF SaveTarget, single
  <2>2. at \in Targets /\ config = TargetConfig(request, at) /\ at \in Ended /\ Destination(at) \in 0 .. N
    BY <1>1, <1>3, <2>1 DEF Sources, Covered
  <2>3. Ended' = Ended /\ exit = -1
    BY <2>1 DEF Ended, Control, Running
  <2>4. Place'
    BY <1>2, <1>3, <2>1 DEF Place
  <2>5. Order'
    BY <1>2, <1>3, <2>1 DEF Order
  <2>6. Covered'
    BY <1>2, <1>3, <2>1, <2>3 DEF Covered
  <2>7. Stored'
    <3>1. CASE config.metrics_output # "none"
      <4>1. written' = [written EXCEPT ![Destination(at)] = at]
        BY <2>1, <3>1
      <4>2. written' \in [0 .. N -> Ended \union {0}] /\ written'[Destination(at)] = at
        BY <1>3, <2>2, <4>1 DEF Stored
      <4>3. ASSUME NEW i \in Targets \ failed, i < at, Wants(i)
            PROVE  written'[Destination(i)] >= i
        <5>1. written[Destination(i)] >= i /\ Destination(i) \in 0 .. N
          BY <1>1, <1>3, <4>3 DEF Stored
        <5>2. written'[Destination(i)] \in {written[Destination(i)], at}
          BY <1>3, <4>1, <5>1 DEF Stored
        <5> QED
          BY <1>1, <2>2, <4>3, <5>1, <5>2
      <4> QED
        BY <1>2, <2>1, <2>3, <4>2, <4>3 DEF Stored
    <3>2. CASE config.metrics_output = "none"
      <4>1. written' = written
        BY <2>1, <3>2
      <4> QED
        BY <1>2, <1>3, <2>1, <2>3, <3>2, <4>1 DEF Stored
    <3> QED
      BY <3>1, <3>2
  <2>8. Combined'
    BY <1>3, <2>1 DEF Combined
  <2>9. GreenBatch'
    <3>1. exit' = -1 /\ \A d \in DOMAIN written' : written'[d] \in Ended' \union {0}
      BY <1>2, <2>1, <2>3, <2>7 DEF Stored
    <3> QED
      BY <3>1 DEF GreenBatch, Running
  <2> QED
    BY <1>2, <2>1, <2>4, <2>5, <2>6, <2>7, <2>8, <2>9 DEF Accounts
<1>10. CASE Dump \/ OutputFails \/ ConcludeBatch
  <2>1. /\ UNCHANGED <<request, at, results, failed, written>>
        /\ pc \in {"next", "dump", "conclude"} /\ pc' \in {"conclude", "ended"}
        /\ at \notin Targets \/ pc # "next"
    BY <1>10 DEF Dump, OutputFails, ConcludeBatch, AllTried, Exit, single, batch
  <2>2. Ended' = Ended /\ at \notin Targets /\ at # 0 /\ exit = -1
    BY <1>3, <2>1 DEF Ended, Place, Control, Running
  <2>3. Targets \subseteq Ended \union failed /\ Ended \union failed \subseteq Targets
    <3>1. at = N + 1
      BY <1>1, <1>3, <2>2 DEF Place
    <3>2. Targets \subseteq Ended \union failed
      BY <1>1, <1>3, <3>1 DEF Covered
    <3>3. Ended \subseteq Targets
      BY <1>3 DEF Ended, Order
    <3> QED
      BY <1>3, <3>2, <3>3 DEF Covered
  <2>4. \A i \in Targets \ failed : Wants(i) => written[Destination(i)] >= i
    BY <1>1, <1>3, <2>2 DEF Stored, Place
  <2>5. Place'
    BY <1>2, <1>3, <2>1, <2>2 DEF Place
  <2>6. Order'
    BY <1>2, <1>3, <2>1 DEF Order
  <2>7. Covered'
    BY <1>2, <1>3, <2>1, <2>2 DEF Covered
  <2>8. Stored'
    BY <1>2, <1>3, <2>1, <2>2 DEF Stored
  <2>9. CASE Dump
    <3>1. /\ combined' = [state |-> "whole", of |-> results]
          /\ pc = "dump" /\ pc' = "conclude" /\ exit' = exit
      BY <1>10, <2>9 DEF Dump
    <3>2. Combined'
      BY <1>3, <2>1, <3>1 DEF Combined
    <3>3. GreenBatch'
      BY <1>3, <2>1, <2>2, <3>1 DEF GreenBatch, Running
    <3> QED
      BY <1>2, <2>1, <2>5, <2>6, <2>7, <2>8, <3>2, <3>3 DEF Accounts
  <2>10. CASE OutputFails
    <3>1. pc' = "ended" /\ exit' = 1
      BY <2>10 DEF OutputFails, Exit
    <3>2. Combined'
      BY <3>1 DEF Combined
    <3>3. GreenBatch'
      BY <1>3, <2>1, <2>2, <3>1 DEF GreenBatch, Running
    <3> QED
      BY <1>2, <2>1, <2>5, <2>6, <2>7, <2>8, <3>2, <3>3 DEF Accounts
  <2>11. CASE ConcludeBatch
    <3>1. /\ pc' = "ended" /\ combined' = combined
          /\ exit' = IF results # <<>> THEN 0 ELSE 1
          /\ (pc = "next" /\ ~ request.output) \/ pc = "conclude"
      BY <2>11 DEF ConcludeBatch, AllTried, Exit, batch
    <3>2. Combined'
      BY <3>1 DEF Combined
    <3>3. exit' = 0 => results # <<>>
      BY <3>1
    <3>4. request.output => combined = [state |-> "whole", of |-> results]
      BY <1>3, <3>1 DEF Combined
    <3>5. combined.state # "torn"
      BY <1>3, <3>1 DEF Combined
    <3>6. GreenBatch'
      BY <1>2, <1>3, <2>1, <2>2, <2>3, <2>4, <3>1, <3>3, <3>4, <3>5 DEF GreenBatch, Order, Wants
    <3> QED
      BY <1>2, <2>1, <2>5, <2>6, <2>7, <2>8, <3>2, <3>6 DEF Accounts
  <2> QED
    BY <1>10, <2>9, <2>10, <2>11
<1> QED
    BY <1>4, <1>5, <1>7, <1>8, <1>9, <1>10 DEF BatchStep

LEMMA AccountsStep == Control /\ Sources /\ Accounts /\ [BatchNext]_AllVars => Accounts'
<1> SUFFICES ASSUME Control, Sources, Accounts, [BatchNext]_AllVars PROVE Accounts'
    OBVIOUS
<1>1. CASE IsBatch /\ BatchStep
    BY <1>1, BatchStepAccounts
<1>2. ASSUME UNCHANGED <<request, config, batch>>
      PROVE  /\ IsBatch' = IsBatch /\ Targets' = Targets /\ Ended' = Ended
             /\ \A i : Wants(i)' = Wants(i) /\ Destination(i)' = Destination(i)
    BY <1>2 DEF batch, IsBatch, Targets, Ended, Wants, TargetConfig, Reports, Flagged, Destination
<1>3. ASSUME UNCHANGED <<request, config, batch>>,
             pc' = "ended" /\ ((pc = "start" /\ exit' = 3) \/ (pc # "ended" /\ exit' = 130))
      PROVE  Accounts'
  <2> SUFFICES ASSUME IsBatch
               PROVE  Place' /\ Order' /\ Covered' /\ Stored' /\ Combined' /\ GreenBatch'
    BY <1>2, <1>3 DEF Accounts
  <2>1. Place /\ Order /\ Covered /\ Stored /\ Combined /\ GreenBatch
    BY DEF Accounts
  <2>2. Place' /\ Order' /\ Covered' /\ Stored' /\ Combined'
    BY <1>2, <1>3, <2>1 DEF Place, Order, Covered, Stored, Combined, batch
  <2>3. GreenBatch'
    BY <1>2, <1>3, <2>1 DEF GreenBatch, Combined, batch
  <2> QED
    BY <2>2, <2>3
<1>4. CASE (FileUnreadable \/ Interrupt) /\ UNCHANGED batch
  <2>1. UNCHANGED <<request, config>> /\ pc' = "ended"
    BY <1>4 DEF FileUnreadable, Interrupt, Exit, input
  <2>2. (pc = "start" /\ exit' = 3) \/ (pc # "ended" /\ exit' = 130)
    BY <1>4 DEF FileUnreadable, Interrupt, Exit, Control
  <2> QED
    BY <1>3, <1>4, <2>1, <2>2
<1>5. CASE UNCHANGED AllVars
  <2>1. UNCHANGED <<request, config, batch, pc, exit>>
    BY <1>5 DEF AllVars, vars, input
  <2>2. CASE ~ IsBatch
    BY <1>2, <2>1, <2>2 DEF Accounts
  <2>3. CASE IsBatch
    <3>1. Place' /\ Order' /\ Covered' /\ Stored' /\ Combined'
      BY <1>2, <2>1, <2>3 DEF Accounts, Place, Order, Covered, Stored, Combined, batch
    <3>2. GreenBatch'
      BY <1>2, <2>1, <2>3 DEF Accounts, GreenBatch, Running, batch
    <3> QED
      BY <1>2, <2>1, <2>3, <3>1, <3>2 DEF Accounts
  <2> QED
    BY <2>2, <2>3
<1>6. CASE ~ IsBatch /\ UNCHANGED batch
  <2>1. request' = request => Accounts'
    BY <1>6 DEF Accounts, IsBatch
  <2> QED
    BY <1>1, <1>4, <1>5, <1>6, <2>1, Steps DEF input, Refusals, UsageError, NotANumber, Invalid,
       Unsafe, ResolveFails, Configure, Resolve, EndpointFails, EndpointOpens, ProbeAnswered,
       ProbeSilent, EndWarmup, Report, Measuring, Coroutine, Pace, Timeout, Answer, Pass, Concluding,
       WriteMetrics, WriteFails, EvaluateSla, SlaUnreadable, PdfFails, Conclude, Compare
<1> QED
    BY <1>1, <1>4, <1>5, <1>6, Steps

-----------------------------------------------------------------------------
(* Why the commands end with the code of a wrong configuration *)

\* The options that validate_test_config looks at.
Checked == Outputs \union {"port"}

Wrong(layer, k) == k \in DOMAIN layer /\ layer[k] \in {"outside", "text", "misnamed"}

LEMMA WrongOver ==
    ASSUME NEW f, NEW g, NEW k, Wrong(f ++ g, k)
    PROVE  Wrong(f, k) \/ Wrong(g, k)
BY DEF Wrong, ++

(* The flag takes no part in what is wrong with a section. *)
LEMMA WrongFlagged ==
    ASSUME NEW r, NEW f, NEW g, NEW k \in Checked, Wrong(Flagged(r, f) ++ g, k)
    PROVE  Wrong(f ++ g, k)
<1> DEFINE flag == [authorized_target |-> TRUE]
<1>1. CASE "authorized_target" \notin DOMAIN r.cli
    BY <1>1 DEF Flagged
<1>2. CASE "authorized_target" \in DOMAIN r.cli
  <2>1. Flagged(r, f) = flag ++ f
    BY <1>2 DEF Flagged
  <2>2. DOMAIN flag = {"authorized_target"}
    OBVIOUS
  <2>3. k # "authorized_target"
    BY DEF Checked, Outputs
  <2> QED
    BY <2>1, <2>2, <2>3 DEF Wrong, ++
<1> QED
    BY <1>1, <1>2

LEMMA BuiltinRight == ASSUME NEW k \in Checked PROVE ~ Wrong(Builtin, k)
<1>1. Builtin[k] = "good" \/ Builtin[k] = "none"
    BY DEF Checked, Outputs, Builtin
<1> QED
    BY <1>1 DEF Wrong

LEMMA WrongTarget ==
    ASSUME NEW r, NEW i, NEW k \in Checked, Wrong(TargetConfig(r, i), k)
    PROVE  \/ Wrong(r.targets[i], k)
           \/ Wrong(r.shared_test ++ r.shared_defaults, k)
           \/ Wrong(r.test ++ r.defaults, k)
<1>1. ~ Wrong(Builtin, k)
    BY BuiltinRight
<1>2. ~ Wrong(Reports(r), k)
    BY DEF Wrong, Reports
<1> QED
    BY <1>1, <1>2, WrongOver, WrongFlagged DEF TargetConfig

LEMMA WrongTest ==
    ASSUME NEW r, NEW k \in Checked, Wrong(Configured(r), k)
    PROVE  Wrong(r.cli, k) \/ Wrong(r.test ++ r.defaults, k)
<1>1. ~ Wrong(Builtin, k)
    BY BuiltinRight
<1> QED
    BY <1>1, WrongOver DEF Configured, Section

(* What is refused at run time is the port, or an output. *)
LEMMA ValidWhenNothingWrong ==
    ASSUME NEW c, Complete(c)
    PROVE  Valid(c) <=> \A k \in Checked : ~ Wrong(c, k)
<1>1. c.port \in {"good", "outside", "text"} /\ "port" \in DOMAIN c
  <2>1. Values("port") = {"good", "outside", "text"} /\ "port" \in DOMAIN Builtin
    BY DEF Values, Outputs, Builtin
  <2> QED
    BY <2>1 DEF Complete, IsLayer
<1>2. \A k \in Outputs : k \in DOMAIN c /\ c[k] \in {"none", "file", "misnamed"}
  <2>1. \A k \in Outputs : Values(k) = {"none", "file", "misnamed"} /\ k \in DOMAIN Builtin
    BY DEF Values, Outputs, Builtin
  <2> QED
    BY <2>1 DEF Complete, IsLayer
<1> QED
    BY <1>1, <1>2 DEF Valid, Wrong, Checked

(* What validate-config says of two sections, of what is merged of them. *)
LEMMA ValidatedSections ==
    ASSUME NEW readable, NEW test, NEW defaults, NEW targets,
           IsLayer(test), IsLayer(defaults), Validated(readable, test, defaults, targets)
    PROVE  /\ readable
           /\ \A k \in Checked : ~ Wrong(test ++ defaults, k)
           /\ \A i \in DOMAIN targets : ~ Wrong(targets[i], "port")
<1> DEFINE c == test ++ defaults ++ Builtin
<1>1. Complete(c)
  <2>1. IsLayer(test ++ defaults) /\ IsLayer(c)
    BY LayerOver, BuiltinLayer
  <2> QED
    BY <2>1 DEF Complete, IsLayer, ++
<1>2. \A k \in Checked : ~ Wrong(c, k)
    BY <1>1, ValidWhenNothingWrong DEF Validated
<1>3. \A k : Wrong(test ++ defaults, k) => Wrong(c, k)
    BY DEF Wrong, ++
<1>4. \A i \in DOMAIN targets : ~ Wrong(targets[i], "port")
    BY DEF Validated, Wrong
<1> QED
    BY <1>2, <1>3, <1>4 DEF Validated

(* A batch that a target stops has its configuration. *)
Stopped == at \in Targets /\ config = TargetConfig(request, at) /\ ~ Valid(config)

Refused ==
    \/ ~ request.readable
    \/ IsBatch /\ (~ request.targets_readable \/ request.targets = <<>> \/ Stopped)
    \/ ~ IsBatch /\ (~ Valid(config) \/ config.sla_path = "broken")

Explained == exit = 3 => pc = "ended" /\ Refused

LEMMA ExplainedStep == Control /\ Sources /\ Explained /\ [BatchNext]_AllVars => Explained'
<1> SUFFICES ASSUME Control, Sources, Explained, [BatchNext]_AllVars PROVE Explained'
    OBVIOUS
<1> USE DEF Explained, Refused, IsBatch, input, single, batch, Exit
<1>1. CASE IsBatch /\ BatchStep
  <2>1. CASE Prepare
    <3>1. pc # "ended" /\ exit = -1 /\ at \in Targets /\ config' = TargetConfig(request, at)
      BY <2>1 DEF Prepare, Control, Running
    <3>2. UNCHANGED <<request, at>> /\ Targets' = Targets /\ IsBatch'
      BY <1>1, <2>1 DEF Prepare, Targets
    <3>3. TargetConfig(request, at)' = TargetConfig(request, at)
      BY <3>2 DEF TargetConfig, Reports, Flagged
    <3>4. exit' = 3 => pc' = "ended" /\ ~ Valid(config')
      BY <2>1, <3>1 DEF Prepare
    <3>5. exit' = 3 => Stopped'
      BY <3>1, <3>2, <3>3, <3>4 DEF Stopped, Valid
    <3> QED
      BY <3>2, <3>4, <3>5
  <2>2. CASE LoadTargets
    BY <1>1, <2>2 DEF LoadTargets, Control, Running
  <2>3. CASE OutputFails \/ ConcludeBatch
    BY <2>3 DEF OutputFails, ConcludeBatch
  <2>4. CASE Skip \/ StartTarget \/ TargetEnds \/ SaveTarget \/ ReportTarget \/ OpenOutput \/ Dump
    <3>1. exit' = exit /\ pc # "ended"
      BY <2>4, <1>1 DEF BatchStep, LoadTargets, Prepare, RefuseTarget, TargetFails, SaveFails,
         ReportFails, OutputFails, ConcludeBatch, Skip, StartTarget, TargetEnds, SaveTarget,
         ReportTarget, OpenOutput, Dump, AllTried
    <3> QED
      BY <3>1
  <2> QED
    BY <1>1, <2>1, <2>2, <2>3, <2>4 DEF BatchStep, RefuseTarget, TargetFails, SaveFails, ReportFails
<1>2. CASE FileUnreadable \/ Interrupt
    BY <1>2 DEF FileUnreadable, Interrupt
<1>3. CASE UNCHANGED AllVars \/ (Compare /\ UNCHANGED batch)
  <2>1. UNCHANGED <<request, config, at, pc, exit>>
    BY <1>3 DEF AllVars, vars, Compare
  <2>2. Stopped' = Stopped
    BY <2>1 DEF Stopped, Targets, TargetConfig, Reports, Flagged, Valid
  <2>3. Valid(config)' = Valid(config)
    BY <2>1 DEF Valid
  <2> QED
    BY <2>1, <2>2, <2>3
<1>4. CASE ~ IsBatch /\ Refusals
    BY <1>4 DEF Refusals, UsageError, NotANumber, Invalid, Unsafe, ResolveFails
<1>5. CASE ~ IsBatch /\ (Configure \/ Resolve \/ EndpointOpens \/ ProbeAnswered \/ EndWarmup \/ Report)
    BY <1>5 DEF Configure, Resolve, EndpointOpens, ProbeAnswered, EndWarmup, Report
<1>6. CASE ~ IsBatch /\ (EndpointFails \/ ProbeSilent)
    BY <1>6 DEF EndpointFails, ProbeSilent, NextAddress
<1>7. CASE Measuring \/ Pass
    BY <1>7 DEF Measuring, Coroutine, Pace, Timeout, Answer, Pass
<1>8. CASE ~ IsBatch /\ Concluding
  <2>1. Verdict \in {0, 1, 2}
    BY DEF Verdict
  <2>2. CASE SlaUnreadable
    BY <1>8, <2>2 DEF SlaUnreadable
  <2>3. CASE Concluding /\ ~ SlaUnreadable
    BY <2>1, <2>3 DEF Concluding, WriteMetrics, WriteFails, EvaluateSla, PdfFails, Conclude
  <2> QED
    BY <1>8, <2>2, <2>3
<1> QED
    BY <1>1, <1>2, <1>3, <1>4, <1>5, <1>6, <1>7, <1>8, Steps

-----------------------------------------------------------------------------

Inductive == Control /\ Sources /\ Opened /\ Reached /\ Accounts /\ Explained

LEMMA InitInductive == BatchInit => Inductive /\ IInv
<1> SUFFICES ASSUME BatchInit PROVE Inductive /\ IInv
    OBVIOUS
<1> USE DEF BatchInit, Init
<1>1. Control
    BY DEF Control, TestStages, BatchStages, Running
<1>2. Sources
    BY DEF Sources
<1>3. Opened /\ Reached /\ Explained
    BY DEF Opened, Reached, Explained
<1>4. ASSUME IsBatch PROVE Place /\ Order /\ Covered /\ Stored /\ Combined /\ GreenBatch
  <2>1. Len(request.targets) \in Nat /\ Targets = 1 .. Len(request.targets)
    BY <1>1, <1>4, TargetsCounted
  <2>2. Ended = {}
    BY DEF Ended
  <2>3. Place
    BY <2>1 DEF Place
  <2>4. Order
    BY <2>1 DEF Order
  <2>5. Covered
    BY <2>1 DEF Covered
  <2>6. written = [d \in 0 .. Len(request.targets) |-> 0]
    BY <1>4
  <2>7. Stored
    BY <2>1, <2>2, <2>6 DEF Stored
  <2>8. Combined
    BY DEF Combined
  <2>9. GreenBatch
    BY <2>6 DEF GreenBatch, Running
  <2> QED
    BY <2>3, <2>4, <2>5, <2>7, <2>8, <2>9
<1>5. 0 \in Intervals
    BY RequestsAssumption
<1>6. BucketInit
    BY <1>5 DEF BucketInit
<1>7. BucketInit => IInv
    BY InitIInv
<1> QED
    BY <1>1, <1>2, <1>3, <1>4, <1>6, <1>7 DEF Inductive, Accounts

LEMMA InductiveStep == Inductive /\ IInv /\ [BatchNext]_AllVars => Inductive' /\ IInv'
BY ControlStep, SourcesStep, OpenedStep, ReachedStep, AccountsStep, ExplainedStep,
   LimiterStep DEF Inductive

(* The invariant of both commands, with that of the limiter, holds throughout. *)
THEOREM BatchInductive == BatchSpec => [](Inductive /\ IInv)
<1>1. BatchInit => Inductive /\ IInv
    BY InitInductive
<1>2. Inductive /\ IInv /\ [BatchNext]_<<vars, batch>> => Inductive' /\ IInv'
    BY InductiveStep DEF AllVars
<1> QED
    BY <1>1, <1>2, PTL DEF BatchSpec

(* Whichever of its addresses a host answers at, run_test holds no endpoint
   but that of the address it tries or has chosen, and none when the command
   has ended, except that of a probe that was interrupted. *)
THEOREM EndpointsClosed == BatchSpec => []EndpointsAccountedFor
<1>1. Inductive => EndpointsAccountedFor
  <2> SUFFICES ASSUME Inductive PROVE EndpointsAccountedFor
    OBVIOUS
  <2>1. Control /\ Opened
    BY DEF Inductive
  <2>2. open # {} /\ config.host = "public" =>
            \E layer \in {request.cli, request.test, request.defaults} :
                "authorized_target" \in DOMAIN layer /\ layer.authorized_target
    BY <2>1, TestPermitted DEF Control, Opened
  <2> QED
    BY <2>1, <2>2 DEF Opened, Control, EndpointsAccountedFor
<1> QED
    BY <1>1, BatchInductive, PTL

(* However the sections of two files, the entry of a target and the flag are
   merged, no target is reached that none of those asked permits. *)
THEOREM TargetsPermitted == BatchSpec => []TargetsAuthorized
<1>1. Inductive => TargetsAuthorized
  <2> SUFFICES ASSUME Inductive PROVE TargetsAuthorized
    OBVIOUS
  <2>1. ASSUME NEW i \in reached
        PROVE  request \in Requests /\ IsBatch /\ i \in Targets /\ Safe(TargetConfig(request, i))
    BY DEF Inductive, Control, Reached
  <2> QED
    BY <2>1, TargetPermitted DEF TargetsAuthorized, IsBatch, Targets
<1> QED
    BY <1>1, BatchInductive, PTL

(* The exit code and the files of a batch account for every target of it,
   whichever of them fail and at which step. *)
THEOREM GreenBatches == BatchSpec => [](IsBatch => GreenBatch)
<1>1. Inductive => (IsBatch => GreenBatch)
    BY DEF Inductive, Accounts
<1> QED
    BY <1>1, BatchInductive, PTL

(* The limiter that execute_test makes of its configuration holds the rate in
   every run, from any number of coroutines and whatever they retry. *)
THEOREM RateHeldInRun == BatchSpec => []RateHeld
<1>1. IInv => RateHeld
    BY DEF IInv
<1> QED
    BY <1>1, BatchInductive, PTL

(* Of files that validate-config accepts, no number and no section is refused
   later, however they are merged: test ends as on a wrong configuration only
   for its SLA file, batch only at a target whose entry misnames an output. *)
THEOREM ValidationSuffices == BatchSpec => []ValidatedFilesRun
<1>1. Inductive => ValidatedFilesRun
  <2> SUFFICES ASSUME Inductive, FilesValidated
               PROVE  /\ config.port = "good"
                      /\ exit = 3 =>
                            IF IsBatch THEN \E k \in Outputs \intersect DOMAIN request.targets[at] :
                                               request.targets[at][k] = "misnamed"
                            ELSE config.sla_path = "broken"
    BY DEF ValidatedFilesRun
  <2>1. request \in Requests /\ Complete(config)
    BY ConfigComplete DEF Inductive, Control
  <2>2. IsLayer(request.test) /\ IsLayer(request.defaults)
    BY <2>1, RequestsAssumption
  <2>3. request.readable /\ \A k \in Checked : ~ Wrong(request.test ++ request.defaults, k)
    BY <2>2, ValidatedSections DEF FilesValidated
  <2>4. CASE ~ IsBatch
    <3>1. \A k \in Checked : ~ Wrong(request.cli, k)
      BY <2>4 DEF FilesValidated, Wrong, Checked
    <3>2. \A k \in Checked : ~ Wrong(Configured(request), k)
      BY <2>3, <3>1, WrongTest
    <3>3. Valid(Configured(request))
      BY <2>1, <3>2, ConfiguredComplete, ValidWhenNothingWrong
    <3>4. Valid(Builtin)
      BY DEF Valid, Builtin, Outputs
    <3>5. Valid(config)
      BY <2>4, <3>3, <3>4 DEF Inductive, Sources
    <3> QED
      BY <2>3, <2>4, <3>5 DEF Inductive, Explained, Refused, Valid
  <2>5. CASE IsBatch
    <3>1. IsLayer(request.shared_test) /\ IsLayer(request.shared_defaults)
      BY <2>1, <2>5, BatchAssumption DEF IsBatch
    <3>2. /\ request.targets_readable /\ request.targets # <<>>
          /\ \A k \in Checked : ~ Wrong(request.shared_test ++ request.shared_defaults, k)
          /\ \A i \in Targets : ~ Wrong(request.targets[i], "port")
      BY <2>5, <3>1, ValidatedSections DEF FilesValidated, Targets
    <3>3. \A i \in Targets : \A k \in Checked :
              Wrong(TargetConfig(request, i), k) => Wrong(request.targets[i], k)
      BY <2>3, <3>2, WrongTarget
    <3>4. \A i \in Targets : ~ Wrong(TargetConfig(request, i), "port")
      BY <3>2, <3>3 DEF Checked
    <3>5. ~ Wrong(Builtin, "port")
      BY BuiltinRight DEF Checked
    <3>6. ~ Wrong(config, "port")
      BY <2>5, <3>4, <3>5 DEF Inductive, Sources
    <3>7. config.port = "good"
      <4>1. Values("port") = {"good", "outside", "text"} /\ "port" \in DOMAIN Builtin
        BY DEF Values, Outputs, Builtin
      <4> QED
        BY <2>1, <3>6, <4>1 DEF Wrong, Complete, IsLayer
    <3>8. ASSUME exit = 3
          PROVE  \E k \in Outputs \intersect DOMAIN request.targets[at] :
                     request.targets[at][k] = "misnamed"
      <4>1. Stopped
        BY <2>3, <2>5, <3>2, <3>8 DEF Inductive, Explained, Refused
      <4>2. PICK k \in Outputs : Wrong(config, k)
        BY <2>1, <3>6, <4>1, ValidWhenNothingWrong DEF Stopped, Checked
      <4>3. Wrong(request.targets[at], k)
        BY <3>3, <4>1, <4>2 DEF Stopped, Checked
      <4>4. request.targets[at][k] \in {"none", "file", "misnamed"}
        BY <2>1, <2>5, <4>1, <4>2, <4>3, BatchAssumption
           DEF Stopped, Targets, IsBatch, IsLayer, Wrong, Values, Outputs
      <4> QED
        BY <4>2, <4>3, <4>4 DEF Wrong
    <3> QED
      BY <2>5, <3>7, <3>8
  <2> QED
    BY <2>4, <2>5
<1> QED
    BY <1>1, BatchInductive, PTL

(* What BatchCommand adds leaves test as it is (cli.py:394-411): a command that is
   not batch behaves as TestCommand says, so that the batch specification, which
   the runs and the theorems are about, says no less of test than that module. *)
THEOREM TestUnchanged == BatchSpec /\ ~ IsBatch => Init /\ [][Next]_vars
<1>1. BatchInit => Init
    BY DEF BatchInit
<1>2. ASSUME ~ IsBatch, [BatchNext]_<<vars, batch>> PROVE [Next]_vars
  <2>1. CASE Common
    BY <2>1 DEF Common, Next, Command
  <2>2. CASE BatchStep \/ BatchOver
    BY <1>2, <2>2 DEF BatchStep, BatchOver
  <2>3. CASE \/ Test(Command) \/ Test(Pass) \/ Test(Compare) \/ Test(Terminated)
             \/ \E s \in Callers : Test(Coroutine(s))
    BY <2>3 DEF Test, Next
  <2>4. CASE UNCHANGED <<vars, batch>>
    BY <2>4
  <2> QED
    BY <1>2, <2>1, <2>2, <2>3, <2>4 DEF BatchNext
<1>3. Control /\ ~ IsBatch /\ [BatchNext]_<<vars, batch>> => ~ IsBatch'
  <2> SUFFICES ASSUME ~ IsBatch, [BatchNext]_<<vars, batch>> PROVE request' = request
    BY DEF IsBatch
  <2> QED
    BY Steps DEF BatchStep, FileUnreadable, Interrupt, Refusals, UsageError, NotANumber, Invalid,
       Unsafe, ResolveFails, Configure, Resolve, EndpointFails, EndpointOpens, ProbeAnswered,
       ProbeSilent, EndWarmup, Report, Measuring, Coroutine, Pace, Timeout, Answer, Pass, Concluding,
       WriteMetrics, WriteFails, EvaluateSla, SlaUnreadable, PdfFails, Conclude, Compare, AllVars,
       vars, input
<1>4. BatchSpec => []Control
    BY BatchInductive, PTL DEF Inductive
<1> QED
    BY <1>1, <1>2, <1>3, <1>4, PTL DEF BatchSpec
==============================================================================
