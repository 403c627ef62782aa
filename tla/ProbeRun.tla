------------------------------- MODULE ProbeRun -------------------------------
(***************************************************************************)
(* What a measurement promises, without packets, retries, timers or        *)
(* protocol state: every probe gets one verdict, at most Concurrency of    *)
(* them are open at a time, and a run that reports has judged them all.    *)
(* BlitzClient implements it.                                              *)
(***************************************************************************)
EXTENDS Integers, FiniteSets

CONSTANTS Probes, Concurrency

VARIABLES
    status,  \* per probe: todo, open, or its verdict
    stage    \* running, stopping (cancelled), reported or aborted

probeVars == <<status, stage>>

ProbeInit ==
    /\ status = [p \in Probes |-> "todo"]
    /\ stage = "running"

Become(p, verdict) ==
    /\ status' = [status EXCEPT ![p] = verdict]
    /\ UNCHANGED stage

OpenProbe(p) ==
    /\ stage = "running"
    /\ status[p] = "todo"
    /\ Cardinality({q \in Probes : status[q] = "open"}) < Concurrency
    /\ Become(p, "open")

Receive(p) == stage \in {"running", "stopping"} /\ status[p] = "open" /\ Become(p, "received")

GiveUp(p) == stage = "running" /\ status[p] = "open" /\ Become(p, "lost")

Drop(p) == stage = "stopping" /\ status[p] \in {"todo", "open"} /\ Become(p, "dropped")

Stop == stage = "running" /\ stage' = "stopping" /\ UNCHANGED status

ReportAll ==
    /\ stage = "running"
    /\ \A p \in Probes : status[p] \in {"received", "lost"}
    /\ stage' = "reported"
    /\ UNCHANGED status

AbortAll ==
    /\ stage = "stopping"
    /\ \A p \in Probes : status[p] # "open"
    /\ stage' = "aborted"
    /\ UNCHANGED status

Verdict(p) == Receive(p) \/ GiveUp(p) \/ Drop(p)

ProbeNext ==
    \/ \E p \in Probes : OpenProbe(p) \/ Verdict(p)
    \/ Stop \/ ReportAll \/ AbortAll

\* Everything but the cancellation keeps happening while it can.
Progress ==
    \/ \E p \in Probes : OpenProbe(p) \/ Verdict(p)
    \/ ReportAll \/ AbortAll

ProbeSafety == ProbeInit /\ [][ProbeNext]_probeVars

ProbeSpec == ProbeSafety /\ WF_probeVars(Progress)
===============================================================================
