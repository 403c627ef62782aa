---------------------------- MODULE MCTestCommand -----------------------------
(* A small instance of TestCommand and BatchCommand for TLC. *)
EXTENDS BatchCommand

None == [k \in {} |-> 0]

Plain ==
    [cli |-> [metrics_output |-> "file"], test |-> [interval |-> 2], defaults |-> None,
     readable |-> TRUE, sla |-> None,
     thresholds |-> [loss_rate |-> 50, p95_us |-> 20, success_rate |-> 20]]

\* Command lines and files that are refused, one of them because the section
\* "test" takes back a permission of "defaults"; no limit for a public host; a
\* gate on the SLA with every other step that may fail; an SLA that is only
\* reported; one that cannot be read.
SmallRequests ==
    {[Plain EXCEPT !.cli = [port |-> "text"]],
     [Plain EXCEPT !.readable = FALSE],
     [Plain EXCEPT !.test = [port |-> "text"]],
     [Plain EXCEPT !.test = [port |-> "outside"], !.cli = [count |-> "excessive"]],
     [Plain EXCEPT !.test = [count |-> "excessive"]],
     [Plain EXCEPT !.cli = None, !.defaults = [pdf_report |-> "misnamed"]],
     [Plain EXCEPT !.cli = [host |-> "public"], !.defaults = [authorized_target |-> TRUE],
                   !.test = [authorized_target |-> FALSE]],
     [Plain EXCEPT !.cli = None, !.test = [host |-> "public"],
                   !.defaults = [authorized_target |-> TRUE]],
     [Plain EXCEPT !.cli = [fail_on_sla |-> TRUE, metrics_output |-> "file", pdf_report |-> "file"],
                   !.test = [interval |-> 2, sla_path |-> "readable"],
                   !.sla = [min_success_rate |-> 50, p95_us |-> 2, p99_us |-> 5]],
     [Plain EXCEPT !.cli = [co_correction |-> FALSE, sla_path |-> "readable"],
                   !.defaults = [metrics_output |-> "file"],
                   !.sla = [max_loss_rate |-> 50, co_p99_us |-> 1]],
     [Plain EXCEPT !.defaults = [sla_path |-> "broken"]]}

\* Batches: the flag against an entry that denies it, with a metrics file that
\* is shared and one that is not; no permission for one of two; a public host from
\* a section of either file, permitted by one of the other and denied by an
\* entry; an entry that stops the batch after the first; a section that is
\* refused although the entries do not use it, an SLA that cannot be read; no
\* targets.
PlainBatch ==
    [targets |-> <<[host |-> "private"]>>, shared_test |-> None, shared_defaults |-> None,
     targets_readable |-> TRUE, output |-> TRUE, pdf_dir |-> FALSE] ++ [Plain EXCEPT !.cli = None]

SmallBatches ==
    {[PlainBatch EXCEPT !.cli = [authorized_target |-> TRUE], !.shared_test = [metrics_output |-> "file"],
         !.targets = <<[host |-> "public", authorized_target |-> FALSE],
                       [host |-> "public"], [host |-> "private"],
                       [host |-> "private", metrics_output |-> "file"]>>],
     [PlainBatch EXCEPT !.targets = <<[host |-> "public"],
                                      [host |-> "public", authorized_target |-> TRUE]>>],
     [PlainBatch EXCEPT !.shared_test = [host |-> "public"], !.defaults = [authorized_target |-> TRUE],
         !.targets = <<[port |-> "good"], [authorized_target |-> FALSE], [host |-> "private"]>>],
     [PlainBatch EXCEPT !.test = [host |-> "public"],
         !.targets = <<[port |-> "good"], [authorized_target |-> TRUE]>>],
     [PlainBatch EXCEPT !.targets = <<[host |-> "private"], [host |-> "private", port |-> "outside"]>>],
     [PlainBatch EXCEPT !.pdf_dir = TRUE, !.shared_test = [metrics_output |-> "file"],
         !.shared_defaults = [metrics_output |-> "misnamed"],
         !.targets = <<[host |-> "private", pdf_report |-> "misnamed"],
                       [host |-> "private", metrics_output |-> "misnamed"]>>],
     [PlainBatch EXCEPT !.shared_defaults = [port |-> "text"], !.output = FALSE],
     [PlainBatch EXCEPT !.defaults = [port |-> "outside", sla_path |-> "broken"], !.pdf_dir = TRUE,
         !.output = FALSE, !.targets = <<[port |-> "good"], [port |-> "good", sla_path |-> "none"]>>],
     [PlainBatch EXCEPT !.readable = FALSE],
     [PlainBatch EXCEPT !.targets_readable = FALSE],
     [PlainBatch EXCEPT !.targets = <<>>]}

AllRequests == SmallRequests \union SmallBatches

\* One of two packets lost, the other quick.
Earlier ==
    {[sent |-> 2, received |-> 1, lost |-> 1, p95_us |-> 1, p99_us |-> 1, co_p99_us |-> 1]}
Absent == [sent |-> 0]
===============================================================================
