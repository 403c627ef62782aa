----------------------------- MODULE TargetBoard ------------------------------
(***************************************************************************)
(* What the monitor shows of its targets: a board with one entry per       *)
(* configured target.  Between rounds the set of targets may change;       *)
(* targets that stay keep their entry, new ones start untested and removed *)
(* ones leave nothing behind.  A round gives every target on the board one *)
(* new verdict, all at once, and may save the board.  How the targets file *)
(* is noticed, read and refused, and how a round is carried out, does not  *)
(* show.  MonitorLoop implements it.                                       *)
(***************************************************************************)
CONSTANT Labels

VARIABLES
    board,  \* a function on the configured labels
    saved,  \* the labels on the board when it was last saved
    over    \* the monitor has ended

Empty == [l \in {} |-> l]
Untested == [latest |-> "none", failing |-> FALSE]

BoardInit == board = Empty /\ saved = {} /\ over = FALSE

Configure ==
    /\ ~ over
    /\ \E T \in SUBSET Labels :
          board' = [l \in T |-> IF l \in DOMAIN board THEN board[l] ELSE Untested]
    /\ UNCHANGED <<saved, over>>

\* A failed test leaves the latest result in place.
Entry(l, verdict) ==
    IF verdict = "failed" THEN [board[l] EXCEPT !.failing = TRUE]
    ELSE [latest |-> verdict, failing |-> FALSE]

Round ==
    /\ ~ over
    /\ \E verdict \in [DOMAIN board -> {"failed", "lossy", "good"}] :
          board' = [l \in DOMAIN board |-> Entry(l, verdict[l])]
    /\ saved' \in {saved, DOMAIN board}
    /\ UNCHANGED over

End == ~ over /\ over' = TRUE /\ UNCHANGED <<board, saved>>

BoardNext == Configure \/ Round \/ End

BoardSpec == BoardInit /\ [][BoardNext]_<<board, saved, over>>
===============================================================================
