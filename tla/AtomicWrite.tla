----------------------------- MODULE AtomicWrite ------------------------------
(***************************************************************************)
(* Replacing a file so that no reader sees a part of it:                   *)
(* _atomic_json_write of neural_blitz/monitor.py, for the state file, and  *)
(* the simpler _atomic_write_text of neural_blitz/metrics.py (and          *)
(* write_comparison_output of compare.py, which does the same), which      *)
(* neither flush to the disk nor try again.  Several writers may replace   *)
(* the same file, and the machine may crash at any moment.                 *)
(*                                                                         *)
(* A document is a number, in the order in which their writes begin; 0 is  *)
(* what the file held before.  The file system is external: a rename is    *)
(* atomic, and what is not flushed may or may not survive a crash, renames *)
(* in their order.                                                         *)
(***************************************************************************)
EXTENDS Integers, FiniteSets

CONSTANTS
    Writers,
    Kinds,      \* the function: "json" or "text"
    Attempts,   \* _ATOMIC_REPLACE_ATTEMPTS
    MaxDocs,    \* bound: writes
    MaxCrashes  \* bound: crashes

ASSUME KindsAssumption == Kinds \subseteq {"json", "text"}
ASSUME AttemptsAssumption == Attempts \in Nat \ {0}
ASSUME DiskBoundsAssumption == MaxDocs \in Nat /\ MaxCrashes \in Nat

Docs == 1 .. MaxDocs

VARIABLES
    kind,      \* which of the two functions the writers call
    pc,        \* per writer: idle, dump, replace, sync
    doc,       \* per writer: its document; also names its temporary file
    tries,     \* per writer: attempt
    next,      \* the number of writes begun
    temps,     \* the temporary files in the directory
    whole,     \* the documents whose file is complete
    flushed,   \* the documents whose complete file has been fsynced
    dest,      \* the document the destination shows
    onDisk,    \* the document it shows on the disk
    renamed,   \* renames since the directory was flushed
    rank,      \* history: when a document was renamed, 0 if never
    acked,     \* history: documents whose write returned after all flushes
    orphans,   \* history: temporary files left by a crash or by an unlink that failed
    escaped,   \* history: temporary files left by an exception nobody caught
    crashes

vars == <<kind, pc, doc, tries, next, temps, whole, flushed, dest, onDisk, renamed,
          rank, acked, orphans, escaped, crashes>>
directory == <<dest, onDisk, renamed, rank>>
content == <<whole, flushed>>
rest == <<kind, crashes>>
left == <<orphans, escaped>>

Init ==
    /\ kind \in Kinds
    /\ pc = [w \in Writers |-> "idle"]
    /\ doc = [w \in Writers |-> 0] /\ tries = [w \in Writers |-> 0]
    /\ next = 0
    /\ temps = {} /\ whole = {} /\ flushed = {}
    /\ dest = 0 /\ onDisk = 0 /\ renamed = {}
    /\ rank = [d \in 0 .. MaxDocs |-> 0]
    /\ acked = {} /\ orphans = {} /\ escaped = {} /\ crashes = 0

-----------------------------------------------------------------------------

\* mkstemp: a name of its own for every write.
Begin(w) ==
    /\ pc[w] = "idle" /\ next < MaxDocs
    /\ next' = next + 1
    /\ doc' = [doc EXCEPT ![w] = next + 1] /\ tries' = [tries EXCEPT ![w] = 0]
    /\ temps' = temps \union {next + 1}
    /\ pc' = [pc EXCEPT ![w] = "dump"]
    /\ UNCHANGED <<content, directory, acked, left, rest>>

FaultyDiscard(w) == pc' = [pc EXCEPT ![w] = "idle"] /\ UNCHANGED <<temps, orphans>>

\* The write fails: the temporary file is unlinked on the way out, unless that
\* fails too, which _atomic_write_text suppresses and the other raises.
Discard(w) ==
    /\ pc' = [pc EXCEPT ![w] = "idle"]
    /\ \/ temps' = temps \ {doc[w]} /\ UNCHANGED orphans
       \/ orphans' = orphans \union {doc[w]} /\ UNCHANGED temps

FaultyFlushed(d) == flushed

\* Only _atomic_json_write calls fsync.
Flushed(d) == IF kind = "json" THEN flushed \union {d} ELSE flushed

Dump(w) ==
    /\ pc[w] = "dump"
    /\ whole' = whole \union {doc[w]}
    /\ flushed' = Flushed(doc[w])
    /\ pc' = [pc EXCEPT ![w] = "replace"]
    /\ UNCHANGED <<doc, tries, next, temps, directory, acked, left, rest>>

\* An error, or in _atomic_json_write an interrupt: finally is for both.
DumpFails(w) ==
    /\ pc[w] = "dump"
    /\ Discard(w)
    /\ UNCHANGED <<doc, tries, next, content, directory, acked, escaped, rest>>

\* _atomic_write_text unlinks for an OSError alone: not for a KeyboardInterrupt,
\* nor for a label with no UTF-8 form in a CSV file.
Escapes(w) ==
    /\ kind = "text" /\ pc[w] \in {"dump", "replace"}
    /\ escaped' = escaped \union {doc[w]}
    /\ pc' = [pc EXCEPT ![w] = "idle"]
    /\ UNCHANGED <<doc, tries, next, temps, content, directory, acked, orphans, rest>>

\* os.replace; _atomic_write_text then returns.
Replace(w) ==
    /\ pc[w] = "replace"
    /\ dest' = doc[w]
    /\ temps' = temps \ {doc[w]}
    /\ renamed' = renamed \union {doc[w]}
    /\ rank' = [rank EXCEPT ![doc[w]] = Cardinality({d \in Docs : rank[d] > 0}) + 1]
    /\ pc' = [pc EXCEPT ![w] = IF kind = "json" THEN "sync" ELSE "idle"]
    /\ UNCHANGED <<doc, tries, next, content, onDisk, acked, left, rest>>

FaultyLastTry(w) == tries[w] = Attempts

LastTry(w) == kind = "text" \/ tries[w] + 1 = Attempts

FaultyTried(w) == [tries EXCEPT ![w] = IF @ = 0 THEN 1 ELSE 0]

Tried(w) == [tries EXCEPT ![w] = @ + 1]

\* PermissionError: somebody has the destination open; sleep and try again.
Denied(w) ==
    /\ pc[w] = "replace" /\ ~ LastTry(w)
    /\ tries' = Tried(w)
    /\ UNCHANGED <<pc, doc, next, temps, content, directory, acked, left, rest>>

\* The last PermissionError, or another error at any attempt.
ReplaceFails(w) ==
    /\ pc[w] = "replace"
    /\ Discard(w)
    /\ UNCHANGED <<doc, tries, next, content, directory, acked, escaped, rest>>

FaultySync(w) ==
    /\ pc[w] = "sync"
    /\ acked' = acked \union {doc[w]}
    /\ pc' = [pc EXCEPT ![w] = "idle"]
    /\ UNCHANGED <<doc, tries, next, temps, content, directory, left, rest>>

\* fsync of the directory: what it shows is on the disk.
Sync(w) ==
    /\ pc[w] = "sync"
    /\ onDisk' = dest /\ renamed' = {}
    /\ acked' = acked \union {doc[w]}
    /\ pc' = [pc EXCEPT ![w] = "idle"]
    /\ UNCHANGED <<doc, tries, next, temps, content, dest, rank, left, rest>>

\* The directory cannot be opened, which is tolerated, or not be flushed, which
\* raises: the destination is replaced all the same.
SyncFails(w) ==
    /\ pc[w] = "sync"
    /\ pc' = [pc EXCEPT ![w] = "idle"]
    /\ UNCHANGED <<doc, tries, next, temps, content, directory, acked, left, rest>>

\* The machine stops and starts again.
Crash ==
    /\ crashes < MaxCrashes /\ crashes' = crashes + 1
    /\ pc' = [w \in Writers |-> "idle"]
    /\ dest' \in {onDisk} \union renamed
    /\ onDisk' = dest' /\ renamed' = {}
    /\ \E lost \in SUBSET (whole \ flushed) : whole' = whole \ lost
    /\ flushed' = flushed \intersect whole'
    /\ temps' \in SUBSET ((temps \union renamed) \ {dest'})
    /\ orphans' = orphans \union temps'
    /\ UNCHANGED <<kind, doc, tries, next, rank, acked, escaped>>

Write(w) ==
    \/ Dump(w) \/ DumpFails(w) \/ Escapes(w)
    \/ Replace(w) \/ Denied(w) \/ ReplaceFails(w)
    \/ Sync(w) \/ SyncFails(w)

Ended == next = MaxDocs /\ (\A w \in Writers : pc[w] = "idle") /\ UNCHANGED vars

Next == (\E w \in Writers : Begin(w) \/ Write(w)) \/ Crash \/ Ended

\* A call of the operating system returns, and a sleep ends.
Spec == Init /\ [][Next]_vars
FairSpec == Spec /\ \A w \in Writers : WF_vars(Write(w))

-----------------------------------------------------------------------------
(* Properties *)

TypeOK ==
    /\ kind \in Kinds
    /\ pc \in [Writers -> {"idle", "dump", "replace", "sync"}]
    /\ doc \in [Writers -> 0 .. next] /\ tries \in [Writers -> 0 .. Attempts - 1]
    /\ next \in 0 .. MaxDocs
    /\ temps \union whole \union flushed \union renamed \union acked \union orphans
          \union escaped \subseteq 1 .. next
    /\ dest \in 0 .. next /\ onDisk \in 0 .. next
    /\ rank \in [0 .. MaxDocs -> 0 .. MaxDocs]
    /\ crashes \in 0 .. MaxCrashes

(* "Durably replace *path* without exposing a partial JSON document"
   (monitor.py:195): however writers interleave, whatever fails and wherever the
   machine stops, the destination shows a complete document.  Without the
   flushes of _atomic_json_write this holds until the machine stops. *)
VisibleWhole == dest # 0 /\ (kind = "json" \/ crashes = 0) => dest \in whole

(* A document whose write returned with the directory flushed is only ever
   replaced by one that was renamed later, also by a crash. *)
AckSurvives == \A d \in acked : rank[dest] >= rank[d]

(* Every temporary file belongs to a write in progress, unless a crash left it,
   the unlink after a failure failed in its turn, or _atomic_write_text was left
   by an exception that is no OSError, which it does not catch. *)
NoTempLeft ==
    \A d \in temps :
        \/ d \in orphans
        \/ kind = "text" /\ d \in escaped
        \/ \E w \in Writers : pc[w] # "idle" /\ doc[w] = d

(* Every write returns or raises: the attempts that are refused are counted, and
   no writer waits for another. *)
WriteEnds == \A w \in Writers : pc[w] # "idle" ~> pc[w] = "idle"
===============================================================================
