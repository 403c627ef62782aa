--------------------------- MODULE AtomicWriteProofs ---------------------------
(***************************************************************************)
(* Proofs about AtomicWrite for any writers, number of attempts, of writes *)
(* and of crashes.  IInv adds to the type which documents the writers own, *)
(* how the renames rank, and what is flushed before it can be shown.       *)
(***************************************************************************)
EXTENDS AtomicWrite, FiniteSetTheorems, TLAPS

Ranked == {d \in Docs : rank[d] > 0}

\* A writer at work has a document of its own, renamed once it is in "sync".
OwnDocuments ==
    /\ \A w \in Writers : pc[w] # "idle" => doc[w] # 0
    /\ \A v, w \in Writers : pc[v] # "idle" /\ pc[w] # "idle" /\ doc[v] = doc[w] => v = w
    /\ \A w \in Writers : pc[w] \in {"dump", "replace"} => rank[doc[w]] = 0
    /\ \A w \in Writers : pc[w] = "sync" => doc[w] \notin temps /\ rank[doc[w]] > 0

\* No rank is above the number of renames; only what was renamed has one.
RanksCount ==
    /\ \A d \in 0 .. MaxDocs : rank[d] <= Cardinality(Ranked)
    /\ \A d \in Docs : d > next => rank[d] = 0
    /\ \A d \in acked \union renamed : rank[d] > 0
    /\ onDisk # 0 => rank[onDisk] > 0
    /\ dest # 0 => rank[dest] > 0

\* The disk shows nothing older than an acknowledged document, the directory
\* nothing older than the disk.
DiskFollows ==
    /\ dest \in {onDisk} \union renamed
    /\ \A d \in renamed : rank[d] >= rank[onDisk]
    /\ \A d \in acked : rank[onDisk] >= rank[d]
    /\ \A w \in Writers : pc[w] = "sync" => rank[dest] >= rank[doc[w]]

\* What may be shown is complete, and with "json" flushed before it is renamed.
FlushedFirst ==
    /\ flushed \subseteq whole
    /\ \A w \in Writers : pc[w] = "replace" =>
          doc[w] \in whole /\ (kind = "json" => doc[w] \in flushed)
    /\ kind = "json" => (renamed \union {onDisk, dest}) \ {0} \subseteq flushed
    /\ crashes = 0 /\ dest # 0 => dest \in whole

IInv == TypeOK /\ OwnDocuments /\ RanksCount /\ DiskFollows /\ FlushedFirst /\ NoTempLeft

-----------------------------------------------------------------------------

\* The next rename outranks every earlier one, and its rank is still in range.
LEMMA FreshRank ==
    ASSUME TypeOK, RanksCount, NEW d \in Docs, rank[d] = 0
    PROVE  /\ Cardinality(Ranked) \in Nat
           /\ Cardinality(Ranked) + 1 \in 1 .. MaxDocs
           /\ \A e \in 0 .. MaxDocs : rank[e] < Cardinality(Ranked) + 1
           /\ Cardinality(Ranked \union {d}) = Cardinality(Ranked) + 1
<1>1. MaxDocs \in Nat
  BY DiskBoundsAssumption
<1>2. IsFiniteSet(Docs) /\ Cardinality(Docs) = MaxDocs
  BY <1>1, FS_Interval DEF Docs
<1>3. Ranked \union {d} \subseteq Docs /\ d \notin Ranked /\ Ranked \subseteq Docs
  BY DEF Ranked
<1>4. IsFiniteSet(Ranked) /\ Cardinality(Ranked) \in Nat
  BY <1>2, <1>3, FS_Subset, FS_CardinalityType
<1>5. Cardinality(Ranked \union {d}) = Cardinality(Ranked) + 1
  BY <1>3, <1>4, FS_AddElement
<1>6. Cardinality(Ranked \union {d}) <= MaxDocs
  BY <1>2, <1>3, FS_Subset
<1>7. \A e \in 0 .. MaxDocs : rank[e] \in Int /\ rank[e] <= Cardinality(Ranked)
  BY DEF TypeOK, RanksCount
<1>8. QED
  BY <1>1, <1>4, <1>5, <1>6, <1>7

LEMMA Bounds ==
    ASSUME TypeOK
    PROVE  /\ next \in Nat /\ MaxDocs \in Nat /\ Docs \subseteq 0 .. MaxDocs
           /\ 0 .. next \subseteq 0 .. MaxDocs /\ 1 .. next \subseteq Docs
           /\ temps \subseteq Docs /\ renamed \subseteq Docs /\ acked \subseteq Docs
           /\ dest \in 0 .. MaxDocs /\ onDisk \in 0 .. MaxDocs
           /\ \A w \in Writers : doc[w] \in 0 .. MaxDocs
           /\ \A d \in 0 .. MaxDocs : rank[d] \in Nat
<1>1. next \in Nat /\ MaxDocs \in Nat /\ next <= MaxDocs
  BY DiskBoundsAssumption DEF TypeOK
<1>2. 0 .. next \subseteq 0 .. MaxDocs /\ 1 .. next \subseteq Docs /\ Docs \subseteq 0 .. MaxDocs
  BY <1>1 DEF Docs
<1>3. temps \subseteq 1 .. next /\ renamed \subseteq 1 .. next /\ acked \subseteq 1 .. next
  BY DEF TypeOK
<1>4. \A d \in 0 .. MaxDocs : rank[d] \in 0 .. MaxDocs
  BY DEF TypeOK
<1>5. dest \in 0 .. next /\ onDisk \in 0 .. next /\ \A w \in Writers : doc[w] \in 0 .. next
  BY DEF TypeOK
<1>6. QED
  BY <1>1, <1>2, <1>3, <1>4, <1>5

-----------------------------------------------------------------------------

LEMMA InitInv == Init => IInv
<1> SUFFICES ASSUME Init PROVE IInv
  OBVIOUS
<1>1. TypeOK
  BY DiskBoundsAssumption, AttemptsAssumption, KindsAssumption DEF Init, TypeOK
<1>2. OwnDocuments /\ DiskFollows /\ FlushedFirst /\ NoTempLeft
  BY DEF Init, OwnDocuments, DiskFollows, FlushedFirst, NoTempLeft
<1>3. RanksCount
  <2>1. Ranked = {}
    BY DEF Init, Ranked, Docs
  <2>2. Cardinality(Ranked) = 0
    BY <2>1, FS_EmptySet
  <2>3. QED
    BY <2>2, DiskBoundsAssumption DEF Init, RanksCount, Docs
<1>4. QED
  BY <1>1, <1>2, <1>3 DEF IInv

LEMMA BeginInv == ASSUME IInv, NEW w \in Writers, Begin(w) PROVE IInv'
<1> USE DiskBoundsAssumption, AttemptsAssumption
<1>a. TypeOK /\ OwnDocuments /\ RanksCount
  BY DEF IInv
<1>b. next \in Nat /\ next < MaxDocs /\ next' = next + 1
  BY <1>a DEF TypeOK, Begin
<1>c. /\ pc' = [pc EXCEPT ![w] = "dump"] /\ doc' = [doc EXCEPT ![w] = next + 1]
      /\ tries' = [tries EXCEPT ![w] = 0] /\ temps' = temps \union {next + 1}
  BY DEF Begin
<1>d. next' \in 0 .. MaxDocs /\ next + 1 \in 0 .. next' /\ next + 1 \in 1 .. next'
  BY <1>b
<1>e. 0 .. next \subseteq 0 .. next' /\ 1 .. next \subseteq 1 .. next'
  BY <1>b
<1>1. TypeOK'
  <2>1. doc' \in [Writers -> 0 .. next']
    BY <1>a, <1>c, <1>d, <1>e DEF TypeOK
  <2>2. tries' \in [Writers -> 0 .. Attempts - 1]
    BY <1>a, <1>c DEF TypeOK
  <2>3. pc' \in [Writers -> {"idle", "dump", "replace", "sync"}]
    BY <1>a, <1>c DEF TypeOK
  <2>4. temps' \subseteq 1 .. next'
    BY <1>a, <1>c, <1>d, <1>e DEF TypeOK
  <2>5. QED
    BY <1>a, <1>d, <1>e, <2>1, <2>2, <2>3, <2>4 DEF TypeOK, Begin, content, directory, left, rest
<1>2. OwnDocuments'
  <2>1. \A v \in Writers : v # w => pc'[v] = pc[v] /\ doc'[v] = doc[v] /\ doc[v] \in 0 .. next
    BY <1>a, <1>c DEF TypeOK
  <2>2. pc'[w] = "dump" /\ doc'[w] = next + 1
    BY <1>a, <1>c DEF TypeOK
  <2>3. rank' = rank /\ rank[next + 1] = 0
    BY <1>a, <1>b DEF RanksCount, Begin, directory, Docs
  <2>4. \A v \in Writers : doc'[v] = next + 1 <=> v = w
    BY <1>b, <2>1, <2>2
  <2>5. \A u, v \in Writers : pc'[u] # "idle" /\ pc'[v] # "idle" /\ doc'[u] = doc'[v] => u = v
    BY <1>a, <2>1, <2>4 DEF OwnDocuments
  <2>6. \A v \in Writers : pc'[v] # "idle" => doc'[v] # 0
    BY <1>a, <1>b, <2>1, <2>2 DEF OwnDocuments
  <2>7. \A v \in Writers : pc'[v] \in {"dump", "replace"} => rank'[doc'[v]] = 0
    BY <1>a, <2>1, <2>2, <2>3 DEF OwnDocuments
  <2>8. \A v \in Writers : pc'[v] = "sync" => doc'[v] \notin temps' /\ rank'[doc'[v]] > 0
    BY <1>a, <1>c, <2>1, <2>2, <2>3, <2>4 DEF OwnDocuments
  <2>9. QED
    BY <2>5, <2>6, <2>7, <2>8 DEF OwnDocuments
<1>3. RanksCount' /\ DiskFollows' /\ FlushedFirst'
  BY DEF IInv, TypeOK, RanksCount, DiskFollows, FlushedFirst, Ranked, Begin, content, directory, left, rest, Docs
<1>4. NoTempLeft'
  BY DEF IInv, TypeOK, NoTempLeft, Begin, left, rest
<1>5. QED
  BY <1>1, <1>2, <1>3, <1>4 DEF IInv

\* An end of a write that renames nothing: the writer is idle, its document
\* may be gone from the directory or left there as one of two histories says.
LEMMA LeaveInv ==
    ASSUME IInv, NEW w \in Writers, pc' = [pc EXCEPT ![w] = "idle"],
           temps' \subseteq temps,
           doc[w] \in temps' => doc[w] \in orphans' \/ (kind = "text" /\ doc[w] \in escaped'),
           orphans \subseteq orphans', orphans' \subseteq orphans \union {doc[w]},
           escaped \subseteq escaped', escaped' \subseteq escaped \union {doc[w]},
           pc[w] # "idle",
           UNCHANGED <<kind, doc, tries, next, whole, flushed, directory, acked, crashes>>
    PROVE  IInv'
<1>1. TypeOK'
  BY DEF IInv, TypeOK, OwnDocuments, directory
<1>2. OwnDocuments' /\ RanksCount' /\ DiskFollows' /\ FlushedFirst'
  BY DEF IInv, TypeOK, OwnDocuments, RanksCount, DiskFollows, FlushedFirst, Ranked, directory
<1>3. NoTempLeft'
  BY DEF IInv, TypeOK, NoTempLeft
<1>4. QED
  BY <1>1, <1>2, <1>3 DEF IInv

LEMMA DumpInv == ASSUME IInv, NEW w \in Writers, Dump(w) PROVE IInv'
<1>0. doc[w] \in 1 .. next
  BY DEF IInv, TypeOK, OwnDocuments, Dump
<1>1. TypeOK'
  BY <1>0 DEF IInv, TypeOK, Dump, Flushed, directory, left, rest
<1>2. OwnDocuments' /\ RanksCount' /\ DiskFollows'
  BY DEF IInv, TypeOK, OwnDocuments, RanksCount, DiskFollows, Ranked, Dump, directory, left, rest
<1>3. FlushedFirst'
  BY DEF IInv, TypeOK, FlushedFirst, Dump, Flushed, directory, left, rest
<1>4. NoTempLeft'
  BY DEF IInv, TypeOK, NoTempLeft, Dump, left, rest
<1>5. QED
  BY <1>1, <1>2, <1>3, <1>4 DEF IInv

LEMMA DeniedInv == ASSUME IInv, NEW w \in Writers, Denied(w) PROVE IInv'
<1>1. TypeOK'
  BY AttemptsAssumption DEF IInv, TypeOK, Denied, LastTry, Tried, content, directory, left, rest
<1>2. OwnDocuments' /\ RanksCount' /\ DiskFollows' /\ FlushedFirst' /\ NoTempLeft'
  BY DEF IInv, OwnDocuments, RanksCount, DiskFollows, FlushedFirst, NoTempLeft, Ranked,
         Denied, content, directory, left, rest
<1>3. QED
  BY <1>1, <1>2 DEF IInv

LEMMA ReplaceInv == ASSUME IInv, NEW w \in Writers, Replace(w) PROVE IInv'
<1> DEFINE n == Cardinality(Ranked) + 1
<1>a. TypeOK /\ OwnDocuments /\ RanksCount /\ DiskFollows /\ FlushedFirst /\ NoTempLeft
  BY DEF IInv
<1>b. pc[w] = "replace" /\ doc[w] \in 1 .. next /\ doc[w] \in Docs /\ rank[doc[w]] = 0
  <2>1. pc[w] = "replace" /\ doc[w] # 0 /\ rank[doc[w]] = 0
    BY <1>a DEF OwnDocuments, Replace
  <2>2. doc[w] \in 1 .. next
    BY <1>a, <2>1 DEF TypeOK
  <2>3. QED
    BY <1>a, <2>1, <2>2, Bounds
<1>c. /\ dest' = doc[w] /\ temps' = temps \ {doc[w]} /\ renamed' = renamed \union {doc[w]}
      /\ rank' = [rank EXCEPT ![doc[w]] = n]
      /\ pc' = [pc EXCEPT ![w] = IF kind = "json" THEN "sync" ELSE "idle"]
      /\ UNCHANGED <<kind, doc, tries, next, whole, flushed, onDisk, acked, orphans, escaped, crashes>>
  BY DEF Replace, Ranked, content, left, rest
<1>d. n \in 1 .. MaxDocs /\ \A e \in 0 .. MaxDocs : rank[e] < n
  BY <1>a, <1>b, FreshRank
<1>e. Cardinality(Ranked') = n
  <2>1. Ranked' = Ranked \union {doc[w]}
    BY <1>a, <1>b, <1>c, <1>d DEF Ranked, TypeOK, Docs
  <2>2. QED
    BY <1>a, <1>b, <2>1, FreshRank
<1>f. /\ rank'[doc[w]] = n
      /\ \A e \in 0 .. MaxDocs : e # doc[w] => rank'[e] = rank[e]
      /\ \A e \in 0 .. MaxDocs : rank'[e] \in Nat /\ rank'[e] <= n /\ rank[e] \in Nat
  <2>1. doc[w] \in 0 .. MaxDocs /\ n \in Nat /\ rank \in [0 .. MaxDocs -> 0 .. MaxDocs]
    <3>1. doc[w] \in 0 .. MaxDocs
      BY <1>a, Bounds
    <3>2. n \in Nat
      <4> HIDE DEF n
      <4> QED  BY <1>d
    <3>3. rank \in [0 .. MaxDocs -> 0 .. MaxDocs]
      BY <1>a DEF TypeOK
    <3>4. QED
      BY <3>1, <3>2, <3>3
  <2>2. rank'[doc[w]] = n /\ \A e \in 0 .. MaxDocs : e # doc[w] => rank'[e] = rank[e]
    BY <1>c, <2>1
  <2>3. ASSUME NEW e \in 0 .. MaxDocs
        PROVE  rank'[e] \in Nat /\ rank'[e] <= n /\ rank[e] \in Nat
    <3>1. rank[e] \in Nat /\ rank[e] < n
      BY <1>a, <1>d, Bounds
    <3>2. QED
      BY <2>1, <2>2, <3>1
  <2>4. QED
    BY <2>2, <2>3
<1>g. {onDisk, dest} \union acked \union renamed \subseteq 0 .. MaxDocs
  BY <1>a, Bounds
<1>h. doc[w] # onDisk /\ doc[w] \notin acked \union renamed
  BY <1>a, <1>b DEF RanksCount, Docs
<1>1. TypeOK'
  <2>1. rank' \in [0 .. MaxDocs -> 0 .. MaxDocs]
    <3>1. n \in 0 .. MaxDocs
      <4> HIDE DEF n
      <4> QED  BY <1>d
    <3>2. rank \in [0 .. MaxDocs -> 0 .. MaxDocs]
      BY <1>a DEF TypeOK
    <3>3. QED
      BY <1>c, <3>1, <3>2
  <2>2. pc' \in [Writers -> {"idle", "dump", "replace", "sync"}]
    BY <1>a, <1>c DEF TypeOK
  <2>3. QED
    BY <1>a, <1>b, <1>c, <2>1, <2>2 DEF TypeOK
<1>2. OwnDocuments'
  <2>1. \A v \in Writers : v # w => pc'[v] = pc[v]
    BY <1>a, <1>c DEF TypeOK
  <2>2. \A v \in Writers : v # w /\ pc[v] # "idle" => doc[v] # doc[w] /\ doc[v] \in 0 .. MaxDocs
    BY <1>a, <1>b, Bounds DEF OwnDocuments
  <2>3. pc'[w] \in {"sync", "idle"}
    BY <1>a, <1>c DEF TypeOK
  <2>4. \A v \in Writers : v # w /\ pc[v] # "idle" => rank'[doc'[v]] = rank[doc[v]]
    BY <1>c, <1>f, <2>2
  <2>5. doc'[w] \notin temps' /\ rank'[doc'[w]] > 0
    BY <1>c, <1>d, <1>f
  <2>6. \A v \in Writers : pc'[v] # "idle" => doc'[v] # 0
    BY <1>a, <1>b, <1>c, <2>1 DEF OwnDocuments
  <2>7. \A u, v \in Writers : pc'[u] # "idle" /\ pc'[v] # "idle" /\ doc'[u] = doc'[v] => u = v
    BY <1>a, <1>b, <1>c, <2>1 DEF OwnDocuments
  <2>8. \A v \in Writers : pc'[v] \in {"dump", "replace"} => rank'[doc'[v]] = 0
    BY <1>a, <2>1, <2>3, <2>4 DEF OwnDocuments
  <2>9. \A v \in Writers : pc'[v] = "sync" => doc'[v] \notin temps' /\ rank'[doc'[v]] > 0
    BY <1>a, <1>c, <2>1, <2>4, <2>5 DEF OwnDocuments
  <2>10. QED
    BY <2>6, <2>7, <2>8, <2>9 DEF OwnDocuments
<1>3. RanksCount'
  <2>1. \A d \in Docs : d > next' => rank'[d] = 0
    BY <1>a, <1>b, <1>c, <1>f DEF RanksCount, TypeOK, Docs
  <2>2. \A d \in acked' \union renamed' : rank'[d] > 0
    BY <1>a, <1>b, <1>c, <1>d, <1>f, <1>g DEF RanksCount, Docs
  <2>3. (onDisk' # 0 => rank'[onDisk'] > 0) /\ rank'[dest'] > 0
    BY <1>a, <1>c, <1>d, <1>f, <1>g, <1>h DEF RanksCount
  <2>4. QED
    BY <1>e, <1>f, <2>1, <2>2, <2>3 DEF RanksCount
<1>4. DiskFollows'
  <2>1. \A d \in renamed' : rank'[d] >= rank'[onDisk']
    BY <1>a, <1>b, <1>c, <1>f, <1>g, <1>h DEF DiskFollows
  <2>2. \A d \in acked' : rank'[onDisk'] >= rank'[d]
    BY <1>a, <1>c, <1>f, <1>g, <1>h DEF DiskFollows
  <2>3. \A v \in Writers : pc'[v] = "sync" => rank'[dest'] >= rank'[doc'[v]]
    <3>1. \A v \in Writers : rank'[doc[v]] \in Nat /\ rank'[doc[v]] <= n
      BY <1>a, <1>f, Bounds
    <3>2. n \in Nat
      BY <1>d
    <3>3. QED
      BY <1>c, <1>f, <3>1, <3>2
  <2>4. QED
    BY <1>c, <2>1, <2>2, <2>3 DEF DiskFollows
<1>5. FlushedFirst'
  BY <1>a, <1>b, <1>c DEF TypeOK, FlushedFirst
<1>6. NoTempLeft'
  BY <1>a, <1>c DEF TypeOK, NoTempLeft
<1>7. QED
  BY <1>1, <1>2, <1>3, <1>4, <1>5, <1>6 DEF IInv

LEMMA SyncInv == ASSUME IInv, NEW w \in Writers, Sync(w) PROVE IInv'
<1>a. TypeOK /\ OwnDocuments /\ RanksCount /\ DiskFollows /\ FlushedFirst /\ NoTempLeft
  BY DEF IInv
<1>b. /\ pc[w] = "sync" /\ doc[w] \in 1 .. next /\ doc[w] \notin temps
      /\ rank[dest] >= rank[doc[w]]
  BY <1>a DEF TypeOK, OwnDocuments, DiskFollows, Sync
<1>c. \A d \in {onDisk, dest, doc[w]} \union acked \union renamed : rank[d] \in Nat
  BY <1>a, Bounds
<1>1. TypeOK'
  BY <1>a, <1>b DEF TypeOK, Sync, content, left, rest
<1>2. OwnDocuments' /\ FlushedFirst'
  BY <1>a DEF TypeOK, OwnDocuments, FlushedFirst, Sync, content, left, rest
<1>3. RanksCount' /\ DiskFollows'
  <2>1. doc[w] # 0 /\ rank[doc[w]] > 0
    BY <1>a, <1>b DEF OwnDocuments
  <2>2. QED
    BY <1>a, <1>b, <1>c, <2>1 DEF TypeOK, RanksCount, DiskFollows, Ranked, Sync, content, left, rest
<1>4. NoTempLeft'
  BY <1>a, <1>b DEF TypeOK, NoTempLeft, Sync, left, rest
<1>5. QED
  BY <1>1, <1>2, <1>3, <1>4 DEF IInv

LEMMA CrashInv == ASSUME IInv, Crash PROVE IInv'
<1>a. TypeOK /\ OwnDocuments /\ RanksCount /\ DiskFollows /\ FlushedFirst /\ NoTempLeft
  BY DEF IInv
<1>b. /\ crashes' = crashes + 1 /\ crashes < MaxCrashes
      /\ pc' = [w \in Writers |-> "idle"] /\ dest' \in {onDisk} \union renamed
      /\ onDisk' = dest' /\ renamed' = {} /\ whole' \subseteq whole /\ flushed \subseteq whole'
      /\ flushed' = flushed \intersect whole' /\ temps' \subseteq temps \union renamed
      /\ orphans' = orphans \union temps' /\ UNCHANGED <<kind, doc, tries, next, rank, acked, escaped>>
  BY <1>a DEF Crash, FlushedFirst
<1>c. \A d \in {onDisk} \union acked \union renamed : rank[d] \in Nat
  BY <1>a, Bounds
<1>1. TypeOK'
  <2>1. crashes' \in 0 .. MaxCrashes
    BY <1>a, <1>b, DiskBoundsAssumption DEF TypeOK
  <2>2. dest' \in 0 .. next'
    BY <1>a, <1>b DEF TypeOK
  <2>3. temps' \union whole' \union flushed' \union renamed' \union acked' \union orphans'
            \union escaped' \subseteq 1 .. next'
    BY <1>a, <1>b DEF TypeOK
  <2>4. pc' \in [Writers -> {"idle", "dump", "replace", "sync"}]
    BY <1>b
  <2>5. QED
    BY <1>a, <1>b, <2>1, <2>2, <2>3, <2>4 DEF TypeOK
<1>d. crashes' # 0
  BY <1>a, <1>b DEF TypeOK
<1>2. OwnDocuments' /\ FlushedFirst' /\ NoTempLeft'
  BY <1>a, <1>b, <1>d DEF TypeOK, OwnDocuments, FlushedFirst, NoTempLeft
<1>3. RanksCount' /\ DiskFollows'
  BY <1>a, <1>b, <1>c DEF RanksCount, DiskFollows, Ranked
<1>4. QED
  BY <1>1, <1>2, <1>3 DEF IInv

-----------------------------------------------------------------------------

LEMMA WriteInv == ASSUME IInv, NEW w \in Writers, Write(w) PROVE IInv'
<1>a. TypeOK /\ OwnDocuments
  BY DEF IInv
<1>1. CASE Dump(w)
  BY <1>1, DumpInv
<1>2. CASE DumpFails(w)
  BY <1>2, LeaveInv DEF DumpFails, Discard, content, left, rest
<1>3. CASE Escapes(w)
  BY <1>3, LeaveInv DEF Escapes, content, left, rest
<1>4. CASE Replace(w)
  BY <1>4, ReplaceInv
<1>5. CASE Denied(w)
  BY <1>5, DeniedInv
<1>6. CASE ReplaceFails(w)
  BY <1>6, LeaveInv DEF ReplaceFails, Discard, content, left, rest
<1>7. CASE Sync(w)
  BY <1>7, SyncInv
<1>8. CASE SyncFails(w)
  <2>1. doc[w] \notin temps
    BY <1>a, <1>8 DEF OwnDocuments, SyncFails
  <2>2. QED
    BY <1>8, <2>1, LeaveInv DEF SyncFails, content, left, rest
<1>9. QED
  BY <1>1, <1>2, <1>3, <1>4, <1>5, <1>6, <1>7, <1>8 DEF Write

LEMMA StutterInv == ASSUME IInv, UNCHANGED vars PROVE IInv'
BY DEF IInv, TypeOK, OwnDocuments, RanksCount, DiskFollows, FlushedFirst, NoTempLeft, Ranked, vars

LEMMA StepInv == IInv /\ [Next]_vars => IInv'
<1> SUFFICES ASSUME IInv, [Next]_vars PROVE IInv'
  OBVIOUS
<1>1. CASE \E w \in Writers : Begin(w) \/ Write(w)
  BY <1>1, BeginInv, WriteInv
<1>2. CASE Crash
  BY <1>2, CrashInv
<1>3. CASE Ended \/ UNCHANGED vars
  BY <1>3, StutterInv DEF Ended
<1>4. QED
  BY <1>1, <1>2, <1>3 DEF Next

(* IInv holds in every reachable state, with any number of writers. *)
THEOREM Invariance == Spec => []IInv
BY InitInv, StepInv, PTL DEF Spec

(* Every variable keeps its type: the number of attempts never exceeds
   _ATOMIC_REPLACE_ATTEMPTS, and a rename is ranked once. *)
THEOREM TypeCorrect == Spec => []TypeOK
BY Invariance, PTL DEF IInv

(* "Durably replace *path* without exposing a partial JSON document"
   (monitor.py:195), for any interleaving of writers, failures and crashes. *)
THEOREM DestinationIsWhole == Spec => []VisibleWhole
<1>1. IInv => VisibleWhole
  BY DEF IInv, FlushedFirst, VisibleWhole
<1>2. QED
  BY <1>1, Invariance, PTL

(* What _atomic_json_write acknowledged after flushing the directory is never
   replaced by an older document, also when the machine stops. *)
THEOREM AcknowledgedSurvives == Spec => []AckSurvives
<1>1. IInv => AckSurvives
  <2> SUFFICES ASSUME IInv, NEW d \in acked PROVE rank[dest] >= rank[d]
    BY DEF AckSurvives
  <2>1. rank[dest] \in Nat /\ rank[onDisk] \in Nat /\ rank[d] \in Nat
    BY Bounds DEF IInv
  <2>2. rank[dest] >= rank[onDisk] /\ rank[onDisk] >= rank[d]
    BY <2>1 DEF IInv, DiskFollows
  <2>3. QED
    BY <2>1, <2>2
<1>2. QED
  BY <1>1, Invariance, PTL

(* A write that returned leaves no temporary file in the directory, and one that
   failed leaves it only if a crash, the failure of its own unlink or, in
   _atomic_write_text, an exception other than OSError ended it: with
   _atomic_json_write, whose finally sees every exception, only the first two. *)
THEOREM DirectoryStaysClean == Spec => []NoTempLeft
BY Invariance, PTL DEF IInv
===============================================================================
