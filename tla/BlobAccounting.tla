--------------------------- MODULE BlobAccounting ---------------------------
(***************************************************************************)
(* How DiffKV, with level_merge, knows what is dead in a blob file.  The   *)
(* base database stores with every SST how many bytes of each blob file it *)
(* refers to; OnFlushCompleted and OnCompactionCompleted turn these        *)
(* numbers into discardable_size_ of the blob files, and a sorted file     *)
(* whose data is all discardable is deleted, without a look at the keys    *)
(* (diffkv/src/db_impl.cc, blob_format.cc, blob_file_size_collector.cc,    *)
(* edit_collector.h).                                                      *)
(*                                                                         *)
(* The base database calls back after it has installed the SSTs, outside   *)
(* its mutex: other flushes and compactions, and their callbacks, may come *)
(* in between.  Sizes count records, all of one size.  One column family,  *)
(* the default one, and no restart, which forgets the discardable sizes.   *)
(* Whether keys make a file overlap others is a nondeterministic choice.   *)
(***************************************************************************)
EXTENDS Integers, FiniteSets, BlobFileState

CONSTANTS
  BlobFile,    \* bound: blob files
  Sst,         \* bound: SSTs that exist or that a callback still reports
  MaxRec,      \* bound: records of a blob file
  Word,        \* uint64_t counts modulo this
  HeaderSize   \* kBlobHeaderSize + kBlobFooterSize

ASSUME AccountingAssumption ==
  /\ IsFiniteSet(Sst)
  /\ MaxRec \in Nat \ {0} /\ HeaderSize \in Nat \ {0}
  /\ Word \in Nat /\ Word > 2 * MaxRec + HeaderSize

VARIABLES
  meta,         \* FileState of each blob file
  sorted,       \* the files of type kSorted
  data,         \* records of each file, 0 for a number not used yet
  discardable,  \* discardable_size_
  unindexed,    \* records of logged files whose index is not written yet
  mem,          \* indexes in the memtable
  ssts,         \* the SSTs of the current version
  prop,         \* the BlobFileSizeCollector property of each SST
  flushed,      \* SSTs whose OnFlushCompleted is outstanding
  compacted,    \* compactions whose OnCompactionCompleted is: <<inputs, outputs>>
  obsolete,     \* obsolete_files_, which PurgeObsoleteFiles will remove
  \* history, read by properties only
  counted,      \* files of which a flush callback has reported something
  disordered,   \* a callback ran before the one that reports its inputs
  ranged        \* files deleted because their keys were in a deleted range

vars == <<meta, sorted, data, discardable, unindexed, mem, ssts, prop, flushed,
          compacted, obsolete, counted, disordered, ranged>>

Count == [BlobFile -> 0..MaxRec]
Zero  == [f \in BlobFile |-> 0]

TypeOK ==
  /\ meta \in [BlobFile -> MetaState]
  /\ sorted \in SUBSET BlobFile
  /\ data \in Count /\ unindexed \in Count /\ mem \in Count
  /\ discardable \in [BlobFile -> 0..(Word - 1)]
  /\ ssts \in SUBSET Sst /\ prop \in [Sst -> Count]
  /\ flushed \in SUBSET Sst
  /\ compacted \in SUBSET ((SUBSET Sst) \X (SUBSET Sst))
  /\ obsolete \in SUBSET BlobFile /\ counted \in SUBSET BlobFile
  /\ disordered \in BOOLEAN /\ ranged \in SUBSET BlobFile

Init ==
  /\ meta = [f \in BlobFile |-> "kAbsent"] /\ sorted = {}
  /\ data = Zero /\ discardable = Zero /\ unindexed = Zero /\ mem = Zero
  /\ ssts = {} /\ prop = [s \in Sst |-> Zero]
  /\ flushed = {} /\ compacted = {} /\ obsolete = {}
  /\ counted = {} /\ disordered = FALSE /\ ranged = {}

-----------------------------------------------------------------------------
\* The sum of h over S, as the size of a disjoint union.
SumOver(h, S) == Cardinality(UNION {{x} \X (1..h[x]) : x \in S})

\* The bytes of f that the SSTs in S refer to.
Referred(f, S) == SumOver([s \in Sst |-> prop[s][f]], S)

\* An SST number that no version and no outstanding callback mentions.
FreeSst(s) ==
  /\ s \notin ssts /\ s \notin flushed
  /\ \A c \in compacted : s \notin c[1] \cup c[2]

\* The next file number, so that files get their numbers in order.
NextFile(f) == data[f] = 0 /\ \A g \in BlobFile : g < f => data[g] > 0

\* A file that files_ holds: FindFile finds it.
Known(f) == meta[f] # "kAbsent"

\* What a TitanTableBuilder puts into a new sorted file: nothing, or some
\* records with the next file number.
Made == {Zero} \cup {[Zero EXCEPT ![f] = n] : f \in {g \in BlobFile : NextFile(g)},
                                             n \in 1..MaxRec}

\* The new file is logged.
NewSorted(made) ==
  LET new == {f \in BlobFile : made[f] > 0} IN
    /\ meta' = [f \in BlobFile |->
                  IF f \in new
                    THEN FileStateTransit("kFlushOrCompactionOutput", "kInit")
                    ELSE meta[f]]
    /\ sorted' = sorted \cup new
    /\ data' = [f \in BlobFile |-> data[f] + made[f]]

\* Mutant: the collector counts a value when the builder separates it and again
\* when its index is added.
PlusTwice(a, b) == [f \in BlobFile |-> a[f] + 2 * b[f]]

\* What BlobFileSizeCollector has after it was given the indexes in a and in b.
Plus(a, b) == [f \in BlobFile |-> a[f] + b[f]]
UpTo(a)    == {b \in Count : \A f \in BlobFile : b[f] <= a[f]}

\* The properties of an SST are forgotten with its last mention.
Forget == prop' = [s \in Sst |-> IF FreeSst(s)' THEN Zero ELSE prop[s]]

-----------------------------------------------------------------------------
(***************************************************************************)
(* Unsorted files: the foreground builder or a GC job logs a file.  Some   *)
(* of its records have their index in the memtable already, others get it  *)
(* later or never (the key was overwritten, the write was rejected).       *)
(***************************************************************************)
FinishUnsorted(f, n, m) ==
  /\ NextFile(f) /\ n > 0 /\ m <= n
  /\ meta' = [meta EXCEPT ![f] = "kNormal"]
  /\ data' = [data EXCEPT ![f] = n]
  /\ mem' = [mem EXCEPT ![f] = m]
  /\ unindexed' = [unindexed EXCEPT ![f] = n - m]
  /\ UNCHANGED <<sorted, discardable, ssts, prop, flushed, compacted,
                 obsolete, counted, disordered, ranged>>

WriteIndex(f, accepted) ==
  /\ unindexed[f] > 0
  /\ unindexed' = [unindexed EXCEPT ![f] = @ - 1]
  /\ mem' = IF accepted THEN [mem EXCEPT ![f] = @ + 1] ELSE mem
  /\ UNCHANGED <<meta, sorted, data, discardable, ssts, prop, flushed,
                 compacted, obsolete, counted, disordered, ranged>>

-----------------------------------------------------------------------------
\* The base database flushes the memtable to SST s.  Indexes that were
\* overwritten are left out, raw values may go to a new sorted file.
Flush(s, kept, made) ==
  /\ FreeSst(s) /\ Plus(kept, made) # Zero
  /\ NewSorted(made)
  /\ prop' = [prop EXCEPT ![s] = Plus(kept, made)]
  /\ ssts' = ssts \cup {s} /\ flushed' = flushed \cup {s}
  /\ mem' = Zero
  /\ UNCHANGED <<discardable, unindexed, compacted, obsolete, counted,
                 disordered, ranged>>

\* Mutant: the first flush is not told from the others.
FlushedDiscardableAlways(f, n) == data[f] - n

\* What OnFlushCompleted adds for a file of which the SST holds n bytes: all the
\* rest when it is the first, minus what has come when it is a later one.
FlushedDiscardable(f, n) ==
  IF discardable[f] = 0 THEN data[f] - n ELSE 0 - n

OnFlushCompleted(s) ==
  /\ s \in flushed
  /\ flushed' = flushed \ {s}
  /\ LET files == {f \in BlobFile : prop[s][f] > 0 /\ Known(f)} IN
       /\ discardable' = [f \in BlobFile |->
            IF f \in files
              THEN (discardable[f] + FlushedDiscardable(f, prop[s][f])) % Word
              ELSE discardable[f]]
       /\ meta' = [f \in BlobFile |->
            IF f \in files THEN FileStateTransit("kFlushCompleted", meta[f])
                           ELSE meta[f]]
       /\ counted' = counted \cup files
  /\ UNCHANGED <<sorted, data, unindexed, mem, ssts, compacted, obsolete,
                 disordered, ranged>>
  /\ Forget

-----------------------------------------------------------------------------
\* The base database compacts the SSTs in ins to s and t: some indexes are
\* dropped, some values move to a new sorted file.  An SST that would be empty
\* is not made.
Compact(ins, s, t, kept, rest, made) ==
  /\ FreeSst(s) /\ FreeSst(t) /\ (s = t <=> rest = Zero)
  /\ NewSorted(made)
  /\ LET outs == (IF Plus(kept, made) = Zero THEN {} ELSE {s})
                   \cup (IF rest = Zero THEN {} ELSE {t}) IN
       /\ prop' = [u \in Sst |-> IF u \notin outs THEN prop[u]
                                 ELSE IF u = s THEN Plus(kept, made) ELSE rest]
       /\ ssts' = (ssts \ ins) \cup outs
       /\ compacted' = compacted \cup {<<ins, outs>>}
  /\ UNCHANGED <<discardable, unindexed, mem, flushed, obsolete, counted,
                 disordered, ranged>>

\* blob_files_size_diff.
SizeDiff(f, c) == Referred(f, c[2]) - Referred(f, c[1])

\* Mutants: header and footer are taken for data; a file that is mostly dead
\* counts as dead.
NoLiveDataWithHeader(f, d) == d = data[f] + HeaderSize
NoLiveDataAlmost(f, d) == d > 0 /\ d >= data[f] - 1

\* BlobFileMeta::NoLiveData for a discardable size of d.
NoLiveData(f, d) == d = data[f]

\* GetDiscardableRatio() > blob_file_discardable_ratio, for a ratio of 1/2.
RatioReached(f, d) == 2 * d > data[f] + HeaderSize

\* LogAndApply of deletions: CFEditCollector::Seal rejects the whole edit when
\* one of the files is gone or obsolete.
Sealable(dead) == \A f \in dead : IsLive(meta[f])

\* OnCompactionCompleted for compaction c; overlapping are the files that
\* MarkFileIfNeedMerge finds in more than max_sorted_runs sorted runs.
OnCompactionCompleted(c, overlapping) ==
  /\ c \in compacted
  /\ compacted' = compacted \ {c}
  /\ disordered' = (\/ disordered \/ c[1] \cap flushed # {}
                    \/ \E d \in compacted : d[2] \cap c[1] # {})
  /\ LET new     == {f \in BlobFile : Referred(f, c[2]) > 0 /\ Referred(f, c[1]) = 0}
         shrunk  == {f \in BlobFile : SizeDiff(f, c) < 0 /\ Known(f)}
         disc    == [f \in BlobFile |->
                       IF f \in shrunk THEN (discardable[f] - SizeDiff(f, c)) % Word
                                       ELSE discardable[f]]
         dead    == {f \in shrunk \cap sorted : NoLiveData(f, disc[f])}
         toGC    == {f \in (shrunk \cap sorted) \ dead : RatioReached(f, disc[f])}
         gone    == IF Sealable(dead) THEN dead ELSE {}
         started == [f \in BlobFile |->
                       IF f \in new
                         THEN FileStateTransit("kCompactionCompleted", meta[f])
                       ELSE meta[f]]
         marked  == [f \in BlobFile |->
                       IF f \in toGC THEN FileStateTransit("kNeedGC", started[f])
                       ELSE IF f \in gone THEN FileStateTransit("kDelete", started[f])
                       ELSE started[f]] IN
       \* a new file is not found: the callback returns, having seen to the new
       \* files with smaller numbers
       IF \E f \in new : ~Known(f)
         THEN /\ meta' = [f \in BlobFile |->
                            IF \A g \in new : g <= f => Known(g) THEN started[f]
                                                                ELSE meta[f]]
              /\ UNCHANGED <<discardable, obsolete>> /\ overlapping = {}
         ELSE /\ overlapping \subseteq
                   {f \in sorted \ dead :
                      Known(f) /\ Referred(f, c[1] \cup c[2]) > 0}
              /\ discardable' = disc
              /\ obsolete' = obsolete \cup gone
              /\ meta' = [f \in BlobFile |->
                            IF f \in overlapping
                              THEN FileStateTransit("kNeedMerge", marked[f])
                              ELSE marked[f]]
  /\ UNCHANGED <<sorted, data, unindexed, mem, ssts, flushed, counted, ranged>>
  /\ Forget

(***************************************************************************)
(* DeleteFilesInRanges.  S are the SSTs in the ranges, byKey the blob      *)
(* files whose keys all are, and read the SSTs whose properties it reads:  *)
(* it looks for overlaps in the level that has the number of the range, so *)
(* that it may skip SSTs which the base database deletes.  The code        *)
(* concedes that its numbers are wrong when a compaction comes between     *)
(* reading the properties and deleting the SSTs; here nothing does.  A     *)
(* file that keeps live data is counted when it is visited and again when  *)
(* the edit's UpdateBlobFile is applied.                                   *)
(***************************************************************************)
DeleteFilesInRanges(S, read, byKey) ==
  /\ read \subseteq S /\ S \subseteq ssts /\ \A f \in byKey : IsLive(meta[f])
  /\ ssts' = ssts \ S
  /\ ranged' = ranged \cup byKey
  /\ LET files   == {f \in BlobFile : Referred(f, read) > 0 /\ Known(f)}
         Add(d)  == [f \in BlobFile |->
                       IF f \in files THEN (d[f] + Referred(f, read)) % Word
                                      ELSE d[f]]
         once    == Add(discardable)
         dead    == {f \in files : NoLiveData(f, once[f])}
         sealed  == \A f \in dead : IsLive(meta[f]) /\ f \notin byKey
         gone    == byKey \cup IF sealed THEN dead ELSE {}
         toGC    == {f \in files \ dead : RatioReached(f, once[f])} IN
       /\ discardable' = [f \in BlobFile |->
            IF sealed /\ f \notin dead THEN Add(once)[f] ELSE once[f]]
       /\ obsolete' = obsolete \cup gone
       /\ meta' = [f \in BlobFile |->
            IF f \in gone THEN "kObsolete"
            ELSE IF f \in toGC THEN FileStateTransit("kNeedGC", meta[f])
            ELSE meta[f]]
  /\ UNCHANGED <<sorted, data, unindexed, mem, flushed, compacted, counted,
                 disordered>>
  /\ Forget

\* PurgeObsoleteFilesImpl, for a file that no snapshot needs.  It goes by the
\* list: the callback of the compaction that made the file may have come late
\* and have set its state to kNormal again.
Purge(f) ==
  /\ f \in obsolete
  /\ obsolete' = obsolete \ {f}
  /\ meta' = [meta EXCEPT ![f] = "kAbsent"]
  /\ UNCHANGED <<sorted, data, discardable, unindexed, mem, ssts, prop,
                 flushed, compacted, counted, disordered, ranged>>

-----------------------------------------------------------------------------
Next ==
  \/ \E f \in BlobFile, n, m \in 0..MaxRec : FinishUnsorted(f, n, m)
  \/ \E f \in BlobFile, accepted \in BOOLEAN : WriteIndex(f, accepted)
  \/ \E s \in Sst, kept \in UpTo(mem), made \in Made : Flush(s, kept, made)
  \/ \E s \in flushed : OnFlushCompleted(s)
  \/ \E ins \in (SUBSET ssts) \ {{}}, s, t \in Sst, made \in Made :
       LET all == [f \in BlobFile |-> Referred(f, ins)] IN
         \E kept \in UpTo(all) :
           \E rest \in UpTo([f \in BlobFile |-> all[f] - kept[f]]) :
             Compact(ins, s, t, kept, rest, made)
  \/ \E c \in compacted, overlapping \in SUBSET BlobFile :
       OnCompactionCompleted(c, overlapping)
  \/ \E f \in BlobFile : Purge(f)

Spec == Init /\ [][Next]_vars

\* The same with DeleteFilesInRanges, whose double counting breaks what Spec
\* guarantees.
RangeSpec ==
  Init /\ [][\/ Next
             \/ \E S, read \in SUBSET Sst, byKey \in SUBSET BlobFile :
                  DeleteFilesInRanges(S, read, byKey)]_vars

-----------------------------------------------------------------------------
(***************************************************************************)
(* Properties                                                              *)
(***************************************************************************)

\* No callback is outstanding.
Quiet == flushed = {} /\ compacted = {}

\* Between callbacks the discardable size of a file that a flush has reported,
\* or that a builder has made, is what no SST refers to any more: whatever the
\* number of flushes that its indexes came with, and with the additions of
\* OnFlushCompleted that wrap around.
AccountingExact ==
  Quiet /\ ~disordered =>
    \A f \in counted \cup sorted :
      IsLive(meta[f]) => discardable[f] = data[f] - Referred(f, ssts)

\* Level merge deletes a sorted file only when no SST refers to it, in whatever
\* order the callbacks come.
DeadWhenDeleted ==
  \A f \in sorted \ ranged : ~IsLive(meta[f]) => Referred(f, ssts) = 0

\* Level merge keeps no garbage: between callbacks a sorted file to which no SST
\* refers has been deleted.
DeadIsDeleted ==
  Quiet /\ ~disordered =>
    \A f \in sorted : Referred(f, ssts) = 0 => ~IsLive(meta[f])
=============================================================================
