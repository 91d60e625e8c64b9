------------------------------ MODULE TitanDB ------------------------------
(***************************************************************************)
(* The core of DiffKV: a store that keeps large values in blob files and   *)
(* their indexes in a base LSM database (diffkv/src/db_impl.cc,            *)
(* db_impl_gc.cc, db_impl_files.cc, blob_gc_job.cc, blob_gc.cc,            *)
(* blob_gc_picker.cc, blob_storage.cc, table_builder.cc).                  *)
(*                                                                         *)
(* User threads write and delete keys and hold snapshots, the base         *)
(* database flushes memtables, garbage-collection jobs move live values    *)
(* out of blob files and retire the files, a periodic thread purges        *)
(* retired files, and the process may crash and recover.  An action is     *)
(* what one of these threads does between two points where another may     *)
(* run: a critical section of TitanDBImpl::mutex_, or one call of the      *)
(* base database.                                                          *)
(*                                                                         *)
(* Abstractions.  A value is the number of the user write that made it.    *)
(* Sizes, scores and thresholds are nondeterministic choices.  One column  *)
(* family.  A manifest write succeeds (BlobFileSet covers failures).  The  *)
(* base database keeps every version: a version that a flush or a          *)
(* compaction drops only removes a reference to a blob file.  With         *)
(* level_merge only the values that the foreground builder takes are       *)
(* modelled, not the medium ones in sorted files, which GC never picks.    *)
(***************************************************************************)
EXTENDS Integers, Sequences, FiniteSets, BlobFileState

CONSTANTS
  Key,             \* user keys
  Writer,          \* threads that call Put with a value to be separated
  Reader,          \* threads that hold snapshots
  GCJob,           \* slots of the GC thread pool (max_background_gc)
  MaxVal,          \* bound: user writes
  MaxSeq,          \* bound: writes to the base database, those of GC included
  MaxFile,         \* bound: file numbers
  MaxCrash,        \* bound: crashes
  SepBeforeFlush,  \* TitanDBOptions::sep_before_flush
  LevelMerges,     \* the values of TitanCFOptions::level_merge considered
  GCFaults,        \* may an I/O fail whose failure a GC job passes over?
  WalLoss          \* may a crash lose the unsynced tail of the base DB's WAL?

ASSUME BoundsAssumption ==
  /\ MaxVal \in Nat /\ MaxSeq \in Nat /\ MaxFile \in Nat \ {0}
  /\ MaxCrash \in Nat
ASSUME SwitchesAssumption ==
  /\ SepBeforeFlush \in BOOLEAN
  /\ LevelMerges \in SUBSET BOOLEAN /\ LevelMerges # {}
  \* without sep_before_flush level_merge leaves nothing for GC to collect
  /\ TRUE \in LevelMerges => SepBeforeFlush
  /\ GCFaults \in BOOLEAN /\ WalLoss \in BOOLEAN

VARIABLES
  levelMerge,  \* TitanCFOptions::level_merge, which no step changes
  \* the base database
  seq,         \* latest sequence number
  entry,       \* the write of each sequence number
  flushed,     \* writes up to this sequence number are in SST files
  snap,        \* the snapshot each reader holds
  \* blob files
  content,     \* the records of each blob file in the directory
  disk,        \* the blob files that exist in the directory
  meta,        \* BlobStorage::files_: the state of each file
  obsolete,    \* BlobStorage::obsolete_files_: <<file, obsolete_sequence>>
  gcScore,     \* BlobStorage::gc_score_
  nextFile,    \* BlobFileSet::next_file_number_
  savedNext,   \* the next_file_number in the last manifest record
  bgError,     \* has_bg_error_
  \* ForegroundBuilder
  building,    \* the file of handle_/builder_, or NoFile
  buffered,    \* records of that file still in the writer's buffer
  finished,    \* finished_files_
  put,         \* the record a writer has added and not yet indexed
  \* the flush job of the base database
  flushPc, sealed, flushFile,
  \* GC jobs
  gcPc, gcInputs, gcTodo, gcQueue, gcOut, gcHold,
  \* PurgeObsoleteFilesImpl
  purgePc, purgeOldest, purgeCand,
  \* history, read by properties only
  nextVal, lastWrite, lateSnap, abandoned, crashes

baseVars    == <<seq, entry, flushed, snap>>
fileVars    == <<content, disk, meta, obsolete, gcScore, nextFile, savedNext>>
builderVars == <<building, buffered, finished>>
flushVars   == <<flushPc, sealed, flushFile>>
gcVars      == <<gcPc, gcInputs, gcTodo, gcQueue, gcOut, gcHold>>
purgeVars   == <<purgePc, purgeOldest, purgeCand>>
histVars    == <<nextVal, lastWrite, lateSnap, abandoned, crashes>>
vars == <<levelMerge, baseVars, fileVars, bgError, builderVars, put, flushVars, gcVars,
          purgeVars, histVars>>

NoFile == 0
NoSnap == 0 - 1
kMaxSequenceNumber == MaxSeq + 1

File   == 1..MaxFile
Val    == 1..MaxVal
Record == Key \X Val

(***************************************************************************)
(* What the base database holds under one sequence number: a raw value of  *)
(* at least min_blob_size (large), a smaller one or a deletion (inline: no *)
(* blob record stands for either), or a blob index.  late is a history     *)
(* field: the index was written after its file was logged.                 *)
(***************************************************************************)
Entry == [key : Key, kind : {"inline", "large", "blob"},
          val : Val, file : 0..MaxFile, late : BOOLEAN]

NoPut == [file |-> NoFile]
Held  == [key : Key, val : Val, file : File]

TypeOK ==
  /\ levelMerge \in LevelMerges
  /\ seq \in 0..MaxSeq
  /\ entry \in [1..seq -> Entry]
  /\ flushed \in 0..seq
  /\ snap \in [Reader -> {NoSnap} \cup 0..MaxSeq]
  /\ content \in [File -> SUBSET Record]
  /\ disk \in SUBSET File
  /\ meta \in [File -> MetaState]
  /\ obsolete \in SUBSET (File \X (0..MaxSeq))
  /\ gcScore \in SUBSET File
  /\ nextFile \in 1..(MaxFile + 1)
  /\ savedNext \in 1..nextFile
  /\ bgError \in BOOLEAN
  /\ building \in 0..MaxFile
  /\ buffered \in SUBSET Record
  /\ finished \in SUBSET File
  /\ put \in [Writer -> {NoPut} \cup Held]
  /\ flushPc \in {"idle", "sealed", "built", "logged", "installed"}
  /\ sealed \in 0..seq
  /\ flushFile \in 0..MaxFile
  /\ gcPc \in [GCJob -> {"idle", "run", "write", "install", "rewrite"}]
  /\ gcInputs \in [GCJob -> SUBSET File]
  /\ gcTodo \in [GCJob -> SUBSET (File \X Key \X Val)]
  /\ gcQueue \in [GCJob -> Seq(Record)]
  /\ gcOut \in [GCJob -> 0..MaxFile]
  /\ gcHold \in [GCJob -> {NoPut} \cup Held]
  /\ purgePc \in {"idle", "oldest", "delete"}
  /\ purgeOldest \in 0..kMaxSequenceNumber
  /\ purgeCand \in SUBSET File
  /\ nextVal \in 1..(MaxVal + 1)
  /\ lastWrite \in [Key -> 0..MaxVal]
  /\ lateSnap \in SUBSET Reader
  /\ abandoned \in SUBSET Record
  /\ crashes \in 0..MaxCrash

Init ==
  /\ levelMerge \in LevelMerges
  /\ seq = 0 /\ entry = [s \in 1..0 |-> {}] /\ flushed = 0
  /\ snap = [r \in Reader |-> NoSnap]
  /\ content = [f \in File |-> {}] /\ disk = {}
  /\ meta = [f \in File |-> "kAbsent"]
  /\ obsolete = {} /\ gcScore = {}
  \* Open of a new database: the first number went to the manifest.
  /\ nextFile = 2 /\ savedNext = 2
  /\ bgError = FALSE
  /\ building = NoFile /\ buffered = {} /\ finished = {}
  /\ put = [w \in Writer |-> NoPut]
  /\ flushPc = "idle" /\ sealed = 0 /\ flushFile = NoFile
  /\ gcPc = [j \in GCJob |-> "idle"] /\ gcInputs = [j \in GCJob |-> {}]
  /\ gcTodo = [j \in GCJob |-> {}] /\ gcQueue = [j \in GCJob |-> <<>>]
  /\ gcOut = [j \in GCJob |-> NoFile] /\ gcHold = [j \in GCJob |-> NoPut]
  /\ purgePc = "idle" /\ purgeOldest = 0 /\ purgeCand = {}
  /\ nextVal = 1 /\ lastWrite = [k \in Key |-> 0]
  /\ lateSnap = {} /\ abandoned = {} /\ crashes = 0

-----------------------------------------------------------------------------
(***************************************************************************)
(* Reads                                                                   *)
(***************************************************************************)

\* s is the newest write of k that a read at sequence number at sees.
Visible(s, k, at) ==
  /\ s \in 1..seq /\ s <= at /\ entry[s].key = k
  /\ \A t \in (s + 1)..seq : t <= at => entry[t].key # k

\* building_files_ of the BlobStorage.
BuildingFiles == finished \cup ({building} \ {NoFile})

\* BlobStorage::Get finds the record: through files_ or, for a file not
\* logged yet, by reading the part of the building file that was written out.
Readable(f, k, v) ==
  /\ f \in disk /\ <<k, v>> \in content[f]
  /\ \/ meta[f] # "kAbsent"
     \/ /\ SepBeforeFlush /\ f \in BuildingFiles
        /\ f = building => <<k, v>> \notin buffered

\* TitanDBImpl::GetImpl, with s the entry that the base database finds: when it
\* is a blob index the storage must find the record.
GetImplOK(s) ==
  entry[s].kind = "blob"
    => Readable(entry[s].file, entry[s].key, entry[s].val)

-----------------------------------------------------------------------------
(***************************************************************************)
(* Building blocks: a write to the base database, a new blob file, an edit *)
(* of the blob file set.                                                   *)
(***************************************************************************)

Write(e) ==
  /\ seq < MaxSeq
  /\ seq' = seq + 1
  /\ entry' = [s \in 1..(seq + 1) |-> IF s = seq + 1 THEN e ELSE entry[s]]

BlobEntry(k, v, f, late) ==
  [key |-> k, kind |-> "blob", val |-> v, file |-> f, late |-> late]

\* Mutant: obsolete files count as live.
LiveFilesObsoleteToo(m) == {f \in File : m[f] # "kAbsent"}

LiveFiles(m) == {f \in File : IsLive(m[f])}

\* BlobStorage::ComputeGCScore: with level_merge only the files whose
\* discardable ratio reached the threshold.
ComputeGCScore(m) ==
  IF levelMerge THEN gcScore' \in SUBSET LiveFiles(m)
                ELSE gcScore' = LiveFiles(m)

\* Mutants: the edit carries a next file number that is off by one; it carries
\* none.
LogAndApplyNextOff(m) ==
  meta' = m /\ savedNext' = nextFile + 1 /\ ComputeGCScore(m)
LogAndApplyNoNext(m) ==
  meta' = m /\ savedNext' = savedNext /\ ComputeGCScore(m)

\* LogAndApply of an edit that takes files_ to m.
LogAndApply(m) ==
  /\ meta' = m
  /\ savedNext' = nextFile
  /\ ComputeGCScore(m)

\* ForegroundBuilder::handleRequest for a record: it goes to the open file, or
\* to a new one; the writer's buffer may keep it, with or without the
\* records before it; a file that reached its target size is finished.
ForegroundAdd(k, v, f) ==
  /\ f \in File
  /\ f = IF building = NoFile THEN nextFile ELSE building
  /\ nextFile' = IF building = NoFile THEN nextFile + 1 ELSE nextFile
  /\ content' = [content EXCEPT
                   ![f] = (IF building = NoFile THEN {} ELSE @) \cup {<<k, v>>}]
  /\ disk' = disk \cup {f}
  /\ \/ /\ building' = f /\ UNCHANGED finished
        /\ buffered' \in {{}, {<<k, v>>}, buffered \cup {<<k, v>>}}
     \/ /\ building' = NoFile /\ finished' = finished \cup {f}
        /\ buffered' = {}

-----------------------------------------------------------------------------
(***************************************************************************)
(* User operations                                                         *)
(***************************************************************************)

\* A write that goes to the base database as it is: Delete, Put of a small
\* value, and a large value that is separated at flush: every Put without
\* sep_before_flush, and with it a Write, or a Put that the builder refused.
WriteInline(k, kind) ==
  /\ ~bgError
  /\ nextVal <= MaxVal
  /\ Write([key |-> k, kind |-> kind, val |-> nextVal, file |-> NoFile,
            late |-> FALSE])
  /\ nextVal' = nextVal + 1
  /\ lastWrite' = [lastWrite EXCEPT ![k] = nextVal]
  /\ UNCHANGED <<flushed, snap, fileVars, bgError, builderVars, put,
                 flushVars, gcVars, purgeVars, lateSnap, abandoned,
                 crashes>>

\* Put with sep_before_flush, first half: the builder thread stores the value.
PutAdd(w, k) ==
  /\ SepBeforeFlush /\ ~bgError /\ put[w] = NoPut
  /\ nextVal <= MaxVal
  /\ \E f \in File :
       /\ ForegroundAdd(k, nextVal, f)
       /\ put' = [put EXCEPT ![w] = [key |-> k, val |-> nextVal, file |-> f]]
  /\ nextVal' = nextVal + 1
  /\ UNCHANGED <<baseVars, meta, obsolete, gcScore, savedNext, bgError,
                 flushVars, gcVars, purgeVars, lastWrite, lateSnap, abandoned,
                 crashes>>

\* Second half: db_->Write stores the index; the Put returns.
PutWrite(w) ==
  /\ put[w] # NoPut
  /\ Write(BlobEntry(put[w].key, put[w].val, put[w].file,
                     put[w].file \notin BuildingFiles))
  /\ lastWrite' = [lastWrite EXCEPT ![put[w].key] = put[w].val]
  /\ put' = [put EXCEPT ![w] = NoPut]
  /\ UNCHANGED <<flushed, snap, fileVars, bgError, builderVars, flushVars,
                 gcVars, purgeVars, nextVal, lateSnap, abandoned, crashes>>

\* GetSnapshot.  A snapshot is late when the purge thread has already found
\* that no snapshot exists and has not used that answer yet.
TakeSnapshot(r) ==
  /\ snap[r] = NoSnap
  /\ snap' = [snap EXCEPT ![r] = seq]
  /\ lateSnap' = IF purgePc = "oldest" /\ purgeOldest = kMaxSequenceNumber
                   THEN lateSnap \cup {r} ELSE lateSnap
  /\ UNCHANGED <<seq, entry, flushed, fileVars, bgError, builderVars, put,
                 flushVars, gcVars, purgeVars, nextVal, lastWrite, abandoned,
                 crashes>>

ReleaseSnapshot(r) ==
  /\ snap[r] # NoSnap
  /\ snap' = [snap EXCEPT ![r] = NoSnap]
  /\ lateSnap' = lateSnap \ {r}
  /\ UNCHANGED <<seq, entry, flushed, fileVars, bgError, builderVars, put,
                 flushVars, gcVars, purgeVars, nextVal, lastWrite, abandoned,
                 crashes>>

-----------------------------------------------------------------------------
(***************************************************************************)
(* Flush                                                                   *)
(***************************************************************************)

\* The base database switches memtables.  OnMemTableSealed makes the builders
\* finish their file and log all finished files, in state kNormal.
SealMemTable ==
  /\ flushPc = "idle" /\ flushed < seq
  /\ flushPc' = "sealed" /\ sealed' = seq
  /\ IF BuildingFiles = {}
       THEN UNCHANGED <<builderVars, meta, savedNext, gcScore>>
       ELSE /\ building' = NoFile /\ buffered' = {} /\ finished' = {}
            /\ LogAndApply([f \in File |->
                              IF f \in BuildingFiles
                                THEN FileStateTransit("kReset", "kInit")
                                ELSE meta[f]])
  /\ UNCHANGED <<baseVars, content, disk, obsolete, nextFile, bgError, put,
                 flushFile, gcVars, purgeVars, histVars>>

\* The sealed writes whose value goes to a blob file.
ToSeparate == {s \in (flushed + 1)..sealed : entry[s].kind = "large"}

\* TitanTableBuilder::Add over the memtable: large values go to a new file.
FlushBuild ==
  /\ flushPc = "sealed"
  /\ IF ToSeparate = {}
       THEN /\ flushFile' = NoFile /\ UNCHANGED <<nextFile, content, disk>>
       ELSE /\ nextFile \in File
            /\ flushFile' = nextFile /\ nextFile' = nextFile + 1
            /\ content' = [content EXCEPT ![nextFile] =
                             {<<entry[s].key, entry[s].val>> : s \in ToSeparate}]
            /\ disk' = disk \cup {nextFile}
  /\ flushPc' = "built"
  /\ UNCHANGED <<baseVars, meta, obsolete, gcScore, savedNext, bgError,
                 builderVars, put, sealed, gcVars, purgeVars, histVars>>

\* TitanTableBuilder::Finish logs the file before the SST becomes visible.
FlushFinish ==
  /\ flushPc = "built"
  /\ LogAndApply(IF flushFile = NoFile THEN meta
                 ELSE [meta EXCEPT ![flushFile] =
                         FileStateTransit("kFlushOrCompactionOutput", "kInit")])
  /\ flushPc' = "logged"
  /\ UNCHANGED <<baseVars, content, disk, obsolete, nextFile, bgError,
                 builderVars, put, sealed, flushFile, gcVars, purgeVars,
                 histVars>>

\* The base database installs the SST.
FlushInstall ==
  /\ flushPc = "logged"
  /\ entry' = [s \in 1..seq |->
                 IF s \in ToSeparate
                   THEN [entry[s] EXCEPT !.kind = "blob", !.file = flushFile]
                   ELSE entry[s]]
  /\ flushPc' = "installed"
  /\ UNCHANGED <<seq, flushed, snap, fileVars, bgError, builderVars, put,
                 sealed, flushFile, gcVars, purgeVars, histVars>>

\* The blob files the new SST refers to (BlobFileSizeCollector).
FlushedFiles == {entry[s].file : s \in {t \in (flushed + 1)..sealed :
                                          entry[t].kind = "blob"}}

OnFlushCompleted ==
  /\ flushPc = "installed"
  /\ meta' = [f \in File |-> IF f \in FlushedFiles /\ meta[f] # "kAbsent"
                               THEN FileStateTransit("kFlushCompleted", meta[f])
                               ELSE meta[f]]
  /\ flushed' = sealed
  /\ flushPc' = "idle" /\ flushFile' = NoFile
  /\ UNCHANGED <<seq, entry, snap, content, disk, obsolete, gcScore, nextFile,
                 savedNext, bgError, builderVars, put, sealed, gcVars,
                 purgeVars, histVars>>

-----------------------------------------------------------------------------
(***************************************************************************)
(* Garbage collection: BackgroundGC of the job in slot j.                  *)
(***************************************************************************)

\* With sep_before_flush and without level_merge a job puts live values back
\* through the foreground builder; otherwise it writes a file of its own.
GCThroughBuilder == SepBeforeFlush /\ ~levelMerge

\* Mutant: any file that is not obsolete may be picked.
CheckBlobFileAnyLive(f) == IsLive(meta[f])

\* CheckBlobFile of the picker.
CheckBlobFile(f) == meta[f] = "kNormal"

\* BuildIterator: the records of the inputs, which no longer change.
BuildIterator(inputs) ==
  {r \in inputs \X Key \X Val : <<r[2], r[3]>> \in content[r[1]]}

\* PickBlobGC and MarkFilesBeingGC.  Which of the eligible files fit into the
\* batch depends on their sizes.
PickBlobGC(j) ==
  /\ gcPc[j] = "idle"
  /\ \E inputs \in SUBSET {f \in gcScore : CheckBlobFile(f)} :
       /\ inputs # {}
       /\ gcInputs' = [gcInputs EXCEPT ![j] = inputs]
       /\ gcTodo' = [gcTodo EXCEPT ![j] = BuildIterator(inputs)]
       /\ meta' = [f \in File |-> IF f \in inputs
                                    THEN FileStateTransit("kGCBegin", meta[f])
                                    ELSE meta[f]]
  /\ gcPc' = [gcPc EXCEPT ![j] = "run"]
  /\ UNCHANGED <<baseVars, content, disk, obsolete, gcScore, nextFile,
                 savedNext, bgError, builderVars, put, flushVars, gcQueue,
                 gcOut, gcHold, purgeVars, histVars>>

\* Mutant: DiscardEntry looks only at what was flushed.
DiscardableByFlushed(f, k, v) ==
  ~ \E s \in 1..flushed : /\ Visible(s, k, flushed)
                          /\ entry[s].kind = "blob"
                          /\ entry[s].file = f /\ entry[s].val = v

\* DiscardEntry: the key's newest version no longer is this blob record.
Discardable(f, k, v) ==
  ~ \E s \in 1..seq : /\ Visible(s, k, seq)
                      /\ entry[s].kind = "blob"
                      /\ entry[s].file = f /\ entry[s].val = v

\* DoRunGC, a record that is dropped.
GCDiscard(j) ==
  /\ gcPc[j] = "run"
  /\ \E r \in gcTodo[j] :
       /\ Discardable(r[1], r[2], r[3])
       /\ gcTodo' = [gcTodo EXCEPT ![j] = @ \ {r}]
  /\ UNCHANGED <<baseVars, fileVars, bgError, builderVars, put, flushVars,
                 gcPc, gcInputs, gcQueue, gcOut, gcHold, purgeVars, histVars>>

\* DoRunGC, a live record: copied to the job's output file (the first one
\* creates it; it stands for all the job's outputs) and queued for rewriting.
GCKeep(j) ==
  /\ gcPc[j] = "run" /\ ~GCThroughBuilder
  /\ \E r \in gcTodo[j], f \in File :
       /\ ~Discardable(r[1], r[2], r[3])
       /\ f = IF gcOut[j] = NoFile THEN nextFile ELSE gcOut[j]
       /\ nextFile' = IF gcOut[j] = NoFile THEN nextFile + 1 ELSE nextFile
       /\ content' = [content EXCEPT
                        ![f] = (IF gcOut[j] = NoFile THEN {} ELSE @)
                               \cup {<<r[2], r[3]>>}]
       /\ disk' = disk \cup {f}
       /\ gcOut' = [gcOut EXCEPT ![j] = f]
       /\ gcQueue' = [gcQueue EXCEPT ![j] = Append(@, <<r[2], r[3]>>)]
       /\ gcTodo' = [gcTodo EXCEPT ![j] = @ \ {r}]
  /\ UNCHANGED <<baseVars, meta, obsolete, gcScore, savedNext, bgError,
                 builderVars, put, flushVars, gcPc, gcInputs, gcHold,
                 purgeVars, histVars>>

\* DoRunGC, a live record put back through the foreground builder ...
GCBuilderAdd(j) ==
  /\ gcPc[j] = "run" /\ GCThroughBuilder
  /\ \E r \in gcTodo[j], f \in File :
       /\ ~Discardable(r[1], r[2], r[3])
       /\ ForegroundAdd(r[2], r[3], f)
       /\ gcHold' = [gcHold EXCEPT
                       ![j] = [key |-> r[2], val |-> r[3], file |-> f]]
       /\ gcTodo' = [gcTodo EXCEPT ![j] = @ \ {r}]
  /\ gcPc' = [gcPc EXCEPT ![j] = "write"]
  /\ UNCHANGED <<baseVars, meta, obsolete, gcScore, savedNext, bgError, put,
                 flushVars, gcInputs, gcQueue, gcOut, purgeVars, histVars>>

\* ... and its new index written by base_db_->Write.
GCBuilderWrite(j) ==
  /\ gcPc[j] = "write"
  /\ Write(BlobEntry(gcHold[j].key, gcHold[j].val, gcHold[j].file,
                     gcHold[j].file \notin BuildingFiles))
  /\ gcHold' = [gcHold EXCEPT ![j] = NoPut]
  /\ gcPc' = [gcPc EXCEPT ![j] = "run"]
  /\ UNCHANGED <<flushed, snap, fileVars, bgError, builderVars, put,
                 flushVars, gcInputs, gcTodo, gcQueue, gcOut, purgeVars,
                 histVars>>

\* The builder refuses the record (no new file): DoRunGC reports it on cerr and
\* goes on with the next one.
GCBuilderReject(j) ==
  /\ GCFaults
  /\ gcPc[j] = "run" /\ GCThroughBuilder
  /\ \E r \in gcTodo[j] :
       /\ ~Discardable(r[1], r[2], r[3])
       /\ gcTodo' = [gcTodo EXCEPT ![j] = @ \ {r}]
       /\ abandoned' = abandoned \cup {<<r[2], r[3]>>}
  /\ UNCHANGED <<baseVars, fileVars, bgError, builderVars, put, flushVars,
                 gcPc, gcInputs, gcQueue, gcOut, gcHold, purgeVars, nextVal,
                 lastWrite, lateSnap, crashes>>

\* The write of the index fails before the last record: the status of the next
\* record's DiscardEntry replaces the failure.
GCBuilderWriteFault(j) ==
  /\ GCFaults
  /\ gcPc[j] = "write" /\ gcTodo[j] # {}
  /\ abandoned' = abandoned \cup {<<gcHold[j].key, gcHold[j].val>>}
  /\ gcHold' = [gcHold EXCEPT ![j] = NoPut]
  /\ gcPc' = [gcPc EXCEPT ![j] = "run"]
  /\ UNCHANGED <<baseVars, fileVars, bgError, builderVars, put, flushVars,
                 gcInputs, gcTodo, gcQueue, gcOut, purgeVars, nextVal,
                 lastWrite, lateSnap, crashes>>

\* Run returns; Finish installs the outputs.
GCRunDone(j) ==
  /\ gcPc[j] = "run" /\ gcTodo[j] = {} /\ ~GCThroughBuilder
  /\ gcPc' = [gcPc EXCEPT ![j] = "install"]
  /\ UNCHANGED <<baseVars, fileVars, bgError, builderVars, put, flushVars,
                 gcInputs, gcTodo, gcQueue, gcOut, gcHold, purgeVars, histVars>>

\* InstallOutputBlobFiles: BatchFinishFiles logs the outputs.
GCInstall(j) ==
  /\ gcPc[j] = "install"
  /\ LogAndApply(IF gcOut[j] = NoFile THEN meta
                 ELSE [meta EXCEPT ![gcOut[j]] =
                         FileStateTransit("kGCOutput", "kInit")])
  /\ gcPc' = [gcPc EXCEPT ![j] = "rewrite"]
  /\ UNCHANGED <<baseVars, content, disk, obsolete, nextFile, bgError,
                 builderVars, put, flushVars, gcInputs, gcTodo, gcQueue,
                 gcOut, gcHold, purgeVars, histVars>>

\* InstallOutputBlobFiles when a builder fails to finish: the output is
\* deleted, and the status of the deletion replaces the status of the failure.
GCInstallFault(j) ==
  /\ GCFaults
  /\ gcPc[j] = "install" /\ gcOut[j] # NoFile
  /\ disk' = disk \ {gcOut[j]}
  /\ content' = [content EXCEPT ![gcOut[j]] = {}]
  /\ abandoned' = abandoned \cup content[gcOut[j]]
  /\ gcPc' = [gcPc EXCEPT ![j] = "rewrite"]
  /\ UNCHANGED <<baseVars, meta, obsolete, gcScore, nextFile,
                 savedNext, bgError, builderVars, put, flushVars, gcInputs,
                 gcTodo, gcQueue, gcOut, gcHold, purgeVars, nextVal,
                 lastWrite, lateSnap, crashes>>

\* RewriteValidKeyToLSM, one batch: a plain write of the new index.
GCRewrite(j) ==
  /\ gcPc[j] = "rewrite" /\ gcQueue[j] # <<>>
  /\ Write(BlobEntry(Head(gcQueue[j])[1], Head(gcQueue[j])[2], gcOut[j], FALSE))
  /\ gcQueue' = [gcQueue EXCEPT ![j] = Tail(@)]
  /\ UNCHANGED <<flushed, snap, fileVars, bgError, builderVars, put,
                 flushVars, gcPc, gcInputs, gcTodo, gcOut, gcHold, purgeVars,
                 histVars>>

\* ReleaseGcFiles on files_ m: inputs and installed outputs become kNormal
\* unless they are obsolete.
ReleaseGcFiles(j, m) ==
  [f \in File |->
     IF f \in gcInputs[j] \/ (f = gcOut[j] /\ m[f] # "kAbsent")
       THEN FileStateTransit("kGCCompleted", m[f]) ELSE m[f]]

\* The job's objects are destroyed.
GCJobEnd(j) ==
  /\ gcPc' = [gcPc EXCEPT ![j] = "idle"]
  /\ gcInputs' = [gcInputs EXCEPT ![j] = {}]
  /\ gcTodo' = [gcTodo EXCEPT ![j] = {}]
  /\ gcQueue' = [gcQueue EXCEPT ![j] = <<>>]
  /\ gcOut' = [gcOut EXCEPT ![j] = NoFile]
  /\ gcHold' = [gcHold EXCEPT ![j] = NoPut]

\* Mutant: the default obsolete_sequence of VersionEdit::DeleteBlobFile.
ObsoleteSequenceDefault == 0

\* DeleteInputBlobFiles: the sequence number as of which the inputs are
\* obsolete, and its edit of files_ m.
ObsoleteSequence == seq

DeleteInputBlobFiles(j, m) ==
  [f \in File |-> IF f \in gcInputs[j] THEN FileStateTransit("kDelete", m[f])
                                       ELSE m[f]]

\* The end of Finish, and of BackgroundGC: the inputs become obsolete as of the
\* latest sequence number, and the job releases its files.
GCFinish(j) ==
  /\ IF GCThroughBuilder THEN gcPc[j] = "run" /\ gcTodo[j] = {}
                         ELSE gcPc[j] = "rewrite" /\ gcQueue[j] = <<>>
  /\ obsolete' = obsolete \cup {<<f, ObsoleteSequence>> : f \in gcInputs[j]}
  /\ LET deleted == DeleteInputBlobFiles(j, meta) IN
       /\ meta' = ReleaseGcFiles(j, deleted)
       /\ ComputeGCScore(deleted)
  /\ savedNext' = nextFile
  /\ GCJobEnd(j)
  /\ UNCHANGED <<baseVars, content, disk, nextFile, bgError, builderVars, put,
                 flushVars, purgeVars, histVars>>

\* An error (an unreadable record, a failed sync of the outputs, a failed
\* write of an index, a shutdown): the job releases its files and sets the
\* background error.  The inputs stay.
GCFail(j) ==
  /\ gcPc[j] # "idle"
  /\ meta' = ReleaseGcFiles(j, meta)
  /\ bgError' = TRUE
  /\ GCJobEnd(j)
  /\ UNCHANGED <<baseVars, content, disk, obsolete, gcScore, nextFile,
                 savedNext, builderVars, put, flushVars, purgeVars, histVars>>

\* OnCompactionCompleted recomputes the scores before it queues a GC; the
\* discardable sizes have changed.
RecomputeGCScore ==
  /\ levelMerge /\ SepBeforeFlush
  /\ ComputeGCScore(meta)
  /\ UNCHANGED <<baseVars, content, disk, meta, obsolete, nextFile, savedNext,
                 bgError, builderVars, put, flushVars, gcVars, purgeVars,
                 histVars>>

-----------------------------------------------------------------------------
(***************************************************************************)
(* PurgeObsoleteFilesImpl                                                  *)
(***************************************************************************)

Snapshots == {snap[r] : r \in Reader} \ {NoSnap}

\* GetOldestSnapshotSequence, before mutex_ is taken.
PurgeReadOldest ==
  /\ purgePc = "idle"
  /\ purgeOldest' \in IF Snapshots = {} THEN {kMaxSequenceNumber}
                      ELSE {s \in Snapshots : \A t \in Snapshots : s <= t}
  /\ purgePc' = "oldest"
  /\ UNCHANGED <<baseVars, fileVars, bgError, builderVars, put, flushVars,
                 gcVars, purgeCand, histVars>>

\* Mutant: nothing is purged unless a snapshot is held.
NotVisibleBounded(oldest, o) == oldest > o /\ oldest < kMaxSequenceNumber

\* GetObsoleteFiles: no snapshot sees a file that became obsolete at o.
NotVisible(oldest, o) == oldest > o

\* GetObsoleteFiles under mutex_: forget the files and collect their names.
PurgeCollect ==
  /\ purgePc = "oldest"
  /\ LET gone == {o \in obsolete : NotVisible(purgeOldest, o[2])} IN
       /\ purgeCand' = {o[1] : o \in gone}
       /\ obsolete' = obsolete \ gone
       /\ meta' = [f \in File |-> IF \E o \in gone : o[1] = f
                                    THEN "kAbsent" ELSE meta[f]]
  /\ purgePc' = "delete"
  /\ UNCHANGED <<baseVars, content, disk, gcScore, nextFile, savedNext,
                 bgError, builderVars, put, flushVars, gcVars, purgeOldest,
                 histVars>>

PurgeDelete ==
  /\ purgePc = "delete"
  /\ disk' = disk \ purgeCand
  /\ content' = [f \in File |-> IF f \in purgeCand THEN {} ELSE content[f]]
  /\ purgePc' = "idle" /\ purgeCand' = {} /\ purgeOldest' = 0
  /\ UNCHANGED <<baseVars, meta, obsolete, gcScore, nextFile, savedNext,
                 bgError, builderVars, put, flushVars, gcVars, histVars>>

-----------------------------------------------------------------------------
(***************************************************************************)
(* A crash, and Open of the database it leaves.  BlobFileSet::Recover takes *)
(* the live files from the manifest, gives a number to the new manifest    *)
(* and deletes every blob file that is not live, except one that happens   *)
(* to have the number of the new manifest.                                 *)
(***************************************************************************)
CrashAndRecover ==
  /\ crashes < MaxCrash
  /\ crashes' = crashes + 1
  /\ savedNext \in File
  /\ LET durable == IF flushPc = "installed" THEN sealed ELSE flushed IN
       \E n \in IF WalLoss THEN durable..seq ELSE {seq} :
         /\ seq' = n
         /\ entry' = [s \in 1..n |-> entry[s]]
         /\ flushed' = durable
  /\ snap' = [r \in Reader |-> NoSnap] /\ lateSnap' = {}
  /\ meta' = [f \in File |-> IF IsLive(meta[f])
                               THEN FileStateTransit("kDbRestart", "kInit")
                               ELSE "kAbsent"]
  /\ obsolete' = {}
  /\ ComputeGCScore(meta')
  /\ disk' = disk \cap (LiveFiles(meta) \cup {savedNext})
  /\ content' = [f \in File |-> IF f \in disk' THEN content[f] ELSE {}]
  /\ nextFile' = savedNext + 1 /\ savedNext' = savedNext + 1
  /\ bgError' = FALSE
  /\ building' = NoFile /\ buffered' = {} /\ finished' = {}
  /\ put' = [w \in Writer |-> NoPut]
  /\ flushPc' = "idle" /\ sealed' = 0 /\ flushFile' = NoFile
  /\ gcPc' = [j \in GCJob |-> "idle"] /\ gcInputs' = [j \in GCJob |-> {}]
  /\ gcTodo' = [j \in GCJob |-> {}] /\ gcQueue' = [j \in GCJob |-> <<>>]
  /\ gcOut' = [j \in GCJob |-> NoFile] /\ gcHold' = [j \in GCJob |-> NoPut]
  /\ purgePc' = "idle" /\ purgeOldest' = 0 /\ purgeCand' = {}
  /\ UNCHANGED <<nextVal, lastWrite, abandoned>>

-----------------------------------------------------------------------------
UserStep == \/ \E k \in Key, kind \in {"inline", "large"} :
                 WriteInline(k, kind)
            \/ \E w \in Writer, k \in Key : PutAdd(w, k)
            \/ \E w \in Writer : PutWrite(w)
            \/ \E r \in Reader : TakeSnapshot(r) \/ ReleaseSnapshot(r)

FlushStep == \/ SealMemTable \/ FlushBuild \/ FlushFinish \/ FlushInstall
             \/ OnFlushCompleted

GCStep(j) == \/ PickBlobGC(j) \/ GCDiscard(j) \/ GCKeep(j)
             \/ GCBuilderAdd(j) \/ GCBuilderWrite(j)
             \/ GCBuilderReject(j) \/ GCBuilderWriteFault(j) \/ GCRunDone(j)
             \/ GCInstall(j) \/ GCInstallFault(j) \/ GCRewrite(j)
             \/ GCFinish(j) \/ GCFail(j)

PurgeStep == PurgeReadOldest \/ PurgeCollect \/ PurgeDelete

Next == /\ \/ UserStep \/ FlushStep \/ (\E j \in GCJob : GCStep(j))
           \/ RecomputeGCScore \/ PurgeStep \/ CrashAndRecover
        /\ UNCHANGED levelMerge

Spec == Init /\ [][Next]_vars

FairSpec == Spec /\ WF_vars(PurgeStep /\ UNCHANGED levelMerge)

-----------------------------------------------------------------------------
(***************************************************************************)
(* Properties                                                              *)
(***************************************************************************)

\* The newest version of every key can be read: GetImpl never ends in
\* "Missing blob file" for a key that was written and not deleted.
LatestReadable ==
  \A k \in Key, s \in 1..seq :
    Visible(s, k, seq) => GetImplOK(s)

\* LatestReadable for the versions whose index was written while its file was
\* still being built, whose record has left the writer's buffer and that no GC
\* job has given up after a failure it passed over.
SettledReadable ==
  \A k \in Key, s \in 1..seq :
    /\ Visible(s, k, seq) /\ entry[s].kind = "blob" /\ ~entry[s].late
    /\ <<k, entry[s].val>> \notin abandoned
    /\ entry[s].file = building => <<k, entry[s].val>> \notin buffered
    => GetImplOK(s)

\* What a snapshot sees can be read as long as the snapshot is held.
SnapshotReadable ==
  \A r \in Reader, k \in Key, s \in 1..seq :
    snap[r] # NoSnap /\ Visible(s, k, snap[r]) => GetImplOK(s)

\* SnapshotReadable for the snapshots that were not taken between the purge
\* thread's look at an empty snapshot list and its use of the answer.
TimelySnapshotReadable ==
  \A r \in Reader \ lateSnap, k \in Key, s \in 1..seq :
    snap[r] # NoSnap /\ Visible(s, k, snap[r]) => GetImplOK(s)

\* gc_score_ names only files that files_ holds and that are not obsolete: the
\* picker dereferences each of them.
GCScoreLive == \A f \in gcScore : IsLive(meta[f])

\* The assertions of FileStateTransit hold for every event that a running job
\* is going to send, whatever the other jobs did in between.
EventsExpected ==
  /\ \A j \in GCJob : \A f \in gcInputs[j] :
       meta[f] \in AssertedStates("kDelete") \cap AssertedStates("kGCCompleted")
  /\ \A j \in GCJob :
       /\ gcPc[j] = "rewrite" /\ gcOut[j] # NoFile
       /\ ~(GCFaults /\ meta[gcOut[j]] = "kAbsent")
       => meta[gcOut[j]] \in AssertedStates("kGCCompleted")
  /\ flushPc = "installed" => \A f \in FlushedFiles :
       meta[f] \in AssertedStates("kFlushCompleted") \cup {"kAbsent"}

\* GC never undoes a user's write: the newest version of a key is the last one
\* that a user wrote.
NoLostUpdate ==
  \A k \in Key, s \in 1..seq :
    Visible(s, k, seq) => entry[s].val = lastWrite[k]

\* When snapshots are not held forever, an obsolete file is eventually deleted.
ObsoleteReclaimed ==
  <>[](Snapshots = {}) =>
    \A f \in File : meta[f] = "kObsolete" ~> f \notin disk
=============================================================================
