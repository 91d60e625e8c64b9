---------------------------- MODULE BlobFileSet ----------------------------
(***************************************************************************)
(* The set of blob files and the manifest that records it                  *)
(* (diffkv/src/blob_file_set.cc, edit_collector.h, version_edit.h and      *)
(* their callers in db_impl.cc), with crashes at every point, several      *)
(* column families, and optionally manifest writes that fail.              *)
(*                                                                         *)
(* Every operation runs under TitanDBImpl::mutex_ and is one action; the   *)
(* steps of a recovery, of a drop and of a purge that a crash can separate *)
(* are actions of their own.  A manifest is represented by what            *)
(* EditCollector::AddEdit makes of its records, which is all that Recover  *)
(* reads from it.  Sequence numbers, and the snapshots that keep obsolete  *)
(* files, are TitanDB's: here any obsolete file may be purged.             *)
(***************************************************************************)
EXTENDS Integers, FiniteSets

CONSTANTS
  CF,              \* column family ids
  DefaultCF,       \* id 0
  MaxFile,         \* bound: file numbers
  MaxCrash,        \* bound: crashes
  MaxGC,           \* max_background_gc
  LevelMerge,      \* TitanCFOptions::level_merge of every column family
  RangeDeletes,    \* does the application call DeleteFilesInRanges?
  ManifestFaults   \* may a write or a sync of the manifest fail?

ASSUME FileSetAssumption ==
  /\ DefaultCF \in CF
  /\ MaxFile \in Nat \ {0} /\ MaxCrash \in Nat /\ MaxGC \in Nat \ {0}
ASSUME FileSetSwitches ==
  LevelMerge \in BOOLEAN /\ RangeDeletes \in BOOLEAN /\ ManifestFaults \in BOOLEAN

File == 1..MaxFile
PerCF == [CF -> SUBSET File]

\* What AddEdit has collected from the records of a manifest; ok is its status.
Manifest == [added : PerCF, deleted : PerCF, next : 1..(MaxFile + 1),
             ok : BOOLEAN]

VARIABLES
  pc,            \* running, or how far a crash or a recovery has come
  baseCF,        \* the column families of the base database
  created,       \* the ids it has given so far
  opened,        \* keys of column_families_
  obsoleteCols,  \* obsolete_columns_
  destroyed,     \* the storages with destroyed_ set
  live,          \* files_ of each storage, those that are not obsolete ...
  obs,           \* ... and those that are
  nextFile,      \* next_file_number_
  written,       \* the current manifest
  possible,      \* what a crash may leave of it
  manifestNo,    \* its file number
  pending,       \* blob files created and not yet logged: <<cf, number>>
  disk,          \* blob files in the directory
  purging,       \* files that PurgeObsoleteFilesImpl is about to delete
  dropping,      \* column families between the base drop and the drop here
  gc,            \* the running GC jobs: <<cf, inputs>>
  everLive,      \* history: numbers of files that were part of the database
  crashes

cfVars  == <<baseCF, created, opened, obsoleteCols, destroyed>>
memVars == <<live, obs>>
logVars == <<written, possible>>
jobVars == <<pending, purging, dropping, gc>>
vars == <<pc, cfVars, memVars, nextFile, logVars, manifestNo, disk, jobVars,
          everLive, crashes>>

TypeOK ==
  /\ pc \in {"running", "down", "read", "purge", "corrupt"}
  /\ baseCF \in SUBSET CF /\ created \in SUBSET CF /\ opened \in SUBSET CF
  /\ obsoleteCols \in SUBSET CF /\ destroyed \in SUBSET CF
  /\ live \in PerCF /\ obs \in PerCF
  /\ nextFile \in 1..(MaxFile + 1)
  /\ written \in Manifest /\ possible \in SUBSET Manifest
  /\ manifestNo \in File
  /\ pending \in SUBSET (CF \X File) /\ gc \in SUBSET (CF \X SUBSET File)
  /\ disk \in SUBSET File /\ purging \in SUBSET File
  /\ dropping \in SUBSET CF
  /\ everLive \in SUBSET File
  /\ crashes \in 0..MaxCrash

NoFiles == [c \in CF |-> {}]

\* Open of a new database: OpenManifest(NewFileNumber()).
Init ==
  /\ pc = "running"
  /\ baseCF = {DefaultCF} /\ created = {DefaultCF} /\ opened = {DefaultCF}
  /\ obsoleteCols = {} /\ destroyed = {}
  /\ live = NoFiles /\ obs = NoFiles
  /\ nextFile = 2 /\ manifestNo = 1
  /\ written = [added |-> NoFiles, deleted |-> NoFiles, next |-> 2, ok |-> TRUE]
  /\ possible = {written}
  /\ pending = {} /\ disk = {} /\ purging = {} /\ dropping = {} /\ gc = {}
  /\ everLive = {} /\ crashes = 0

-----------------------------------------------------------------------------
(***************************************************************************)
(* BlobFileSet::LogAndApply                                                *)
(***************************************************************************)

\* Mutants: the next file number is off by one; it is not recorded.
AddEditNextOff(m, c, add, del) ==
  [added   |-> [m.added EXCEPT ![c] = @ \cup add],
   deleted |-> [m.deleted EXCEPT ![c] = @ \cup del],
   next    |-> nextFile + 1,
   ok      |-> m.ok /\ add \cap m.added[c] = {} /\ del \cap m.deleted[c] = {}]
AddEditNoNext(m, c, add, del) ==
  [added   |-> [m.added EXCEPT ![c] = @ \cup add],
   deleted |-> [m.deleted EXCEPT ![c] = @ \cup del],
   next    |-> m.next,
   ok      |-> m.ok /\ add \cap m.added[c] = {} /\ del \cap m.deleted[c] = {}]

\* EditCollector::AddEdit of one more record.
AddEdit(m, c, add, del) ==
  [added   |-> [m.added EXCEPT ![c] = @ \cup add],
   deleted |-> [m.deleted EXCEPT ![c] = @ \cup del],
   next    |-> nextFile,
   ok      |-> /\ m.ok
               /\ add \cap m.added[c] = {} /\ del \cap m.deleted[c] = {}
               /\ nextFile >= m.next]

\* EditCollector::Seal of a single edit.
Sealable(c, add, del) ==
  c \in opened => /\ add \cap (live[c] \cup obs[c]) = {}
                  /\ del \ add \subseteq live[c]

\* Mutant: deleted files are not marked obsolete.
ApplyWithoutDelete(c, add, del) ==
  /\ live' = IF c \in opened
               THEN [live EXCEPT ![c] = @ \cup add] ELSE live
  /\ UNCHANGED obs

\* EditCollector::Apply: a storage that is gone is skipped.
Apply(c, add, del) ==
  /\ live' = IF c \in opened
               THEN [live EXCEPT ![c] = (@ \cup add) \ del] ELSE live
  /\ obs' = IF c \in opened
              THEN [obs EXCEPT ![c] = @ \cup (del \ add)] ELSE obs

\* The whole of LogAndApply succeeds ...
LogAndApply(c, add, del) ==
  /\ Sealable(c, add, del)
  /\ written' = AddEdit(written, c, add, del)
  /\ possible' = {written'}
  /\ Apply(c, add, del)
  /\ everLive' = IF c \in baseCF THEN everLive \cup add ELSE everLive

\* Mutant: the edit is applied although its record did not reach the manifest.
LogFailsButApplies(c, add, del) ==
  /\ UNCHANGED <<logVars, everLive>>
  /\ \/ ~Sealable(c, add, del) /\ UNCHANGED memVars
     \/ ManifestFaults /\ Sealable(c, add, del) /\ Apply(c, add, del)

\* ... or it returns early: the edit does not seal, the record is not
\* written, or it is written and the sync fails.
LogFails(c, add, del) ==
  /\ \/ ~Sealable(c, add, del) /\ UNCHANGED logVars
     \/ /\ ManifestFaults /\ Sealable(c, add, del)
        /\ \/ UNCHANGED logVars
           \/ /\ written' = AddEdit(written, c, add, del)
              /\ possible' = possible \cup {written'}
  /\ UNCHANGED <<live, obs, everLive>>

-----------------------------------------------------------------------------
(***************************************************************************)
(* Blob files                                                              *)
(***************************************************************************)

\* FileManager::NewFile.
NewFile(c) ==
  /\ pc = "running" /\ nextFile \in File /\ c \in baseCF
  /\ nextFile' = nextFile + 1
  /\ disk' = disk \cup {nextFile}
  /\ pending' = pending \cup {<<c, nextFile>>}
  /\ UNCHANGED <<pc, cfVars, memVars, logVars, manifestNo, purging, dropping,
                 gc, everLive, crashes>>

PendingOf(c) == {f \in File : <<c, f>> \in pending}

\* FileManager::BatchFinishFiles; a flush calls it without files too, and logs
\* an empty edit.
BatchFinishFiles(c, fs) ==
  /\ pc = "running" /\ fs \subseteq PendingOf(c) /\ (fs # {} \/ c \in baseCF)
  /\ LogAndApply(c, fs, {}) \/ LogFails(c, fs, {})
  /\ pending' = pending \ {<<c, f>> : f \in fs}
  /\ UNCHANGED <<pc, cfVars, nextFile, manifestNo, disk, purging, dropping, gc,
                 crashes>>

\* BackgroundGC picks the inputs of a job, files that are not being collected;
\* it waits while a drop is in progress.
PickGC(c, fs) ==
  /\ pc = "running" /\ Cardinality(gc) < MaxGC /\ dropping = {}
  /\ c \in opened \ obsoleteCols /\ fs # {} /\ fs \subseteq live[c]
  /\ \A job \in gc : job[1] = c => job[2] \cap fs = {}
  /\ gc' = gc \cup {<<c, fs>>}
  /\ UNCHANGED <<pc, cfVars, memVars, nextFile, logVars, manifestNo, disk,
                 pending, purging, dropping, everLive, crashes>>

\* The end of a job: DeleteInputBlobFiles unless the family was dropped, or
\* nothing when the job failed.
FinishGC(c, fs) ==
  /\ pc = "running" /\ <<c, fs>> \in gc
  /\ \/ c \in baseCF /\ (LogAndApply(c, {}, fs) \/ LogFails(c, {}, fs))
     \/ UNCHANGED <<memVars, logVars, everLive>>
  /\ gc' = gc \ {<<c, fs>>}
  /\ UNCHANGED <<pc, cfVars, nextFile, manifestNo, disk, pending, purging,
                 dropping, crashes>>

\* BlobFileSet::DeleteBlobFilesInRanges: fs are the files within the ranges,
\* possibly none.
DeleteBlobFilesInRanges(c, fs) ==
  /\ c \in opened /\ fs \subseteq live[c]
  /\ LogAndApply(c, {}, fs) \/ LogFails(c, {}, fs)
  /\ UNCHANGED <<pc, cfVars, nextFile, manifestNo, disk, jobVars,
                 crashes>>

\* TitanDBImpl::DeleteFilesInRanges.  With level_merge a second edit follows, for
\* files without live data: DeleteMergedFiles, as a crash may separate the two.
DeleteFilesInRanges(c) ==
  /\ RangeDeletes /\ pc = "running"
  /\ \E fs \in SUBSET File : DeleteBlobFilesInRanges(c, fs)

\* OnCompactionCompleted with level_merge: the files of c without live data go
\* into an edit, possibly empty, whose column family id nobody sets.
DeleteMergedFiles(c, fs) ==
  /\ LevelMerge
  /\ pc = "running" /\ c \in opened /\ fs \subseteq live[c]
  /\ LogAndApply(DefaultCF, {}, fs) \/ LogFails(DefaultCF, {}, fs)
  /\ UNCHANGED <<pc, cfVars, nextFile, manifestNo, disk, jobVars, crashes>>

-----------------------------------------------------------------------------
(***************************************************************************)
(* Column families                                                         *)
(***************************************************************************)

CreateColumnFamily(c) ==
  /\ pc = "running" /\ c \notin created
  /\ created' = created \cup {c} /\ baseCF' = baseCF \cup {c}
  /\ opened' = opened \cup {c}
  /\ UNCHANGED <<pc, obsoleteCols, destroyed, memVars, nextFile, logVars,
                 manifestNo, disk, jobVars, everLive, crashes>>

\* Mutant: the drop does not wait.
DropBaseAtOnce(c) ==
  /\ pc = "running"
  /\ c \in (opened \cap baseCF) \ ({DefaultCF} \cup destroyed)
  /\ baseCF' = baseCF \ {c}
  /\ dropping' = dropping \cup {c}
  /\ UNCHANGED <<pc, created, opened, obsoleteCols, destroyed, memVars,
                 nextFile, logVars, manifestNo, disk, pending, purging, gc,
                 everLive, crashes>>

\* DropColumnFamilies waits until no GC runs; the base database drops first ...
DropBase(c) ==
  /\ pc = "running" /\ gc = {}
  /\ c \in (opened \cap baseCF) \ ({DefaultCF} \cup destroyed)
  /\ baseCF' = baseCF \ {c}
  /\ dropping' = dropping \cup {c}
  /\ UNCHANGED <<pc, created, opened, obsoleteCols, destroyed, memVars,
                 nextFile, logVars, manifestNo, disk, pending, purging, gc,
                 everLive, crashes>>

\* ... and BlobFileSet::DropColumnFamilies follows.
DropColumnFamily(c) ==
  /\ pc = "running" /\ c \in dropping
  /\ \/ /\ c \in opened /\ LogAndApply(c, {}, live[c])
        /\ obsoleteCols' = obsoleteCols \cup {c}
     \/ /\ c \in opened /\ LogFails(c, {}, live[c])
        /\ UNCHANGED obsoleteCols
  /\ dropping' = dropping \ {c}
  /\ UNCHANGED <<pc, baseCF, created, opened, destroyed, nextFile,
                 manifestNo, disk, pending, purging, gc, crashes>>

\* BlobStorage::MaybeRemove for files obsolete o and destroyed storages d: the
\* storages that go.
Removable(o, d) == {c \in opened : c \in d /\ o[c] = {}}

\* BlobFileSet::MaybeDestroyColumnFamily.
MaybeDestroyColumnFamily(c) ==
  /\ c \in opened
  /\ obsoleteCols' = obsoleteCols \ {c}
  /\ destroyed' = destroyed \cup {c}
  /\ opened' = opened \ (Removable(obs, destroyed') \cap {c})
  /\ UNCHANGED <<pc, baseCF, created, memVars, nextFile, logVars, manifestNo,
                 disk, jobVars, everLive, crashes>>

\* TitanDBImpl::DestroyColumnFamilyHandle, once for the handle of any column
\* family, dropped or not.
DestroyColumnFamilyHandle(c) ==
  /\ pc = "running" /\ c \notin destroyed \cup dropping
  /\ MaybeDestroyColumnFamily(c)

-----------------------------------------------------------------------------
(***************************************************************************)
(* Purge, crash and recovery                                               *)
(***************************************************************************)

\* GetObsoleteFiles: forget the files no snapshot sees (any of the obsolete
\* ones), remove the storages that are destroyed and have none left.
GetObsoleteFiles(gone) ==
  /\ pc = "running" /\ purging = {}
  /\ gone \subseteq UNION {obs[c] : c \in opened \ obsoleteCols}
  /\ obs' = [c \in CF |-> IF c \in opened \ obsoleteCols THEN obs[c] \ gone
                                                         ELSE obs[c]]
  /\ opened' = opened \ (Removable(obs', destroyed) \ obsoleteCols)
  /\ purging' = gone
  /\ gone # {} \/ opened' # opened
  /\ UNCHANGED <<pc, baseCF, created, obsoleteCols, destroyed, live, nextFile,
                 logVars, manifestNo, disk, pending, dropping, gc,
                 everLive, crashes>>

PurgeObsoleteFiles ==
  /\ pc = "running" /\ purging # {}
  /\ disk' = disk \ purging /\ purging' = {}
  /\ UNCHANGED <<pc, cfVars, memVars, nextFile, logVars, manifestNo, pending,
                 dropping, gc, everLive, crashes>>

\* The process dies, while it runs or while it recovers.
Crash ==
  /\ pc \in {"running", "read", "purge"} /\ crashes < MaxCrash
  /\ crashes' = crashes + 1
  /\ pc' = "down"
  /\ written' \in possible /\ possible' = {written'}
  /\ opened' = {} /\ obsoleteCols' = {} /\ destroyed' = {}
  /\ live' = NoFiles /\ obs' = NoFiles
  /\ pending' = {} /\ purging' = {} /\ dropping' = {} /\ gc' = {}
  /\ UNCHANGED <<baseCF, created, nextFile, manifestNo, disk,
                 everLive>>

\* The files that the records of m leave in column family c.
Recovered(m, c) == m.added[c] \ m.deleted[c]

\* AddEdit and Seal accept the manifest m, for the column families cfs.
RecoverOK(m, cfs) == m.ok /\ \A c \in cfs : m.deleted[c] \subseteq m.added[c]

\* Recover: read the manifest that CURRENT names ...
RecoverRead ==
  /\ pc = "down"
  /\ IF RecoverOK(written, baseCF)
       THEN /\ pc' = "read"
            /\ opened' = baseCF
            /\ live' = [c \in CF |-> IF c \in baseCF THEN Recovered(written, c)
                                                     ELSE {}]
            /\ nextFile' = written.next
       ELSE /\ pc' = "corrupt" /\ UNCHANGED <<opened, live, nextFile>>
  /\ UNCHANGED <<baseCF, created, obsoleteCols, destroyed, obs, logVars,
                 manifestNo, disk, jobVars, everLive, crashes>>

\* ... write a snapshot to a new manifest and make CURRENT name it ...
RecoverManifest ==
  /\ pc = "read" /\ nextFile \in File
  /\ manifestNo' = nextFile /\ nextFile' = nextFile + 1
  /\ written' = [added |-> live, deleted |-> NoFiles, next |-> nextFile + 1,
                 ok |-> TRUE]
  /\ possible' = {written'}
  /\ pc' = "purge"
  /\ UNCHANGED <<cfVars, memVars, disk, jobVars, everLive, crashes>>

\* ... and delete the blob files that are not alive.
RecoverPurge ==
  /\ pc = "purge"
  /\ disk' = disk \cap ({manifestNo} \cup UNION {live[c] : c \in opened})
  /\ pc' = "running"
  /\ UNCHANGED <<cfVars, memVars, nextFile, logVars, manifestNo, jobVars,
                 everLive, crashes>>

-----------------------------------------------------------------------------
FileStep(c) ==
  \/ NewFile(c) \/ DeleteFilesInRanges(c)
  \/ \E fs \in SUBSET File : \/ BatchFinishFiles(c, fs)
                             \/ PickGC(c, fs) \/ FinishGC(c, fs)
                             \/ DeleteMergedFiles(c, fs)

ColumnFamilyStep(c) ==
  \/ CreateColumnFamily(c) \/ DropBase(c) \/ DropColumnFamily(c)
  \/ DestroyColumnFamilyHandle(c)

RecoveryStep == Crash \/ RecoverRead \/ RecoverManifest \/ RecoverPurge

Next == \/ \E c \in CF : FileStep(c) \/ ColumnFamilyStep(c)
        \/ \E gone \in SUBSET File : GetObsoleteFiles(gone)
        \/ PurgeObsoleteFiles \/ RecoveryStep

Spec == Init /\ [][Next]_vars

-----------------------------------------------------------------------------
(***************************************************************************)
(* Properties                                                              *)
(***************************************************************************)

\* Whatever a crash leaves of the manifest, Recover accepts it.
Recoverable == pc # "corrupt" /\ \A m \in possible : RecoverOK(m, baseCF)

\* Every file that a recovery would find in the manifest exists: no purge, now
\* or during a recovery that is itself interrupted, deletes it.
ManifestFilesExist ==
  \A m \in possible, c \in baseCF : Recovered(m, c) \subseteq disk

\* Memory and manifest agree on the files of every storage.
MemoryMatchesManifest ==
  pc \in {"running", "purge"} =>
    \A c \in opened : live[c] = Recovered(written, c)

\* The inputs of the running GC jobs stay files of the database: a drop waits
\* for the jobs, and no job deletes what another one reads.
GCInputsLive == \A job \in gc : job[2] \subseteq live[job[1]]

\* What the base database still knows of the manifest's files.
FilesOfDatabase ==
  [c \in CF |-> IF c \in baseCF THEN Recovered(written, c) ELSE {}]

\* The manifest implements the set of files that FileSet promises.
Promise == INSTANCE FileSet WITH live <- FilesOfDatabase, used <- everLive
PromiseKept == Promise!Spec
=============================================================================
