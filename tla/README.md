# Verification of DiffKV and HashKV

The repository is a test environment for key-value stores that separate values from
keys. It holds DiffKV (`diffkv/`, a fork of Titan), HashKV (`hashkv/`, an earlier copy in
`HashKV-old/`), and RocksDB and TerarkDB as baselines, with benchmark scripts. This
project models **DiffKV**, whose code is `diffkv/src/`: it is the part with concurrent
threads, crash recovery and deletion of user data; and the value storage of **HashKV**
(`hashkv/src/`), with its garbage collection and its recovery from consistency logs.

All paths below are relative to `diffkv/src/`, and in what is about HashKV to
`hashkv/src/`, unless they say otherwise.

## 1. Inventory

| Component | State | Operations | Hard part |
|---|---|---|---|
| `TitanDBImpl` (`db_impl.cc`) | `mutex_`, `bg_cv_`, `gc_queue_`, counters, `builders_`, `pending_outputs_`, background error | Put, Get, Write, Delete, GetSnapshot, flush, memtable and compaction listeners, column family create and drop, Close | writers, flush, GC, purge and close interleave; parts run outside `mutex_`; writers sleep on `size_cv_` |
| `ForegroundBuilder` (`table_builder.cc`) | open file, write buffer, finished files | Add, Flush, FinishBlob | with `sep_before_flush` the value is stored before its index |
| `TitanTableBuilder` (`table_builder.cc`) | one blob file per SST | Add, Finish | the file must be logged before the SST is visible |
| `BlobStorage` (`blob_storage.cc`) | `files_`, `obsolete_files_`, `building_files_`, `gc_score_` of one column family | Get, AddBlobFile, MarkFileObsolete, GetObsoleteFiles, ComputeGCScore | readers, pickers and purge use lists computed earlier |
| `BlobFileMeta` (`blob_format.cc`) | file state, discardable size | FileStateTransit | the state is what keeps two jobs off one file; with `level_merge` a sum of sizes decides on deletion |
| `BlobGCJob`, picker (`blob_gc_job.cc`, `blob_gc_picker.cc`, `blob_gc.cc`) | inputs, outputs, rewrite batches | Prepare, Run, Finish | reads, writes and deletions of user data without a lock over them |
| GC scheduling (`db_impl_gc.cc`) | `unscheduled_gc_`, `bg_gc_scheduled_`, `bg_gc_running_`, `drop_cf_requests_` | MaybeScheduleGC, BackgroundCallGC, DropColumnFamilies, CloseImpl | three kinds of waiters on one condition variable |
| `BlobFileSet`, `EditCollector` (`blob_file_set.cc`, `edit_collector.h`) | manifest, `next_file_number_`, storages, `obsolete_columns_` | LogAndApply, Recover, column family drop and destruction | crash between any two steps, failing writes, edits for storages that are gone |
| Purge (`db_impl_files.cc`) | none of its own | PurgeObsoleteFilesImpl | snapshot list read before the lock |
| Base database (`diffkv/dep/rocksdb`) | memtable, WAL, SSTs, snapshots | third-party | modelled as far as DiffKV uses it, marked external |
| Reader, iterator, caches, options, statistics | buffers, counters | pure I/O or monitoring | not modelled |
| HashKV (`hashkv/src`) | write buffer, segments and their bitmap, groups with fronts, consistency logs, LSM-tree of locations | put, get, flush, collection of a group, recovery | collection in the middle of a flush; which record is where after a crash between any two writes |
| RocksDB, TerarkDB, LevelDB, YCSB, scripts | - | - | third-party or drivers, not modelled |

How they interact: a user thread calls `TitanDBImpl`, which stores the value through a
`ForegroundBuilder` (`sep_before_flush`) or lets `TitanTableBuilder` do it when the base
database flushes. Both log the finished file with `BlobFileSet::LogAndApply`. Listener
callbacks of the base database move files to `kNormal` and queue GC. A GC thread picks
files from `gc_score_`, copies live values, writes their new indexes to the base database
and logs the deletion of the inputs. The purge thread deletes obsolete files that no
snapshot needs. `Recover` rebuilds the file set from the manifest and deletes the rest.
With `level_merge` the sizes that flush and compaction callbacks report decide which
sorted files are dead, and with `block_write_size` the total size blocks `Put`.

HashKV hashes a key to a group. A put goes to a buffer; when that is full it is flushed
group by group into the group's main segment and then into log segments. When these run
short the flush stops to collect a group. Locations go to the LSM-tree, whose batch a
consistency log precedes.

What makes the parts correct: every value that an index names can be read, as of now and
as of each snapshot; GC does not change what a user sees; the manifest can always be
read, names only files that exist and agrees with memory; no file number is used twice;
jobs, drops and the close exclude each other and all end; obsolete files are deleted. In
HashKV a read returns the last put, what was flushed survives a crash, no two groups
share a segment, and a flush that runs short of segments finds a group to collect.

## 2. Modules

| Module | Models | Role |
|---|---|---|
| `BlobFileState` | `BlobFileMeta::FileStateTransit` and the states its assertions accept | operators for `TitanDB` |
| `TitanDB` | data path: user operations, foreground builder, flush, GC job, purge, crash | component with everything that touches user data |
| `GCScheduler` | counters, queue and condition variable of GC, drop and close | component |
| `WriteBlocking` | writers blocked by the total size, on top of `GCScheduler` | composition |
| `BlobAccounting` | discardable sizes and the deletions of `level_merge` | component, with the states of `BlobFileState` |
| `BlobFileSet` | manifest, edits, column families, purge, recovery | component |
| `FileSet` | what `BlobFileSet` promises | abstract specification |
| `HashKV` | HashKV's buffer, segments, collection, logs and recovery | component |
| `Scheduling_proofs`, `BlobAccounting_proofs`, `BlobFileSet_proofs`, `HashKV_proofs`, `HashKV_fronts`, `HashKV_contents`, `TitanDB_proofs`, `TitanDB_readable` | - | theorems |
| `MCTitanDB`, `MCWriteBlocking`, `MCBlobFileSet`, `MCBlobAccounting`, `MCHashKV` | - | symmetry and constants for TLC |

**`TitanDB`.** The base database is a sequence of entries, one per sequence number: an
inline value or deletion, a large value not separated yet, or a blob index. A blob file is
the set of its records; `meta` is `files_` with each file's state; `buffered` are the
records that only the builder's buffer holds. An action is what one thread does between
two points where another can run. `Put` with `sep_before_flush` is two actions (`PutAdd`,
`PutWrite`), the flush five, a GC job one per record, per rewrite and per phase, the purge
three (`PurgeReadOldest`, `PurgeCollect`, `PurgeDelete`). A crash and the `Open` after it
is one action, since `BlobFileSet` has the steps between. Constants select the mode:
`SepBeforeFlush = FALSE` is Titan; with `TRUE`, `levelMerge`, a variable that never
changes and starts in `LevelMerges`, is `FALSE` for WiscKey mode and `TRUE` for DiffKV mode. Sizes, scores, sampling and thresholds are
choices: any set of eligible files may be picked and any record may end a file. History
variables (`lastWrite`, `lateSnap`, `abandoned`, the field `late`) are read by properties
only.

**`GCScheduler`.** Threads of a kind are interchangeable, so the state counts the threads
at each program point. `SignalWorkers` and `SignalOthers` move all waiters of `bg_cv_` to
the check of their condition, which they make again under `mutex_`.

**`WriteBlocking`** extends `GCScheduler` by the writers inside `Put`, counted by program
point: about to test `block_for_size_`, about to lock `size_mutex_`, holding it with the
flag seen up, asleep on `size_cv_`. The test under the lock and the `Wait` are two steps,
so that a signal sent without the lock can fall between them. `OnCompactionCompleted`
(holds `mutex_` only) raises and lowers the flag, `BackgroundGC` and `CloseImpl` (hold
both) lower it. `Put` calls `AddToGCQueue` and `MaybeScheduleGC` without `mutex_`:
`BlockingSpec` makes that call one step, `UnlockedSpec` adds the same call in two.

**`BlobAccounting`.** The base database makes and removes SSTs; each has the number of
bytes of each blob file that it refers to. `OnFlushCompleted` and `OnCompactionCompleted`
are separate steps that come later, in any order. `discardable_size_` is a number modulo
`Word`, since the second flush of a file adds a negative number to an unsigned one. A
record is one unit; header and footer are `HeaderSize` units. Whether key ranges overlap
(`MarkFileIfNeedMerge`) is a choice. `obsolete` is `obsolete_files_`: the purge goes by that
list, whatever state a late callback has given the file since. `DeleteFilesInRanges` reads
the properties of some of the SSTs it deletes only (`read`): the test at `db_impl.cc:801`
asks for the level whose number is the index of the range.

**`BlobFileSet`.** A manifest is what `EditCollector::AddEdit` makes of its records: files
added and deleted per column family, the next file number and the collector's status.
`possible` is the set of manifests a crash may leave; it has more than one member after a
sync that failed. Every operation of the class and of its callers is an action;
`RecoverRead`, `RecoverManifest` and `RecoverPurge` are separate, so that a crash can come
between them. `DropBase` and `DropColumnFamily` are the two halves of a drop. `gc` is the set of
running GC jobs, at most `MaxGC` (`max_background_gc`), each with a column family and inputs
that no other job has.

**`FileSet`** has two steps: files join a column family under numbers never used before,
and files leave it. A crash is not a step of it: `PromiseKept` says that crashes and
recoveries are invisible.

**`HashKV`.** One client, whose thread is at `pc`: `idle`, `flush`, the four writes of a
commit (`log`, `keys`, `meta`, `ack`), and `gc`, `rewrite`, `gcdata` inside a collection.
Each write to disk or to a log and each batch of the LSM-tree is a step of its own and the
process may end before it. The entries that `logMetaPersist` writes one by one are one step
(`LogMetaPersist`): the update log names all of them and is still there, and `Recover` writes
them again. `disk` has the records of each segment with offset and size: a write
destroys what it overlaps. `meta` is `_metaMap` with the bitmap and the count of free log
segments, `groupMeta` and `segMeta` are what the LSM-tree has of it. `heap` is
`_minWriteBackRatio`, by which `gcGreedy` chooses: for each group the front that its ratio was
computed from, which need not be the group's front now. `update` moves an entry only up, so
once a ratio has risen in place `ordered` is false and any entry may come first; entries of
ratio `DBL_MAX` are dropped when they are met (`Dropped`). `Put` takes what `putValue` accepts
(`Accepted`: the value without key and length is smaller than a main segment), which need
not fit a log segment. With `KeyFaults` the LSM-tree may refuse a batch of keys
(`WriteKeyBatchFails`); the code only reports it. `Recover` reads the
metadata, then the update log, then the GC log, as the constructors do, in one step. A
group is in `torn` when the process ended in one of the three windows in which that
recovery does not work, or when the collection of such a group had records of its keys
(`Revived`, section 3), and when its keys were refused; `exposed` is the group that is inside
the second of the windows; `unranked` are the groups whose ratio a recovery left old. The
configuration is that of the sample file with crash protection on: one buffer
(`numPipelinedBuffer` is 1 in the code), `greedyGCSize` 1, in-place updates.

## 3. Runs

All runs set `CHECK_DEADLOCK FALSE`: with the bounds used up, and after a close, the
system may stop.

| Run | Question | States |
|---|---|---|
| `titan_jobs` | two GC jobs and a crash, values separated at flush: are newest values readable, do jobs keep apart? | 235 286 |
| `titan_snapshot` | one reader with a snapshot: does what it sees survive, and are obsolete files deleted in the end? | 145 792 |
| `foreground` | foreground separation in WiscKey and DiffKV mode, with large values that reach the memtable unseparated (`Write`): GC through the builder or with its own outputs, failing puts and outputs, changing scores | 723 274 |
| `scheduler` | requests, GC threads, droppers, blocked writers and a close | 127 000 |
| `file_set` | two column families, drops, two GC jobs, purge, two crashes | 69 287 |
| `file_set_faults` | the same with failing manifest writes, range deletes and level merges | 179 783 |
| `accounting` | flushes, compactions and their delayed callbacks: are discardable sizes right, is what is deleted dead and what is dead deleted? | 87 987 |
| `hashkv` | two groups, flushes, collections and a crash at any step: do reads return the last put, do flushed values survive, who owns which segment, does a collection find its group, does the damage of a refused key batch stay in its groups? | 3.7 M |

Disagreements with what the code's own comments say, each a run TLC ends with a
counterexample:

| Run | Says | Does |
|---|---|---|
| `lost_update` | `blob_gc_job.cc:276`: a `WriteCallback` checks the sequence on write | the write at 591 has none: GC's copy of an old value becomes the newest version |
| `snapshot_purge` | `blob_storage.cc:400`: the file is not visible to all existing snapshots | the oldest snapshot is read before `mutex_` (`db_impl_files.cc:10`) |
| `close_race` | `db_impl.cc:360`: `shuting_down_` is set under `mutex_`, lest a thread that has seen it down schedules after the close has unscheduled all | a writer blocked for size calls `MaybeScheduleGC` without `mutex_` (`db_impl.cc:569`) and does just that |
| `range_delete` | `db_impl.cc:1377`: delete blob files which have no live data | `DeleteFilesInRanges` counts the same bytes twice (`db_impl.cc:921`, `edit_collector.h:211`), so a compaction deletes a file that an SST refers to |

Other behaviours that the models show when a constant of a run is changed; each is why a
property above has the exception it has, or why a run keeps a switch off:

- `WalLoss = TRUE` with one job and a crash violates `LatestReadable`:
  `RewriteValidKeyToLSM` does not sync the WAL before the inputs are deleted (the code at
  `blob_gc_job.cc:613` that did is commented out).
- `GCFaults = TRUE` with values separated at flush violates `LatestReadable`:
  `InstallOutputBlobFiles` replaces the failure of a builder by the status of the cleanup
  (`blob_gc_job.cc:569`); the records are in `abandoned`. In WiscKey mode the same holds
  for a record that could not be put back (`blob_gc_job.cc:335`).
- With `sep_before_flush` `FinishBlob` makes a file `kNormal` before the last `Put` into it
  has written its index (`table_builder.cc:429`), so GC may discard the record; the entries
  are the `late` ones. `LatestReadable` fails because a record in the builder's buffer
  cannot be read (`table_builder.h:157`), and after a crash because `Recover` deletes a
  file that was being built although the WAL's indexes name it (`blob_file_set.cc:133`).
- A drop that the base database refuses leaves `drop_cf_requests_` counted
  (`db_impl.cc:474`) and every later GC thread waits: `WaiterServed` has that exception.
- `ManifestFaults = TRUE` violates `Recoverable`: after a failed sync the record is in the
  manifest and not in memory, a second deletion of the same file is logged, and `Recover`
  rejects it (`blob_file_set.cc:227`).
- `RangeDeletes = TRUE` violates `Recoverable`: `DeleteBlobFilesInRanges` takes inputs of a
  running GC job (`blob_file_set.cc:299`); once the storage is gone the job's deletion is
  logged too. `LevelMerge = TRUE` does so when the default family's handle is destroyed:
  the edit of a level merge has no column family id and names the default one
  (`db_impl.cc:1335`), so files of another family are never deleted.
- A compaction callback that runs before the callback that reports its inputs
  (`disordered`) leaves wrong discardable sizes: a dead file may then never be deleted.
  No file with live data is deleted even so: `DeadWhenDeleted` has no such exception.
- The second `OnFlushCompleted` of a file adds a number that wraps (`db_impl.cc:1228`). The
  sum is right, but the assertion at `blob_format.cc:254` fails in a debug build.
- A wakeup of `OnCompactionCompleted` can be lost (`missed`), since it signals without
  `size_mutex_`; the writer then sleeps until the next one or the close.
- HashKV loses data of a group (`torn`) when the process ends (a) after the GC log is
  complete: `restoreFromGCLog` writes the segments of an empty map and no keys
  (`valueManager.cc:1321`); (b) between the commit at an overflow and the next persistence
  of the group: log and metadata have the front from before the flush
  (`valueManager.cc:784`); (c) before the first commit of a group was acknowledged: its
  front is set before the group exists (`valueManager.cc:1241`).
- Such a group can spoil others. After (a) its segments may hold records from before it
  owned them, of keys of another group. `gcKvPair` does not ask whether a key belongs to
  the group it scans (`gcManager.cc:617`), so the collection of the lost group writes the
  old records again and the LSM-tree gets their new locations. `Revived` adds the groups of
  those keys to `torn`. The attempt to prove `ReadsLatest` found this; the shortest run of
  it that is known has 188 steps, two crashes and three groups.
- After a refused key batch (`valueManager.cc:792`) the log is acknowledged, the buffer is
  emptied and the fronts are persisted: the values of the batch are lost, and after a
  collection so are the old ones. `WriteKeyBatchFails` puts their groups into `torn`.
- A recovery from a log sets the write front of a group, and with it the ratio in the heap,
  before the flush front that the ratio is computed from (`valueManager.cc:1241`, `:1345`).
  Until the group is flushed again `gcGreedy` goes by its old ratio: a group that the log
  took past its main segment has `DBL_MAX`, a flush that runs short of log segments drops
  it, and `assert(!gcGroups.empty())` (`gcManager.cc:83`) fails, or the loop at
  `valueManager.cc:818` goes on for ever without assertions. Without `unranked = {}`
  `VictimFound` fails in the run `hashkv`.
- That loop need not end either when a group is found. The ratio takes all beyond the main
  segment for garbage; a group whose records are all live can have the least ratio, its
  collection gives nothing back, and it is chosen again although another group has
  garbage. `pc = "gc" ~> pc = "flush"` fails, under weak fairness of `Next`, with four log
  segments, a group of two keys of size 4 and one key of sizes 3 and 4 in another, a buffer of 7
  and no fault.
- The reserve of `MIN_FREE_SEGMENTS` suffices for a rewrite only if a main segment is not
  much larger than a log segment; in the sample files it is 128 times as large. With a main
  segment of 10, log segments of 4 and six keys of sizes 3 and 4 in one group `RewriteRecord`
  finds no segment: the process exits in the middle of the collection
  (`valueManager.cc:865`, the assertion at `segmentGroupManager.cc:117`).
- `putValue` says that a value larger than the segment size is not supported
  (`kvServer.cc:59`), and tests the value, without key and length, against the main segment
  only. With a main segment of 6 and log segments of 2 `TypeOK` fails: a record is written
  past the end of a log segment.
- `_gc.mode` is `LOG_ONLY`, but the ratio for a whole group never exceeds the ratio for
  its log, so `GetGCMode` is always `ALL` and the rest of `LOG_ONLY` is dead code.

### Properties

- `LatestReadable`, `SettledReadable`, `SnapshotReadable`, `TimelySnapshotReadable`
  (`TitanDB`): an index that a read would follow leads to a record that can be read. The
  first is the plain statement, the others say it of the versions outside the windows
  above, or of those a snapshot sees.
- `NoLostUpdate`: the newest version is the last one a user wrote.
- `EventsExpected`: the assertions of `FileStateTransit` will hold for every event that a
  running job is going to send. `GCScoreLive`: the picker can dereference what it picks.
- `ObsoleteReclaimed` (liveness): once no snapshot is held, obsolete files are deleted.
- `CountersExact`, `QueueCoversTasks`, `DropExcludesGC`, `CloseQuiesces`, `NoIdleSlot` and
  the liveness properties `DropEnds`, `CloseEnds`, `WaiterServed` (`GCScheduler`), checked
  in the composition with `WriteBlocking`, which adds `SleepersBlocked` (no wakeup sent
  under `size_mutex_` is lost) and `CloseFreesWriters` (liveness).
- `Recoverable`, `ManifestFilesExist`, `MemoryMatchesManifest`, `GCInputsLive`,
  `PromiseKept` (`BlobFileSet`).
- `AccountingExact`, `DeadWhenDeleted`, `DeadIsDeleted` (`BlobAccounting`): the sizes that
  callbacks add up agree with the SSTs, and deletion on their strength is safe and
  complete.
- `ReadsLatest`, `FlushedSurvives`, `SegmentsExclusive`, `FrontsAgree` (`HashKV`);
  `RatiosCurrent` (the cached ratio is that of the front) and `VictimFound` (a collection
  finds a group), with the exception of ratios that a recovery left old. The type invariant
  also says that no record reaches past the end of its segment.

### Bounds

- `TitanDB`: one or two keys suffice because no action relates two keys except through a
  shared file, and files with two records arise with one key and two values. `MaxFile`
  counts the manifest: with 4, a flush, a GC and a second GC or a crash each get a number.
  `MaxSeq` exceeds `MaxVal` so that GC can rewrite. Two jobs are needed for
  `EventsExpected`; one is enough where foreground threads are the other actor.
- `GCScheduler`, `WriteBlocking`: two slots, four requests and two drops fill the slots,
  leave requests waiting for a slot, and let two droppers overlap. With two writers one
  can sleep while the other is in the window. The theorems remove the bounds.
- `BlobFileSet`: two column families (the default one cannot be dropped), two crashes so
  that one can hit a recovery, and two GC jobs at once. `MaxFile = 4` without faults, 3 with
  them.
- `BlobAccounting`: two blob files, so that a compaction moves records from one to a new
  one; three SSTs, so that compactions have two inputs or two outputs and overlap with a
  flush; two records, so that a file can be partly dead. `Word` only has to exceed every
  sum; `range_delete` uses one file of three records.
- `HashKV`: group 0 has three keys whose live records exceed a main segment, so its
  rewrite needs log segments; group 1 competes for them. With three log segments and
  a reserve of two, flushes overflow, collect the current group or the other one, and
  rewrites dip into the reserve. Five puts allow a flush, a second one that overflows, and
  a third after a collection or a recovery. One fault is allowed, a crash or a refused batch.
  Every accepted record fits a segment; the theorems have that as a hypothesis.

Symmetry is used over keys and jobs in the safety runs of `TitanDB` only: the
specification treats them alike.

### Fairness

- `WriteBlocking` (`BlockingFairness`): weak fairness of each thread's next step. The
  thread pool runs its tasks, `mutex_` and `size_mutex_` are granted to who asks, a GC job
  and a base drop return, a writer in `Put` that is not asleep goes on. A thread in `Wait`
  has no step of its own. Nothing forces a request, a drop, a close, a put or a compaction,
  nor the total size to shrink.
- `TitanDB`: weak fairness of the purge steps only, since `thread_purge_obsolete_` repeats
  them periodically. `ObsoleteReclaimed` assumes in its statement that snapshots are
  released in the end.

## 4. Proofs

All proofs hold for every value of the constants that satisfies the module's assumptions
(`SchedulerAssumption`; `AccountingAssumption`; `FileSetAssumption`: the default column family is one of the
families and there is at least one file number; `HashKVAssumption`: sizes are positive and
every record fits the buffer, and `GCBufferAssumption`: the live records of a group fit the
buffer for collection; `BoundsAssumption` and `SwitchesAssumption` of `TitanDB`, which
only say that bounds are numbers and switches Booleans). Of `HashKV` all but `SegmentsHaveOneOwner`,
`AlwaysRestorable` and `LogOnlyNeverChosen` also have the hypothesis `RecordsFit`: `LogSize <=
MainSize`, and every record that `putValue` accepts fits a log segment. The code does not see to
it (section 3), so it stands in the theorems, where a user of the store must answer for
it: with the sample files it says that values are smaller than 8 KB. Each is an induction on the steps, with one
lemma per action, and each inductive invariant was first checked by TLC on the bounds of the
runs above.

**`Scheduling_proofs`**, of `GCScheduler`, proves `TypeCorrect`, `CountersAreExact`, `QueueNeverShort`,
`DropAndGCExclusive`, `ClosedIsQuiet` and `SlotsUsed` for any `max_background_gc` and any number of
requests and drops. `Inv` adds two facts to the properties. `DropsCounted`: a dropper
that has passed its wait still counts in `drop_cf_requests_`, so a GC thread that wakes up
sees it; without it a GC job could start during a drop. `CloseOrder`: from
`UnSchedule` on the pool is empty, and what was taken out is subtracted before the wait;
without it `bg_gc_scheduled_ = 0` would not mean that no task is left.
`GrantedBounds` says what `MaybeScheduleGC` may hand out. `SlotsUsed` (no request waits
while a slot is free and the database is open) needs that every place that frees a slot
or adds a request calls `MaybeScheduleGC` in the same critical section.

Of `WriteBlocking`: `BlockingImplementsScheduler` shows that each step of the
composition is a step of `GCScheduler` or leaves it alone, so `SchedulerKept` carries the
theorems over to it. `BlockingTypeCorrect` and `NoWakeupLostUnderLock` hold for any number
of writers. `BlockingInv` adds that at most one writer holds `size_mutex_`: without it
lowering the flag under the lock could still pass a writer between its test and its `Wait`.

**`BlobAccounting_proofs`** proves `TypeCorrect`, `AccountingStaysExact`, `OnlyDeadDeleted` and
`GarbageDeleted` for any number of blob files, SSTs and records (`AccountingAssumption`: the
word is larger than twice a file with its header, and SSTs are finitely many). The model's
sum over SSTs, `SumOver`, is the size of a disjoint union, so that the laws of sums
(`SumUnion`, `RefRemove`, `OutstandingAdd`) follow from those of `Cardinality` instead of an
induction over sets. `Inv` accounts for every byte of a file: in the current SSTs
(`InSsts`), dropped by a compaction that has not been reported (`Unreported`), in the
memtable, or without an index; all of it is at most the file (`Budget`). `Listed`: what is in `obsolete_files_`, whatever its state, is a dead file, so a
purge takes away nothing that is counted. `Origin`: a sorted
file comes whole with one SST, an unsorted one only with flushes. The deletion is safe in any
order of callbacks because of `Reported`: the count of a sorted file is some `e` that
with `InSsts` and `Unreported` does not exceed the file, or, once a flush has been reported
after one of its compactions, that number minus the size of the file modulo the word; in
the second form it equals the file's size only when `e` does, since the word is larger
than two files. With callbacks in order `Ordered` says that every SST with bytes of a file
of which nothing has been reported is itself still to be reported, and `Exact` gives the
count: `data - InSsts - Unreported` for a sorted file, and the same plus what outstanding
flush callbacks are to subtract for an unsorted one. `OnFlushCompleted` tells a first report
from a later one by `discardable_size_ = 0`; the proof shows that this count is never 0 at
a later report.

**`BlobFileSet_proofs`** proves `TypeCorrect` and `FilesOfManifestExist` for any column
families, files and crashes, with or without failing manifest writes, range deletes and
level merges. `ManifestFilesExist` is not inductive: a purge must know that nothing still
names the file. `Inv` adds, for every manifest that a crash may leave: file numbers
lie below its next file number and no file has two families (`LogNumbers`); a file being
built is in no manifest (`PendingUnlogged`); what is live was logged
(`LiveLogged`); what is obsolete or being purged is in no manifest and not being built
(`ObsoleteRetired`); and what each stage of a recovery has established
(`RecoveryProgress`). `LogAndApply` marks files obsolete only after the sync, which is why
`ObsoleteRetired` survives a failed write: it is the argument of `EditInv`.

The second half of the module assumes `Quiet`: no failing manifest write, no
`DeleteFilesInRanges`, no level merge; section 3 says what each of them breaks. From `Inv` and `QuietInv` it proves
`ManifestRecoverable`, `MemoryIsManifest`, `InputsStayLive` and
`ManifestImplementsFileSet`, the refinement of `FileSet`. `QuietInv` says that the log
is consistent with memory (`LogConsistent`), that an unused column family id has no
files (`IdsFresh`, needed because `CreateColumnFamily` starts with an empty storage),
that GC jobs have no input in common and exclude a drop (`JobsExclusive`, what keeps the
inputs in the manifest until their job deletes them) and that numbers are not given twice
(`NumbersUsed`). Each action's lemma proves the invariant and the abstract step
together: `BatchFinishFiles` is `Add`, the end of a GC job and the base drop of a family are
`Remove`, everything else, crashes and recoveries included, is a stutter.

**`HashKV_proofs`** proves `SegmentsHaveOneOwner` (`SegmentsExclusive`) and
`AlwaysRestorable` for any number of groups, segments, records and crashes. That memory is
consistent (`Own`) says nothing of a recovery, which starts from the LSM-tree and one
of two logs. `IInv` therefore ties what is durable to what is in memory. `Behind`: what is
persisted of a group it still has, except for the group being collected, whose segments
went back to the bitmap and which alone takes segments until its new list is persisted.
`Phases`: which log is there at each step, and that it says what memory says. From the two
follows `Restorable` (`RunningRestorable`): the persisted lists are exclusive and the log
that is there gives no group a segment that another group has; from `Restorable` the result
of `setGroupSegments` on the groups of the log does not depend on their order
(`RestoreGroupsOwn`), which is where two groups with one segment would leave a wrong bit.
`LogOnlyNeverChosen` is arithmetic: the mode that the code configures is never the better
one, and `GCOneGroup` needs no second branch. The second half proves `TypeCorrect`. That no
record reaches past its segment does not follow from the test at the placement alone: the
front of a group is computed from `front - MainSize` modulo `LogSize`, so it must lie
within the listed segments. `Bounds` says that of memory, of the persisted entries, of the
two logs and of what a flush and a collection hold (`MemoryFits`, `DurableFits`,
`OnDisk`, `Records`); `PlaceCases` is the arithmetic of a placement: a record goes to
the main segment, to the rest of the last log segment, or to the start of a new one.

**`HashKV_fronts`** proves `FrontsAlwaysAgree` (`FrontsAgree`). The three accounts
agree only between operations, and `FrontsAgree` says nothing of the steps in between. `FInv`
does. `MemoryAligned`: a group's front is where its last segment ends; during a flush and a
collection that front is `curFront`, which `meta` does not have yet. `Ends`: the batch
names each segment it filled, up to its end; recovery computes the ends of segments from
the keys of the log and from nothing else. `Untouched` and `Unmodified`: a segment or a
group that the batch does not name is as it was persisted. `DurableAligned`: what is
persisted is aligned too, except for a group in `exposed`, whose metadata was persisted
with an old front. `Course`: at which steps there is a batch and a group can be exposed.
From these a crash leaves `Recoverable` (`CrashRecoverable`): for every group of the
log, its front there is where the persisted ends, overwritten by those of the logged
keys, say its last segment ends. `RecoverAgree` shows that `Recover` makes of that three equal
accounts. `torn` is the hypothesis: a group is in it only when the process ended in one of
the windows of section 3 or when it was spoiled by such a group, and those groups are the
ones `FInv` leaves out. The end of the module is about the
heap. `Ranked`, a stronger form of `RatiosCurrent`, says at every step that the ratio of a
group in the heap is that of its published front, except for groups in `unranked`. It needs
that a group whose records a flush has placed has a front other than 0, for which no ratio
would be computed, and that the entry of a group being collected is `DBL_MAX`, that of an
empty group; `RatiosStayCurrent` follows. `VictimAlwaysFound`
(`VictimFound`) holds when there are more log segments than the reserve, as in every
configuration of the code; with none to spare the first overflow finds no group. `Short`
says that log segments are missing from the overflow to the choice of the group; then some
group owns one, its front, published by then, lies past its main segment
(`MemoryAligned`), so by `Ranked` its entry is not `DBL_MAX`, and of the entries that are
not `DBL_MAX` one is least, or any is taken if the heap has lost its order. That the group has garbage does not follow, and need not be
so (section 3).

**`HashKV_contents`** proves `ReadsAlwaysLatest` (`ReadsLatest`) and `FlushedAlwaysSurvives`
(`FlushedSurvives`) for any number of groups, segments, records and crashes, of the groups
not in `torn`. That a read finds the last value says nothing of what a collection will
keep, nor of what a crash leaves. `CInv`, on top of `FInv`, says where the records are.
`Indexed` is the fact about one group: the record of each key is where the index says and
below the front of its segment (`Found`), and below the fronts there are only records of
the group, side by side, none scanned after the one that the index locates (`Clean`); so
the scan of a collection, in which the last record of a key wins, keeps exactly the
values that reads return (`KeptLatest`). `MemoryIndexed` says it of memory at every step,
with `Image`, the disk and what a collection has placed and not yet written, and
`Where`, the LSM-tree and the batch; keys whose records are in the hands of a collection
(`Moving`) are `Survive`'s. `PoolNewest`: the buffer is newer than the segments and a flush
takes a group's records in order. `Values` says what reads of `Image` return. The same of
what is durable: `Behindhand` (a flush writes behind the persisted fronts, so it disturbs
no committed record), `DurableIndexed` and `DurableValues`, with the exception of
`Committing`: between the write of the keys and that of the metadata the log covers a
flushed group, and while the collected group is written over nothing does, which is the
window that puts it into `torn`. From these a crash leaves `RecoverableContents`
(`CrashContents`), and `RecoverContents` shows that `Recover`, whichever log it reads,
gives back an `Indexed` memory; it needs of `HashKV_fronts` not only that the recovered
fronts agree but that the groups of the log are taken as logged (`Taken`).

**`TitanDB_proofs`** holds in every mode, with any failing builder and any crash. Neither
`GCScoreLive` nor `EventsExpected` is inductive: a step of one thread keeps them only if
no other thread has the same file. `FileInv` says so. `Owners`: a file that `files_` does
not have yet belongs to one of foreground builder, flush and GC job, and to nobody whose
file the purge thread is about to delete. `Numbers`: every number in use lies below the
next one, and what is in `files_` below the one in the manifest, so a crash that goes
back to that number gives none of them out again. `Inputs`: the inputs of a job are
`kBeingGC` and in no other job until it releases them. `States`: the states a file can
be in, and one obsolete entry per file. `JobPhases`, `FlushPhases` and `EntryFiles` tie
program counters, queues and the files that indexes name to these. From it follow
`TypeCorrect`, `EventsAsserted` and `ScoreListLive`.

**`TitanDB_readable`** proves that what is written can be read. `DataInv` adds to
`FileInv`: the newest version of a key is stored where its index says, in a file in use
(`NewestStored`), and no job forgets such a version in one of its inputs (`Covered`): it has
still to scan it, has it in its queue of rewrites, or has handed it to the builder. When
a job ends it has none of these left, so its inputs hold no newest version and may become
obsolete; that is the argument of `GCFinishData`. `QueueStored`, `FlushStored` and
`HeldStored` say that a record is in its new file before an index names it. A later write
to the key only makes a version not the newest, which is why `Covered` survives the races
of `RewriteValidKeyToLSM` with writers, the one of `lost_update` included: the value it
brings back is an old one, but it can be read. `SettledVersionsReadable` follows under
`CrashesKeepWrites`: no crash, or values separated at flush and a base log that keeps
what was written. `LatestVersionsReadable` and `TimelySnapshotsReadable` assume
`SeparatedAtFlush`: besides, no builder fails. Section 3 shows that each part of the two
hypotheses is needed (`WalLoss`, `GCFaults`, the files being built that `Recover` deletes,
the `late` indexes), and the runs `titan_jobs`, `titan_snapshot` and `foreground` lie
within them. For snapshots `SnapInv` has `AllReliable` (no index is late, none given up),
`PurgeBound` (the sequence that the purge thread holds is not above a snapshot that is
not in `lateSnap`) and `SnapshotStored`: what a snapshot sees is in a live file or in one
whose obsolete sequence is at least the snapshot's, which `PurgeCollect` leaves alone.
`DeleteInputBlobFiles` reads that sequence after the job's rewrites, so it is not below
any snapshot that still sees an old index.

Left to TLC: liveness, `ObsoleteReclaimed` included, which is out of the prover's reach, and
the counterexamples.

## 5. Not modelled

- DiffKV: the merge of sorted files by key range (`range_merge`, `MarkFileIfNeedMerge`:
  which files overlap is a choice; its comparison of file ends at `db_impl.cc:977` is not
  an order for two files with the same single key); the two steps of `BlobStorage::Get`
  (finished files, then building files); a second flush of a column family, and a second
  foreground builder, at the same time (`SealMemTable` waits for the flush before it; the
  builders of one family have separate files and share nothing but the file numbers); the status of `BatchFinishFiles`, which
  the builder ignores when a memtable is sealed (`table_builder.cc:349`): in `TitanDB` a
  manifest write does not fail, `BlobFileSet` has its failures; a compaction between the two halves of
  `DeleteFilesInRanges`, which the code concedes; the discardable sizes after a restart,
  which are not persisted; scores, sampling, statistics, formats, caches, option parsing,
  `TitanDBIterator`.
- HashKV: deletes (the flush asserts that there are none, `valueManager.cc:769`), values
  kept in the LSM-tree (a key that moves between the two lets GC bring back an old value),
  range scans, vlog mode, cold storage, the pipelined flush (dead code with one buffer),
  readers during a flush or a collection (the lock at `valueManager.cc:662` is released at
  once), `forceSync` (null `oldLocations` under crash protection), groups whose live
  records exceed the buffer for collection, a crash inside `Recover`, which is one step. What
  a record that does not fit its segment does to its neighbour.
- HashKV-old, an earlier copy, and the third-party stores.

## 6. State of the plan

Done: `BlobFileState`, `TitanDB`, `GCScheduler`, `WriteBlocking`, `BlobFileSet`, `FileSet`,
`BlobAccounting`, `HashKV`, with the proofs of section 4. Left, in this order:

1. `MarkFileIfNeedMerge` against a reference definition of overlapping sorted runs.
2. A reader of two steps in `TitanDB` for the race of `BlobStorage::Get`.
3. An abstract store that `TitanDB` and `HashKV` implement.
