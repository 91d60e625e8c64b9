------------------------------- MODULE HashKV -------------------------------
(***************************************************************************)
(* HashKV's value storage: the write buffer (_centralizedReservedPool),    *)
(* its flush into the segments of hash groups, garbage collection of one   *)
(* group when log segments run short, and the consistency logs from which  *)
(* the store recovers after a crash (hashkv/src: kvServer.cc,              *)
(* valueManager.cc, gcManager.cc, segmentGroupManager.cc, logManager.cc).  *)
(*                                                                         *)
(* The configuration is that of the code and of its sample file, with      *)
(* crash protection: one buffer, greedyGCSize = 1, in-place updates, no    *)
(* cold storage, all values in segments.  One client.  A group is named    *)
(* by its main segment; log segments follow the main ones.  A crash is the *)
(* end of the process at any step: what was written stays written.         *)
(***************************************************************************)
EXTENDS Integers, Sequences, FiniteSets, SequencesExt

CONSTANTS
  Key,
  Hash,          \* the main segment of each key
  Sizes,         \* the sizes a record of each key may have
  NumMain,       \* numMainSegment
  NumLog,        \* numLogSegment
  MainSize,      \* mainSegmentSize
  LogSize,       \* logSegmentSize
  PoolSize,      \* updateKVBufferSize
  Overhead,      \* KEY_SIZE + sizeof(len_t), what a record has besides the value
  MinFree,       \* MIN_FREE_SEGMENTS
  InPlaceUpdate, \* inPlaceUpdate
  KeyFaults,     \* whether the LSM-tree may refuse a batch of keys
  MaxPuts,       \* bound: values written
  MaxFaults      \* bound: crashes and refused batches

Group   == 0..(NumMain - 1)
LogSeg  == NumMain..(NumMain + NumLog - 1)
Segment == Group \cup LogSeg

ASSUME HashKVAssumption ==
  /\ NumMain \in Nat \ {0} /\ NumLog \in Nat /\ MinFree \in Nat
  /\ MainSize \in Nat \ {0} /\ LogSize \in Nat \ {0}
  /\ PoolSize \in Nat /\ PoolSize >= LogSize /\ Overhead \in Nat
  /\ Hash \in [Key -> Group]
  /\ \A k \in Key : \A s \in Sizes[k] : s \in Nat \ {0} /\ s <= PoolSize
  /\ InPlaceUpdate \in BOOLEAN /\ KeyFaults \in BOOLEAN /\ MaxPuts \in Nat /\ MaxFaults \in Nat

\* the live records of a group fit into the buffer for garbage collection; a
\* group that is larger ends the process (oldLocations is null at valueManager.cc:981)
ASSUME GCBufferAssumption ==
  \A g \in Group :
    MapThenSumSet(LAMBDA k : Max(Sizes[k]), {k \in Key : Hash[k] = g}) <= 2 * MainSize

\* what putValue accepts (kvServer.cc) fits a segment.  Neither the code nor its
\* sample files see to it: this is a hypothesis of theorems, not an assumption
Accepted(size) == size - Overhead < MainSize

RecordsFit ==
  /\ LogSize <= MainSize
  /\ \A k \in Key : \A s \in Sizes[k] : Accepted(s) => s <= LogSize

None == -1

VARIABLES
  pool,      \* the buffered records
  pending,   \* the positions still in segmentsInPool
  meta,      \* _metaMap, _bitmap.segment and _freeLogSegment
  heap,      \* _minWriteBackRatio
  pc,        \* where the client's thread is
  cur,       \* the group a flush is at
  curFront,  \* its local flushFront
  curSize,   \* the size of the record for which log segments ran short
  batch,     \* keys and values, the locations to be written to the LSM-tree
  modified,  \* modifiedGroups
  touched,   \* modifiedSegments
  victim,    \* the group being collected
  survivors, \* its records in the buffer for collection, to be placed
  unwritten, \* those placed and not yet on disk
  \* durable
  disk,      \* the records in each segment
  lsm,       \* the location of each key
  groupMeta, \* the persisted front and segments of each group
  segMeta,   \* the persisted front of each segment
  updateLog, gcLog,
  \* history, read by properties only
  puts,      \* values written so far; each put writes the next number
  latest,    \* the value a read of the key should return
  flushed,   \* the newest value whose flush has ended
  exposed,   \* groups with records behind their persisted front
  torn,      \* groups whose recovery is known not to work, and those they spoil
  unranked,  \* groups whose front is from a log and whose ratio is not
  faults     \* crashes and refused batches

volatile == <<pool, pending, meta, heap, cur, curFront, curSize, batch, modified,
              touched, victim, survivors, unwritten>>
durable  == <<disk, lsm, groupMeta, segMeta, updateLog, gcLog>>
history  == <<puts, latest, flushed, exposed, torn, unranked, faults>>
vars     == <<volatile, durable, history, pc>>

Nowhere  == [seg |-> None, off |-> 0, size |-> 0]
NoLog    == [keys |-> <<>>, groups |-> <<>>]
NoGroup  == [front |-> 0, segs |-> <<>>]

----------------------------------------------------------------------------
(* SegmentGroupManager                                                     *)

NoMeta == [segs |-> [g \in Group |-> <<>>], front |-> [g \in Group |-> 0],
           segFront |-> [s \in Segment |-> 0], used |-> {}, free |-> NumLog]

LogSegments(m, g) == IF m.segs[g] = <<>> THEN <<>> ELSE Tail(m.segs[g])

\* the main segment of a group is allocated with its first put
GetNewMainSegment(m, g) ==
  IF m.segs[g] # <<>> THEN m ELSE [m EXCEPT !.segs[g] = <<g>>, !.front[g] = 0]

FirstFree(m) == CHOOSE s \in LogSeg \ m.used : \A t \in LogSeg \ m.used : s <= t

GetNewLogSegment(m, g) ==
  [m EXCEPT !.segs[g] = Append(@, FirstFree(m)), !.used = @ \cup {FirstFree(m)},
            !.free = @ - 1]

\* mutant: the bits stay set
ReleaseGroupKeepsBits(m, g) ==
  LET logs == ToSet(LogSegments(m, g)) IN
  [m EXCEPT !.segs[g] = <<g>>, !.front[g] = 0, !.free = @ + Cardinality(logs),
            !.segFront = [s \in Segment |-> IF s \in logs THEN 0 ELSE @[s]]]

\* all but the main segment are freed, and the group's fronts go to 0
ReleaseGroup(m, g) ==
  LET logs == ToSet(LogSegments(m, g)) IN
  [m EXCEPT !.segs[g] = <<g>>, !.front[g] = 0, !.used = @ \ logs,
            !.free = @ + Cardinality(logs),
            !.segFront = [s \in Segment |-> IF s \in logs THEN 0 ELSE @[s]]]

----------------------------------------------------------------------------
(* The heap of write-back ratios                                           *)

\* a ratio is <<n, d>>, and DBL_MAX when d = 0
MaxRatio == <<1, 0>>

RatioAll(f) == IF f > MainSize THEN <<MainSize, f - MainSize>> ELSE MaxRatio

RatioLogOnly(f) ==
  LET invalid == (2 * f - 3 * MainSize) \div 2 IN
  IF 2 * f > 3 * MainSize /\ invalid # 0 THEN <<f - MainSize, invalid>> ELSE MaxRatio

AtMost(r, q) ==
  \/ q[2] = 0
  \/ r[2] # 0 /\ r[1] * q[2] <= q[1] * r[2]

MinRatio(f) == IF AtMost(RatioAll(f), RatioLogOnly(f)) THEN RatioAll(f) ELSE RatioLogOnly(f)

\* for each group in the heap the front that its ratio was computed from; one
\* that is not there (None) counts as one of ratio DBL_MAX, which is skipped too.
\* update moves an entry up only, so one whose ratio rises ends the order
NoHeap == [front |-> [g \in Group |-> None], ordered |-> TRUE]

\* updateGroupWriteBackRatio, called by setGroupWriteFront unless the front is 0
Rank(g, f) ==
  IF f = 0 THEN heap
  ELSE [front   |-> [heap.front EXCEPT ![g] = f],
        ordered |-> heap.ordered /\ AtMost(MinRatio(f), MinRatio(heap.front[g]))]

----------------------------------------------------------------------------
(* Where a record goes                                                     *)

GetLastSegmentFront(f) ==
  IF f <= MainSize THEN f % MainSize
  ELSE IF (f - MainSize) % LogSize = 0 THEN LogSize ELSE (f - MainSize) % LogSize

OutOfReservedSpaceForObject(m, f, size) ==
  /\ ~ (f < MainSize /\ f + size <= MainSize)
  /\ m.free <= MinFree

\* mutant: only the start of the record is compared
FitsMainByStart(m, g, f, size) == LogSegments(m, g) = <<>> /\ f < MainSize

FitsMain(m, g, f, size) == LogSegments(m, g) = <<>> /\ f < MainSize /\ size + f <= MainSize

FitsLastLog(f, size) ==
  /\ f >= MainSize
  /\ GetLastSegmentFront(f) % LogSize # 0
  /\ size + GetLastSegmentFront(f) <= LogSize

NeedsSegment(m, g, f, size) == ~ FitsMain(m, g, f, size) /\ ~ FitsLastLog(f, size)

\* the bitmap has a segment when one is needed
CanPlace(m, g, f, size) == NeedsSegment(m, g, f, size) => LogSeg \ m.used # {}

\* the record's location, the group's front after it and the new metadata
Place(m, g, f, size) ==
  LET fresh == NeedsSegment(m, g, f, size)
      grown == IF fresh THEN GetNewLogSegment(m, g) ELSE m
      start == CASE ~ fresh -> f
                 [] fresh /\ f <= MainSize -> MainSize
                 [] OTHER -> f + (LogSize - GetLastSegmentFront(f))
      off   == IF fresh THEN 0 ELSE GetLastSegmentFront(f)
      seg   == Last(grown.segs[g])
  IN [loc   |-> [seg |-> seg, off |-> off, size |-> size],
      front |-> start + size,
      meta  |-> [grown EXCEPT !.segFront[seg] = off + size]]

\* writing a record destroys what it overlaps
Overlaps(r, loc) == r.off < loc.off + loc.size /\ loc.off < r.off + r.size

Store(segment, loc, r) ==
  {q \in segment : ~ Overlaps(q, loc)} \cup
  {[off |-> loc.off, size |-> r.size, key |-> r.key, val |-> r.val]}

----------------------------------------------------------------------------
(* Puts and reads                                                          *)

PoolUsed == FoldLeft(LAMBDA n, r : n + r.size, 0, pool)

InPool(k) == SelectLastInSeq(pool, LAMBDA r : r.key = k)

\* a key without a location has value 0; None: the record is not where the
\* location says
ReadDisk(d, k, loc) ==
  IF loc = Nowhere THEN 0
  ELSE LET hits == {r \in d[loc.seg] : r.off = loc.off /\ r.size = loc.size /\ r.key = k}
       IN IF hits = {} THEN None ELSE (CHOOSE r \in hits : TRUE).val

GetValue(k) == IF InPool(k) # 0 THEN pool[InPool(k)].val ELSE ReadDisk(disk, k, lsm[k])

UpdatesInPlace(k, size) == InPlaceUpdate /\ InPool(k) # 0 /\ pool[InPool(k)].size = size

PutInto(k, size) ==
  IF UpdatesInPlace(k, size)
  THEN /\ pool' = [pool EXCEPT ![InPool(k)].val = puts + 1]
       /\ UNCHANGED pending
  ELSE /\ pool' = Append(pool, [key |-> k, val |-> puts + 1, size |-> size])
       /\ pending' = pending \cup {Len(pool) + 1}

Put(k, size) ==
  /\ pc = "idle" /\ puts < MaxPuts /\ Accepted(size)
  /\ UpdatesInPlace(k, size) \/ PoolUsed + size <= PoolSize
  /\ PutInto(k, size)
  /\ puts' = puts + 1
  /\ latest' = [latest EXCEPT ![k] = puts + 1]
  /\ meta' = GetNewMainSegment(meta, Hash[k])
  /\ pc' = IF PoolUsed' >= PoolSize THEN "flush" ELSE "idle"
  /\ UNCHANGED <<heap, cur, curFront, curSize, batch, modified, touched, victim, survivors,
                 unwritten, durable, flushed, exposed, torn, unranked, faults>>

\* the put that found no room is retried when the flush has emptied the buffer
FlushBeforeWrite(k, size) ==
  /\ pc = "idle" /\ puts < MaxPuts /\ Accepted(size)
  /\ ~ UpdatesInPlace(k, size) /\ PoolUsed + size > PoolSize
  /\ meta' = GetNewMainSegment(meta, Hash[k])
  /\ pc' = "flush"
  /\ UNCHANGED <<pool, pending, heap, cur, curFront, curSize, batch, modified, touched,
                 victim, survivors, unwritten, durable, history>>

----------------------------------------------------------------------------
(* The flush of the buffer                                                 *)

PendingOf(g) == {i \in pending : Hash[pool[i].key] = g}

NextUpdate(g) == CHOOSE i \in PendingOf(g) : \A j \in PendingOf(g) : i <= j

PickGroup(g) ==
  /\ pc = "flush" /\ cur = None /\ PendingOf(g) # {}
  /\ cur' = g
  /\ curFront' = meta.front[g]
  /\ modified' = modified \cup {g}
  /\ UNCHANGED <<pool, pending, meta, heap, pc, curSize, batch, touched, victim, survivors,
                 unwritten, durable, history>>

FlushRecord ==
  /\ pc = "flush" /\ cur # None /\ PendingOf(cur) # {}
  /\ LET r == pool[NextUpdate(cur)]
         p == Place(meta, cur, curFront, r.size)
     IN /\ ~ OutOfReservedSpaceForObject(meta, curFront, r.size)
        /\ CanPlace(meta, cur, curFront, r.size)
        /\ meta' = p.meta /\ curFront' = p.front
        /\ disk' = [disk EXCEPT ![p.loc.seg] = Store(@, p.loc, r)]
        /\ batch' = Append(batch, [key |-> r.key, loc |-> p.loc])
        /\ touched' = touched \cup {p.loc.seg}
        /\ pending' = pending \ {NextUpdate(cur)}
  /\ UNCHANGED <<pool, heap, pc, cur, curSize, modified, victim, survivors, unwritten, lsm,
                 groupMeta, segMeta, updateLog, gcLog, history>>

\* mutant: the ratio stays the old one
LeaveGroupUnranked ==
  /\ pc = "flush" /\ cur # None /\ PendingOf(cur) = {}
  /\ meta' = [meta EXCEPT !.front[cur] = curFront]
  /\ unranked' = unranked \ {cur}
  /\ cur' = None
  /\ UNCHANGED <<pool, pending, heap, pc, curFront, curSize, batch, modified, touched, victim,
                 survivors, unwritten, durable, puts, latest, flushed, exposed, torn, faults>>

LeaveGroup ==
  /\ pc = "flush" /\ cur # None /\ PendingOf(cur) = {}
  /\ meta' = [meta EXCEPT !.front[cur] = curFront]
  /\ heap' = Rank(cur, curFront) /\ unranked' = unranked \ {cur}
  /\ cur' = None
  /\ UNCHANGED <<pool, pending, pc, curFront, curSize, batch, modified, touched, victim,
                 survivors, unwritten, durable, puts, latest, flushed, exposed, torn, faults>>

\* log segments run short: commit what is flushed, then collect garbage
ReservedOverflow ==
  /\ pc = "flush" /\ cur # None /\ PendingOf(cur) # {}
  /\ LET r == pool[NextUpdate(cur)] IN
       /\ OutOfReservedSpaceForObject(meta, curFront, r.size)
       /\ curSize' = r.size
  /\ pc' = "log"
  /\ UNCHANGED <<pool, pending, meta, heap, cur, curFront, batch, modified, touched, victim,
                 survivors, unwritten, durable, history>>

EndOfUpdates ==
  /\ pc = "flush" /\ cur = None /\ pending = {}
  /\ pc' = "log"
  /\ UNCHANGED <<volatile, durable, history>>

----------------------------------------------------------------------------
(* The commit of a batch: consistency log, LSM-tree, metadata, ack         *)

\* the fronts and segments of the modified groups, as _metaMap has them
GroupsOf(m, gs) == [g \in gs |-> [front |-> m.front[g], segs |-> m.segs[g]]]

\* groupMeta once the groups of gs are written to it
Persisted(m, gs) ==
  [g \in Group |-> IF g \in gs THEN GroupsOf(m, gs)[g] ELSE groupMeta[g]]

\* at an overflow the front of the current group is still the old one
Stale == IF cur # None /\ victim = None /\ meta.front[cur] # curFront THEN {cur} ELSE {}

SetBatchUpdateKeyValue ==
  /\ pc = "log"
  /\ updateLog' = IF batch = <<>> THEN NoLog
                  ELSE [keys |-> batch, groups |-> GroupsOf(meta, modified)]
  /\ exposed' = exposed \cup Stale
  /\ pc' = "keys"
  /\ UNCHANGED <<volatile, disk, lsm, groupMeta, segMeta, gcLog, puts, latest, flushed,
                 torn, unranked, faults>>

Located(index, keys) ==
  [k \in Key |-> LET i == SelectLastInSeq(keys, LAMBDA e : e.key = k)
                 IN IF i = 0 THEN index[k] ELSE keys[i].loc]

WriteKeyBatch ==
  /\ pc = "keys"
  /\ lsm' = Located(lsm, batch)
  /\ pc' = "meta"
  /\ UNCHANGED <<volatile, disk, groupMeta, segMeta, updateLog, gcLog, history>>

\* a failure is reported and nothing else: the log is acknowledged all the same
WriteKeyBatchFails ==
  /\ pc = "keys" /\ KeyFaults /\ batch # <<>>
  /\ faults < MaxFaults /\ faults' = faults + 1
  /\ torn' = torn \cup {Hash[batch[i].key] : i \in DOMAIN batch}
  /\ pc' = "meta"
  /\ UNCHANGED <<volatile, durable, puts, latest, flushed, exposed, unranked>>

\* mutant: groups are not persisted
LogMetaPersistSegments ==
  /\ pc = "meta"
  /\ segMeta' = [s \in Segment |-> IF s \in touched THEN meta.segFront[s] ELSE segMeta[s]]
  /\ exposed' = (exposed \ modified) \cup Stale
  /\ pc' = "ack"
  /\ UNCHANGED <<volatile, disk, lsm, groupMeta, updateLog, gcLog, puts, latest, flushed,
                 torn, unranked, faults>>

LogMetaPersist ==
  /\ pc = "meta"
  /\ groupMeta' = Persisted(meta, modified)
  /\ segMeta' = [s \in Segment |-> IF s \in touched THEN meta.segFront[s] ELSE segMeta[s]]
  /\ exposed' = (exposed \ modified) \cup Stale
  /\ pc' = "ack"
  /\ UNCHANGED <<volatile, disk, lsm, updateLog, gcLog, puts, latest, flushed, torn,
                 unranked, faults>>

ForgetBatch == batch' = <<>> /\ modified' = {} /\ touched' = {}

\* at the end of a flush
FinishFlush ==
  /\ pc = "ack" /\ victim = None /\ cur = None
  /\ updateLog' = NoLog
  /\ ForgetBatch
  /\ flushed' = [k \in Key |-> IF InPool(k) # 0 THEN latest[k] ELSE flushed[k]]
  /\ pool' = <<>>
  /\ pc' = "idle"
  /\ UNCHANGED <<pending, meta, heap, cur, curFront, curSize, victim, survivors, unwritten,
                 disk, lsm, groupMeta, segMeta, gcLog, puts, latest, exposed, torn, unranked,
                 faults>>

\* mutant: the front stays the old one
AckBeforeGCOldFront ==
  /\ pc = "ack" /\ victim = None /\ cur # None
  /\ updateLog' = NoLog
  /\ ForgetBatch
  /\ pc' = "gc"
  /\ UNCHANGED <<pool, pending, meta, heap, cur, curFront, curSize, victim, survivors,
                 unwritten, disk, lsm, groupMeta, segMeta, gcLog, history>>

\* at an overflow: the front becomes visible to garbage collection
AckBeforeGC ==
  /\ pc = "ack" /\ victim = None /\ cur # None
  /\ updateLog' = NoLog
  /\ ForgetBatch
  /\ meta' = [meta EXCEPT !.front[cur] = curFront]
  /\ heap' = Rank(cur, curFront) /\ unranked' = unranked \ {cur}
  /\ pc' = "gc"
  /\ UNCHANGED <<pool, pending, cur, curFront, curSize, victim, survivors, unwritten, disk, lsm,
                 groupMeta, segMeta, gcLog, puts, latest, flushed, exposed, torn, faults>>

----------------------------------------------------------------------------
(* Garbage collection                                                      *)

\* the configured mode is LOG_ONLY
GetGCMode(f) == IF AtMost(RatioAll(f), RatioLogOnly(f)) THEN "ALL" ELSE "LOG_ONLY"

\* gcGreedy takes an entry of least ratio, or any one once the order is lost
Greedy(g) ==
  /\ MinRatio(heap.front[g]) # MaxRatio
  /\ heap.ordered => \A h \in Group : AtMost(MinRatio(heap.front[g]), MinRatio(heap.front[h]))

\* the entries of ratio DBL_MAX that gcGreedy may have met and dropped before
Dropped ==
  IF heap.ordered THEN {{}}
  ELSE SUBSET {h \in Group : MinRatio(heap.front[h]) = MaxRatio}

\* none is left to take: the loop of the flush calls gcGreedy again and again,
\* unless its assertion ends the process
GCGreedyInVain ==
  /\ pc = "gc" /\ \A g \in Group : ~ Greedy(g)
  /\ heap' = NoHeap
  /\ UNCHANGED <<pool, pending, meta, pc, cur, curFront, curSize, batch, modified, touched,
                 victim, survivors, unwritten, durable, history>>

InSegment(s) == {r \in disk[s] : r.off < meta.segFront[s]}

Stripped(r) == [key |-> r.key, val |-> r.val, size |-> r.size]

\* everything of the group and its place in the scan: main segment, log
\* segments, then the buffer
Scan(g) ==
  (UNION {{[part |-> i, off |-> r.off, rec |-> Stripped(r)] : r \in InSegment(meta.segs[g][i])} :
          i \in DOMAIN meta.segs[g]}) \cup
  {[part |-> Len(meta.segs[g]) + 1, off |-> j, rec |-> pool[j]] : j \in PendingOf(g)}

ScannedAfter(a, b) == a.part > b.part \/ (a.part = b.part /\ a.off > b.off)

\* mutant: the first record scanned of each key
KeyCountFirst(scan) ==
  {a.rec : a \in {a \in scan :
                    \A b \in scan : ScannedAfter(a, b) => a.rec.key # b.rec.key}}

\* keyCount: the last record scanned of each key
KeyCount(scan) ==
  {a.rec : a \in {a \in scan :
                    \A b \in scan : ScannedAfter(b, a) => a.rec.key # b.rec.key}}

\* the scan of a group that is in torn may find old records of other groups, and
\* the rewrite makes them current
Revived(g, recs) == IF g \in torn THEN {Hash[r.key] : r \in recs} ELSE {}

\* gcOneGroup up to its flush: the scan, then the log segments are released
GCOneGroup(g) ==
  /\ pc = "gc" /\ Greedy(g) /\ GetGCMode(meta.front[g]) = "ALL"
  /\ survivors' = KeyCount(Scan(g))
  /\ torn' = torn \cup Revived(g, survivors')
  /\ pending' = pending \ PendingOf(g)
  /\ meta' = ReleaseGroup(meta, g)
  \* its ratio is computed for a front at the end of the main segment
  /\ \E out \in Dropped : heap' = [heap EXCEPT !.front =
       [h \in Group |-> IF h = g THEN MainSize ELSE IF h \in out THEN None ELSE @[h]]]
  /\ unranked' = unranked \ {g}
  /\ victim' = g /\ modified' = {g} /\ curFront' = 0
  /\ pc' = "rewrite"
  /\ UNCHANGED <<pool, cur, curSize, batch, touched, unwritten, durable, puts, latest, flushed,
                 exposed, faults>>

\* its flush places the survivors, in the order of a hash table, and does not
\* keep to the reserve; the process exits when there is no segment
RewriteRecord(r) ==
  /\ pc = "rewrite" /\ CanPlace(meta, victim, curFront, r.size)
  /\ survivors' = survivors \ {r}
  /\ LET p == Place(meta, victim, curFront, r.size) IN
       /\ meta' = p.meta /\ curFront' = p.front
       /\ unwritten' = unwritten \cup {[rec |-> r, loc |-> p.loc]}
       /\ batch' = Append(batch, [key |-> r.key, loc |-> p.loc])
       /\ touched' = touched \cup {p.loc.seg}
  /\ UNCHANGED <<pool, pending, heap, pc, cur, curSize, modified, victim, durable, history>>

\* the consistency log is complete before data is written
SetBatchGCKeyValue ==
  /\ pc = "rewrite" /\ survivors = {}
  /\ meta' = [meta EXCEPT !.front[victim] = curFront]
  /\ heap' = Rank(victim, curFront)
  /\ gcLog' = GroupsOf(meta', modified)
  /\ pc' = "gcdata"
  /\ UNCHANGED <<pool, pending, cur, curFront, curSize, batch, modified, touched,
                 victim, survivors, unwritten, disk, lsm, groupMeta, segMeta, updateLog,
                 history>>

\* the segments are written in any order
WriteSegment(s) ==
  LET mine == {u \in unwritten : u.loc.seg = s} IN
  /\ pc = "gcdata" /\ mine # {}
  /\ disk' = [disk EXCEPT ![s] =
       {r \in @ : \A u \in mine : ~ Overlaps(r, u.loc)} \cup
       {[off |-> u.loc.off, size |-> u.rec.size, key |-> u.rec.key, val |-> u.rec.val] :
          u \in mine}]
  /\ unwritten' = unwritten \ mine
  /\ pc' = IF unwritten' = {} THEN "keys" ELSE "gcdata"
  /\ UNCHANGED <<pool, pending, meta, heap, cur, curFront, curSize, batch, modified, touched,
                 victim, survivors, lsm, groupMeta, segMeta, updateLog, gcLog, history>>

\* repeat until the update fits; then the flush looks for its next group
FinishGC ==
  /\ pc = "ack" /\ victim # None
  /\ gcLog' = <<>> /\ victim' = None
  /\ ForgetBatch
  /\ IF OutOfReservedSpaceForObject(meta, meta.front[cur], curSize)
     THEN pc' = "gc" /\ UNCHANGED <<cur, heap, unranked>>
     ELSE /\ pc' = "flush" /\ cur' = None
          /\ heap' = Rank(cur, meta.front[cur]) /\ unranked' = unranked \ {cur}
  /\ UNCHANGED <<pool, pending, meta, curFront, curSize, survivors, unwritten, disk, lsm,
                 groupMeta, segMeta, updateLog, puts, latest, flushed, exposed, torn, faults>>

----------------------------------------------------------------------------
(* Crash and recovery                                                      *)

\* groups that were never persisted: restoreFromUpdateLog sets the fronts of a
\* group before it creates the group
Unborn == {g \in DOMAIN updateLog.groups : groupMeta[g] = NoGroup}

Crash ==
  /\ pc # "down" /\ faults < MaxFaults
  /\ pc' = "down" /\ faults' = faults + 1
  /\ pool' = <<>> /\ pending' = {} /\ meta' = NoMeta /\ heap' = NoHeap
  /\ cur' = None /\ curFront' = 0 /\ curSize' = 0 /\ victim' = None /\ survivors' = {}
  /\ unwritten' = {}
  /\ ForgetBatch
  /\ torn' = torn \cup exposed \cup Unborn \cup DOMAIN gcLog
  /\ exposed' = {} /\ unranked' = {}
  /\ UNCHANGED <<durable, puts, latest, flushed>>

\* how many log segments the groups of gs list
Listed(gs, segs) ==
  Cardinality(UNION {{g} \X (ToSet(segs[g]) \cap LogSeg) : g \in gs})

\* mutant: the bits of log segments are not set
RestoreMetaWithoutBits ==
  LET segs == [g \in Group |-> groupMeta[g].segs] IN
  [segs |-> segs,
   front |-> [g \in Group |-> groupMeta[g].front],
   segFront |-> [s \in Segment |->
                   IF \E g \in Group : s \in ToSet(segs[g]) THEN segMeta[s] ELSE 0],
   used |-> {},
   free |-> NumLog - Listed(Group, segs)]

RestoreMetaFromDB ==
  LET segs == [g \in Group |-> groupMeta[g].segs] IN
  [segs |-> segs,
   front |-> [g \in Group |-> groupMeta[g].front],
   segFront |-> [s \in Segment |->
                   IF \E g \in Group : s \in ToSet(segs[g]) THEN segMeta[s] ELSE 0],
   used |-> UNION {ToSet(segs[g]) \cap LogSeg : g \in Group},
   free |-> NumLog - Listed(Group, segs)]

\* setGroupSegments for the groups of a log, in ascending order: the bit of a
\* segment is what the last group to mention it made of it
RestoreGroups(m, log) ==
  LET mentions(s) == {g \in DOMAIN log : s \in ToSet(m.segs[g]) \cup ToSet(log[g].segs)}
      last(s) == CHOOSE g \in mentions(s) : \A h \in mentions(s) : h <= g
  IN [m EXCEPT
        !.segs = [g \in Group |-> IF g \in DOMAIN log THEN log[g].segs ELSE @[g]],
        \* only a group that exists gets its front
        !.front = [g \in Group |-> IF g \in DOMAIN log
                                   THEN IF m.segs[g] = <<>> THEN 0 ELSE log[g].front
                                   ELSE @[g]],
        !.used = {s \in LogSeg : IF mentions(s) = {} THEN s \in @
                                 ELSE s \in ToSet(log[last(s)].segs)},
        !.free = @ + Listed(DOMAIN log, m.segs)
                   - Listed(DOMAIN log, [g \in DOMAIN log |-> log[g].segs])]

\* mutant: the offset of the last record, not its end
SegmentLastOffsets(m, keys) ==
  [m EXCEPT !.segFront = [s \in Segment |->
     LET ends == {keys[i].loc.off : i \in {i \in DOMAIN keys : keys[i].loc.seg = s}}
     IN IF ends = {} THEN @[s] ELSE Max(ends)]]

SegmentEnds(m, keys) ==
  [m EXCEPT !.segFront = [s \in Segment |->
     LET ends == {keys[i].loc.off + keys[i].loc.size :
                    i \in {i \in DOMAIN keys : keys[i].loc.seg = s}}
     IN IF ends = {} THEN @[s] ELSE Max(ends)]]

Recover ==
  LET updated == SegmentEnds(RestoreGroups(RestoreMetaFromDB, updateLog.groups),
                             updateLog.keys)
      final   == RestoreGroups(updated, gcLog)
      ends    == {updateLog.keys[i].loc.seg : i \in DOMAIN updateLog.keys}
  IN /\ pc = "down"
     /\ pc' = "idle"
     /\ meta' = final
     \* setGroupWriteFront comes before setGroupFlushFront, from which the ratio is
     \* computed: that of a group of a log stays that of its persisted front
     /\ heap' = [front |-> [g \in Group |-> IF groupMeta[g] = NoGroup THEN None
                                            ELSE groupMeta[g].front],
                 ordered |-> TRUE]
     /\ unranked' = {g \in Group : final.front[g] # groupMeta[g].front}
     /\ lsm' = Located(lsm, updateLog.keys)
     /\ groupMeta' = Persisted(final, DOMAIN updateLog.groups \cup DOMAIN gcLog)
     /\ segMeta' = [s \in Segment |-> IF s \in ends THEN final.segFront[s] ELSE segMeta[s]]
     /\ updateLog' = NoLog /\ gcLog' = <<>>
     /\ latest' = [k \in Key |-> ReadDisk(disk, k, lsm'[k])]
     /\ UNCHANGED <<pool, pending, cur, curFront, curSize, batch, modified, touched,
                    victim, survivors, unwritten, disk, puts, flushed, exposed, torn, faults>>

----------------------------------------------------------------------------
Init ==
  /\ pool = <<>> /\ pending = {} /\ meta = NoMeta /\ heap = NoHeap
  /\ pc = "idle" /\ cur = None /\ curFront = 0 /\ curSize = 0
  /\ batch = <<>> /\ modified = {} /\ touched = {} /\ victim = None
  /\ survivors = {} /\ unwritten = {}
  /\ disk = [s \in Segment |-> {}] /\ lsm = [k \in Key |-> Nowhere]
  /\ groupMeta = [g \in Group |-> NoGroup] /\ segMeta = [s \in Segment |-> 0]
  /\ updateLog = NoLog /\ gcLog = <<>>
  /\ puts = 0 /\ latest = [k \in Key |-> 0] /\ flushed = [k \in Key |-> 0]
  /\ exposed = {} /\ torn = {} /\ unranked = {} /\ faults = 0

Next ==
  \/ \E k \in Key : \E s \in Sizes[k] : Put(k, s) \/ FlushBeforeWrite(k, s)
  \/ \E g \in Group : PickGroup(g) \/ GCOneGroup(g)
  \/ \E r \in survivors : RewriteRecord(r)
  \/ FlushRecord \/ LeaveGroup \/ ReservedOverflow \/ EndOfUpdates
  \/ SetBatchUpdateKeyValue \/ WriteKeyBatch \/ WriteKeyBatchFails \/ LogMetaPersist
  \/ SetBatchGCKeyValue \/ FinishFlush \/ AckBeforeGC \/ FinishGC \/ GCGreedyInVain
  \/ \E s \in Segment : WriteSegment(s)
  \/ Crash \/ Recover

Spec == Init /\ [][Next]_vars

----------------------------------------------------------------------------
(* Properties.  A group is in torn when the process ended in one of the     *)
(* windows in which the code's recovery does not work, or when a group that *)
(* is in torn was collected and had old records of its keys; every property *)
(* holds of all other groups.                                               *)

Record   == [key : Key, val : 1..MaxPuts, size : 1..LogSize]
Location == [seg : Segment, off : 0..Max({MainSize, LogSize}), size : 1..LogSize]
Keys     == Seq([key : Key, loc : Location])
Fronts   == 0..(MainSize + NumLog * LogSize)

\* Types, and the ends of segments: no record put by the flush, by garbage
\* collection or by a recovery reaches past the end of its segment, no group
\* lists more segments than there are.
TypeOK ==
  /\ pool \in Seq(Record) /\ pending \subseteq DOMAIN pool
  /\ \A g \in Group : meta.segs[g] \in Seq(Segment) /\ Len(meta.segs[g]) <= NumLog + 1
  /\ meta.front \in [Group -> Fronts]
  /\ \A s \in Segment : meta.segFront[s] \in 0..(IF s \in Group THEN MainSize ELSE LogSize)
  /\ meta.used \subseteq LogSeg /\ meta.free \in 0..NumLog
  /\ heap.front \in [Group -> Fronts \cup {None}] /\ heap.ordered \in BOOLEAN
  /\ pc \in {"idle", "flush", "log", "keys", "meta", "ack", "gc", "rewrite", "gcdata", "down"}
  /\ cur \in Group \cup {None} /\ curFront \in Fronts /\ curSize \in 0..LogSize
  /\ batch \in Keys /\ modified \subseteq Group /\ touched \subseteq Segment
  /\ victim \in Group \cup {None} /\ survivors \subseteq Record
  /\ \A u \in unwritten : u.rec \in Record /\ u.loc \in Location
  /\ \A s \in Segment : \A r \in disk[s] :
       r.off + r.size <= IF s \in Group THEN MainSize ELSE LogSize
  /\ lsm \in [Key -> Location \cup {Nowhere}]
  /\ DOMAIN groupMeta = Group /\ segMeta \in [Segment -> Nat]
  /\ updateLog.keys \in Keys /\ DOMAIN updateLog.groups \subseteq Group
  /\ DOMAIN gcLog \subseteq Group
  /\ puts \in 0..MaxPuts /\ faults \in 0..MaxFaults
  /\ exposed \subseteq Group /\ torn \subseteq Group /\ unranked \subseteq Group

\* Between operations a read (kvServer.cc getValue) returns the value of the
\* last put of the key, wherever it is by then: in the buffer, in the segment
\* a flush gave it, or in the one garbage collection moved it to.  After a
\* crash "the last put" is what the first read returned.
ReadsLatest ==
  pc = "idle" => \A k \in Key : Hash[k] \notin torn => GetValue(k) = latest[k]

\* A value whose flush has ended (its consistency log acknowledged) is never
\* replaced by an older one or by garbage: not by a later flush or collection,
\* and not by a crash at any step of them and the recovery from the logs.
FlushedSurvives ==
  pc = "idle" => \A k \in Key : Hash[k] \notin torn => GetValue(k) >= flushed[k]

\* No two groups share a segment, the bitmap marks exactly the log segments
\* that a group lists, and _freeLogSegment counts the others, also after a
\* recovery that read the metadata and then one of the logs.
SegmentsExclusive ==
  pc # "down" =>
    /\ \A g, h \in Group : g # h => ToSet(meta.segs[g]) \cap ToSet(meta.segs[h]) = {}
    /\ meta.used = UNION {ToSet(meta.segs[g]) \cap LogSeg : g \in Group}
    /\ meta.free = NumLog - Cardinality(meta.used)

\* a group's front, recomputed from its segments
FrontOf(segs, fronts) ==
  IF Len(segs) = 1 THEN fronts[segs[1]]
  ELSE MainSize + (Len(segs) - 2) * LogSize + fronts[Last(segs)]

\* The three accounts of how far a group is filled agree between operations:
\* the group's front in memory, the front of its last segment (which decides
\* what garbage collection scans), and both as the LSM-tree has them.
FrontsAgree ==
  pc = "idle" => \A g \in Group \ torn : groupMeta[g] # NoGroup =>
    /\ groupMeta[g] = [front |-> meta.front[g], segs |-> meta.segs[g]]
    /\ meta.front[g] = FrontOf(meta.segs[g], meta.segFront)
    /\ meta.front[g] = FrontOf(meta.segs[g], segMeta)

\* Between operations and when a flush turns to garbage collection the ratio in
\* the heap, which gcGreedy chooses by, is that of the group's front; a recovery
\* from a log leaves an old one, until the group is flushed or collected.
RatiosCurrent ==
  pc \in {"idle", "gc"} => \A g \in Group \ unranked :
    MinRatio(heap.front[g]) = MinRatio(meta.front[g])

\* When a flush turns to garbage collection there is a group it can collect, if
\* no ratio is left from before a recovery: otherwise gcGreedy would drop one
\* entry of the heap after the other and the flush would call it for ever.
VictimFound == pc = "gc" /\ torn = {} /\ unranked = {} => \E g \in Group : Greedy(g)
=============================================================================
