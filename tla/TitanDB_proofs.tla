--------------------------- MODULE TitanDB_proofs ---------------------------
(***************************************************************************)
(* The files of DiffKV, for any number of keys, writers, snapshots, jobs,  *)
(* files and crashes, with either setting of sep_before_flush and          *)
(* level_merge and whichever I/O fails: types, who owns which file number, *)
(* the events that files_ receives and the score list of the picker.       *)
(***************************************************************************)
EXTENDS TitanDB, TLAPS

(***************************************************************************)
(* The inductive invariant                                                 *)
(***************************************************************************)

\* Every file number in use lies below the next one to be given out, also
\* after a crash that falls back on the number in the manifest.
Numbers ==
  /\ \A f \in File : meta[f] # "kAbsent" => f < savedNext
  /\ \A f \in BuildingFiles \cup purgeCand : f \in File /\ f < nextFile
  /\ flushFile < nextFile
  /\ \A j \in GCJob : gcOut[j] < nextFile

\* A file that is not logged yet has one owner: the foreground builder, the
\* flush or a GC job; and the purge thread deletes nobody's file.
Owners ==
  /\ \A f \in BuildingFiles : /\ meta[f] = "kAbsent"
                              /\ f # flushFile /\ f \notin purgeCand
                              /\ \A j \in GCJob : f # gcOut[j]
  /\ \A f \in purgeCand : meta[f] = "kAbsent"
  /\ flushFile # NoFile =>
       /\ flushFile \notin purgeCand /\ \A j \in GCJob : flushFile # gcOut[j]
       /\ meta[flushFile] = IF flushPc = "built" THEN "kAbsent" ELSE "kPendingLSM"
  /\ \A j \in GCJob : gcOut[j] # NoFile =>
       /\ gcOut[j] \notin purgeCand
       /\ \A i \in GCJob \ {j} : gcOut[i] # gcOut[j]
       /\ \/ gcPc[j] \in {"run", "install"} /\ meta[gcOut[j]] = "kAbsent"
          \/ gcPc[j] = "rewrite" /\ meta[gcOut[j]] = "kPendingGC"
          \/ gcPc[j] = "rewrite" /\ meta[gcOut[j]] = "kAbsent" /\ GCFaults

\* A job's inputs are its own until it releases them.
Inputs ==
  \A j \in GCJob : \A f \in gcInputs[j] :
    meta[f] = "kBeingGC" /\ \A i \in GCJob \ {j} : f \notin gcInputs[i]

\* The states that files_ goes through, and what the two lists made of it say.
States ==
  /\ \A f \in File : meta[f] \in {"kAbsent", "kNormal", "kPendingLSM", "kBeingGC",
                                  "kPendingGC", "kObsolete"}
  /\ \A o \in obsolete : meta[o[1]] = "kObsolete"
  /\ \A o, p \in obsolete : o[1] = p[1] => o[2] = p[2]
  /\ GCScoreLive

\* What a job has at each step.
JobPhases ==
  \A j \in GCJob :
    /\ gcPc[j] = "idle" => gcInputs[j] = {} /\ gcTodo[j] = {} /\ gcQueue[j] = <<>>
    /\ gcPc[j] \in {"install", "rewrite"} => gcTodo[j] = {}
    /\ gcPc[j] = "write" => gcHold[j] \in Held
    /\ gcQueue[j] # <<>> => gcOut[j] # NoFile
    /\ GCThroughBuilder => gcOut[j] = NoFile

\* What a flush has at each step; without sep_before_flush the builder idles.
FlushPhases ==
  /\ flushPc \in {"idle", "sealed"} => flushFile = NoFile
  /\ flushPc \in {"built", "logged"} /\ ToSeparate # {} => flushFile # NoFile
  /\ ~SepBeforeFlush => BuildingFiles = {} /\ put = [w \in Writer |-> NoPut]
                        /\ \A j \in GCJob : gcPc[j] # "write"

EntryFiles == \A s \in 1..seq : entry[s].kind = "blob" => entry[s].file \in File

FileInv == /\ TypeOK /\ Numbers /\ Owners /\ Inputs /\ States /\ JobPhases /\ FlushPhases
           /\ EntryFiles

-----------------------------------------------------------------------------
(***************************************************************************)
(* Operators                                                               *)
(***************************************************************************)

(* What FileStateTransit does, event by event.                             *)
LEMMA Transits ==
  ASSUME NEW st
  PROVE  /\ FileStateTransit("kReset", st) = "kNormal"
         /\ FileStateTransit("kDbRestart", st) = "kNormal"
         /\ FileStateTransit("kGCBegin", st) = "kBeingGC"
         /\ FileStateTransit("kGCOutput", st) = "kPendingGC"
         /\ FileStateTransit("kFlushOrCompactionOutput", st) = "kPendingLSM"
         /\ FileStateTransit("kDelete", st) = "kObsolete"
         /\ FileStateTransit("kFlushCompleted", st) =
              IF st = "kPendingLSM" THEN "kNormal" ELSE st
         /\ FileStateTransit("kGCCompleted", st) =
              IF st = "kObsolete" THEN st ELSE "kNormal"
  BY DEF FileStateTransit

LEMMA ConstantFacts ==
  /\ MaxVal \in Nat /\ MaxSeq \in Nat /\ MaxFile \in Nat \ {0} /\ MaxCrash \in Nat
  /\ File \subseteq Nat /\ File \subseteq 0..MaxFile /\ NoFile \in 0..MaxFile
  /\ NoFile \notin File /\ 0..MaxFile = File \cup {NoFile}
  /\ NoPut \notin Held /\ NoSnap \notin Nat
  <1>1. MaxVal \in Nat /\ MaxSeq \in Nat /\ MaxFile \in Nat \ {0} /\ MaxCrash \in Nat
    BY BoundsAssumption
  <1>2. NoPut \notin Held
    <2> SUFFICES ASSUME NoPut \in Held PROVE FALSE  OBVIOUS
    <2>1. NoPut.file = 0 /\ NoPut.file \in File  BY DEF NoPut, Held, NoFile
    <2> QED  BY <1>1, <2>1 DEF File
  <1> QED  BY <1>1, <1>2 DEF File, NoFile, NoSnap

\* TypeOK, part by part.
BaseType == /\ seq \in 0..MaxSeq /\ entry \in [1..seq -> Entry] /\ flushed \in 0..seq
            /\ sealed \in 0..seq
FileType == /\ content \in [File -> SUBSET Record] /\ disk \in SUBSET File
            /\ meta \in [File -> MetaState] /\ obsolete \in SUBSET (File \X (0..MaxSeq))
            /\ gcScore \in SUBSET File
NumberType == nextFile \in 1..(MaxFile + 1) /\ savedNext \in 1..nextFile
BuilderType == /\ building \in 0..MaxFile /\ buffered \in SUBSET Record
               /\ finished \in SUBSET File /\ put \in [Writer -> {NoPut} \cup Held]
FlushType == /\ flushPc \in {"idle", "sealed", "built", "logged", "installed"}
             /\ flushFile \in 0..MaxFile
JobType == /\ gcPc \in [GCJob -> {"idle", "run", "write", "install", "rewrite"}]
           /\ gcInputs \in [GCJob -> SUBSET File]
           /\ gcTodo \in [GCJob -> SUBSET (File \X Key \X Val)]
           /\ gcQueue \in [GCJob -> Seq(Record)]
           /\ gcOut \in [GCJob -> 0..MaxFile]
           /\ gcHold \in [GCJob -> {NoPut} \cup Held]
UserType == /\ levelMerge \in LevelMerges /\ bgError \in BOOLEAN
            /\ snap \in [Reader -> {NoSnap} \cup 0..MaxSeq] /\ lateSnap \in SUBSET Reader
            /\ nextVal \in 1..(MaxVal + 1) /\ lastWrite \in [Key -> 0..MaxVal]
            /\ abandoned \in SUBSET Record /\ crashes \in 0..MaxCrash
PurgeType == /\ purgePc \in {"idle", "oldest", "delete"}
             /\ purgeOldest \in 0..kMaxSequenceNumber /\ purgeCand \in SUBSET File

LEMMA TypeParts ==
  TypeOK <=> /\ BaseType /\ FileType /\ NumberType /\ BuilderType /\ FlushType /\ JobType
             /\ UserType /\ PurgeType
  BY DEF TypeOK, BaseType, FileType, NumberType, BuilderType, FlushType, JobType, UserType,
         PurgeType

LEMMA TypePartsNext ==
  TypeOK' <=> /\ BaseType' /\ FileType' /\ NumberType' /\ BuilderType' /\ FlushType'
              /\ JobType' /\ UserType' /\ PurgeType'
  BY TypeParts, PTL

(* A write to the base database appends one entry and changes no other.    *)
LEMMA WriteFacts ==
  ASSUME BaseType, NEW e \in Entry, Write(e), UNCHANGED <<flushed, sealed>>
  PROVE  /\ BaseType' /\ seq' = seq + 1 /\ seq' \in 1..seq'
         /\ \A s \in 1..seq : entry'[s] = entry[s] /\ s \in 1..seq'
         /\ entry'[seq'] = e
         /\ \A s \in 1..seq' : s = seq' \/ s \in 1..seq
         /\ ToSeparate' = ToSeparate
  <1>1. /\ seq \in Nat /\ MaxSeq \in Nat /\ seq + 1 <= MaxSeq /\ seq' = seq + 1
        /\ entry' = [s \in 1..(seq + 1) |-> IF s = seq + 1 THEN e ELSE entry[s]]
    BY ConstantFacts DEF Write, BaseType
  <1>2. BaseType'
    BY <1>1 DEF BaseType
  <1>3. /\ \A s \in 1..seq : entry'[s] = entry[s] /\ s \in 1..seq'
        /\ entry'[seq'] = e /\ seq' \in 1..seq'
        /\ \A s \in 1..seq' : s = seq' \/ s \in 1..seq
    BY <1>1
  <1>4. ToSeparate' = ToSeparate
    <2>1. \A s \in (flushed + 1)..sealed : s \in 1..seq
      BY <1>1 DEF BaseType
    <2> QED  BY <1>3, <2>1 DEF ToSeparate
  <1> QED  BY <1>1, <1>2, <1>3, <1>4

(* The files that ComputeGCScore lists are live.                           *)
LEMMA ScoreFacts ==
  ASSUME NEW m \in [File -> MetaState], ComputeGCScore(m)
  PROVE  gcScore' \in SUBSET File /\ \A f \in gcScore' : IsLive(m[f])
  BY DEF ComputeGCScore, LiveFiles

(* The foreground builder takes a record: its file is new or was its own   *)
(* before, so that nobody else's changes.                                  *)
LEMMA ForegroundAddFacts ==
  ASSUME FileInv, NEW k \in Key, NEW v \in Val, NEW f \in File, ForegroundAdd(k, v, f),
         UNCHANGED <<meta, obsolete, gcScore, savedNext, flushFile, purgeCand, gcOut>>
  PROVE  /\ FileType' /\ NumberType' /\ Numbers'
         /\ building' \in 0..MaxFile /\ buffered' \in SUBSET Record
         /\ finished' \in SUBSET File
         /\ BuildingFiles' = BuildingFiles \cup {f}
         /\ f \notin BuildingFiles => f = nextFile
         /\ \A g \in BuildingFiles' : g \in BuildingFiles \/ g = nextFile
  <1>i. /\ FileType /\ NumberType /\ BuilderType /\ FlushType /\ JobType /\ PurgeType
        /\ Numbers
    BY TypeParts DEF FileInv
  <1>1. <<k, v>> \in Record
    BY DEF Record
  <1>2. FileType'
    <2>1. content' \in [File -> SUBSET Record]
      BY <1>i, <1>1 DEF ForegroundAdd, FileType
    <2> QED  BY <1>i, <2>1 DEF ForegroundAdd, FileType
  <1>3. NumberType'
    BY <1>i, ConstantFacts DEF ForegroundAdd, NumberType, File
  <1>4. building' \in 0..MaxFile /\ finished' \in SUBSET File
    BY <1>i, ConstantFacts DEF ForegroundAdd, BuilderType
  <1>5. buffered' \in SUBSET Record
    BY <1>i, <1>1 DEF ForegroundAdd, BuilderType
  <1>6. BuildingFiles' = BuildingFiles \cup {f}
    BY <1>i, ConstantFacts DEF ForegroundAdd, BuildingFiles, BuilderType
  <1>7. f \notin BuildingFiles => f = nextFile
    BY ConstantFacts DEF ForegroundAdd, BuildingFiles
  <1>8. nextFile' \in Nat /\ nextFile \in Nat /\ nextFile <= nextFile' /\ f < nextFile'
    BY <1>i, <1>3, ConstantFacts DEF ForegroundAdd, NumberType, Numbers, BuildingFiles
  <1>9. Numbers'
    <2>1. \A g \in BuildingFiles' \cup purgeCand' : g \in File /\ g < nextFile'
      BY <1>i, <1>6, <1>8, ConstantFacts DEF Numbers, PurgeType
    <2>2. flushFile' < nextFile'
      BY <1>i, <1>8 DEF Numbers, FlushType
    <2>3. \A j \in GCJob : gcOut'[j] < nextFile'
      BY <1>i, <1>8 DEF Numbers, JobType
    <2> QED  BY <1>i, <2>1, <2>2, <2>3 DEF Numbers
  <1> QED  BY <1>2, <1>3, <1>4, <1>5, <1>6, <1>7, <1>9

(* A number that was not given out yet belongs to nobody.                  *)
LEMMA FreshNumber ==
  ASSUME FileInv, nextFile \in File
  PROVE  /\ meta[nextFile] = "kAbsent" /\ nextFile \notin purgeCand
         /\ nextFile # flushFile /\ nextFile \notin BuildingFiles
         /\ \A j \in GCJob : nextFile # gcOut[j]
         /\ \A j \in GCJob : nextFile \notin gcInputs[j]
  <1>i. /\ NumberType /\ FlushType /\ JobType /\ PurgeType /\ Numbers /\ Inputs
    BY TypeParts DEF FileInv
  <1>1. nextFile \in Nat /\ savedNext \in Nat /\ savedNext <= nextFile
    BY <1>i DEF NumberType
  <1>2. meta[nextFile] = "kAbsent"
    BY <1>i, <1>1 DEF Numbers
  <1>3. nextFile \notin purgeCand /\ nextFile \notin BuildingFiles /\ nextFile # flushFile
    BY <1>i, <1>1 DEF Numbers
  <1>4. \A j \in GCJob : nextFile # gcOut[j]
    BY <1>i, <1>1 DEF Numbers
  <1>5. \A j \in GCJob : nextFile \notin gcInputs[j]
    BY <1>i, <1>2 DEF Inputs
  <1> QED  BY <1>2, <1>3, <1>4, <1>5

(* The entries that are written are entries.                               *)
LEMMA EntryFacts ==
  /\ \A k \in Key, v \in Val, kind \in {"inline", "large"} :
       [key |-> k, kind |-> kind, val |-> v, file |-> NoFile, late |-> FALSE] \in Entry
  /\ \A k \in Key, v \in Val, f \in File, late \in BOOLEAN :
       /\ BlobEntry(k, v, f, late) \in Entry
       /\ BlobEntry(k, v, f, late).kind = "blob" /\ BlobEntry(k, v, f, late).file = f
       /\ BlobEntry(k, v, f, late).key = k /\ BlobEntry(k, v, f, late).val = v
       /\ BlobEntry(k, v, f, late).late = late
  BY ConstantFacts DEF Entry, BlobEntry

-----------------------------------------------------------------------------
LEMMA WriteInlineInv ==
  ASSUME FileInv, NEW k \in Key, NEW kind \in {"inline", "large"}, WriteInline(k, kind), UNCHANGED levelMerge
  PROVE  FileInv'
  <1>i. /\ BaseType /\ FileType /\ NumberType /\ BuilderType /\ FlushType /\ JobType
        /\ UserType /\ PurgeType /\ Numbers /\ Owners /\ Inputs /\ States /\ JobPhases
        /\ FlushPhases /\ EntryFiles
    BY TypeParts DEF FileInv
  <1>u. UNCHANGED <<levelMerge, bgError, put, flushed, snap, content, disk, meta, obsolete,
                  gcScore, nextFile, savedNext, building, buffered, finished, flushPc,
                  sealed, flushFile, gcPc, gcInputs, gcTodo, gcQueue, gcOut, gcHold,
                  purgePc, purgeOldest, purgeCand, lateSnap, abandoned, crashes>>
    BY DEF WriteInline, baseVars, fileVars, builderVars, flushVars, gcVars, purgeVars,
           histVars
  <1>k. /\ FileType' /\ NumberType' /\ BuilderType' /\ FlushType' /\ JobType' /\ PurgeType'
        /\ Numbers' /\ Owners' /\ Inputs' /\ States' /\ JobPhases'
    BY <1>i, <1>u DEF FileType, NumberType, BuilderType, FlushType, JobType, PurgeType,
           Numbers, Owners, Inputs, States, JobPhases, BuildingFiles, GCScoreLive,
           GCThroughBuilder
  <1>w. /\ BaseType' /\ seq' = seq + 1 /\ seq' \in 1..seq' /\ ToSeparate' = ToSeparate
        /\ \A s \in 1..seq : entry'[s] = entry[s]
        /\ \A s \in 1..seq' : s = seq' \/ s \in 1..seq
        /\ entry'[seq'].kind # "blob"
    <2>1. nextVal \in Val
      BY <1>i, ConstantFacts DEF WriteInline, UserType, Val
    <2> DEFINE e == [key |-> k, kind |-> kind, val |-> nextVal, file |-> NoFile, late |-> FALSE]
    <2>2. e \in Entry /\ e.kind # "blob"
      BY <2>1, EntryFacts
    <2>3. Write(e)
      BY DEF WriteInline
    <2> HIDE DEF e
    <2> QED  BY <1>i, <1>u, <2>2, <2>3, WriteFacts
  <1>1. BaseType'
    BY <1>w
  <1>2. UserType'
    BY <1>i, <1>u, ConstantFacts DEF WriteInline, UserType
  <1>3. FlushPhases'
    BY <1>i, <1>u, <1>w DEF FlushPhases, BuildingFiles
  <1>4. EntryFiles'
    BY <1>i, <1>w DEF EntryFiles
  <1> QED
    BY <1>k, <1>1, <1>2, <1>3, <1>4, TypePartsNext DEF FileInv

LEMMA PutAddInv ==
  ASSUME FileInv, NEW w \in Writer, NEW k \in Key, PutAdd(w, k), UNCHANGED levelMerge
  PROVE  FileInv'
  <1>i. /\ BaseType /\ FileType /\ NumberType /\ BuilderType /\ FlushType /\ JobType
        /\ UserType /\ PurgeType /\ Numbers /\ Owners /\ Inputs /\ States /\ JobPhases
        /\ FlushPhases /\ EntryFiles
    BY TypeParts DEF FileInv
  <1>u. UNCHANGED <<levelMerge, bgError, seq, entry, flushed, snap, meta, obsolete, gcScore,
                  savedNext, flushPc, sealed, flushFile, gcPc, gcInputs, gcTodo, gcQueue,
                  gcOut, gcHold, purgePc, purgeOldest, purgeCand, lastWrite, lateSnap,
                  abandoned, crashes>>
    BY DEF PutAdd, baseVars, fileVars, flushVars, gcVars, purgeVars, histVars
  <1>k. /\ BaseType' /\ FlushType' /\ JobType' /\ PurgeType' /\ Inputs' /\ States'
        /\ JobPhases' /\ EntryFiles'
    BY <1>i, <1>u DEF BaseType, FlushType, JobType, PurgeType, Inputs, States, JobPhases,
           EntryFiles, GCScoreLive, GCThroughBuilder
  <1>v. nextVal \in Val
    BY <1>i, ConstantFacts DEF PutAdd, UserType, Val
  <1>f. PICK f \in File :
          /\ ForegroundAdd(k, nextVal, f)
          /\ put' = [put EXCEPT ![w] = [key |-> k, val |-> nextVal, file |-> f]]
    BY DEF PutAdd
  <1>a. /\ FileType' /\ NumberType' /\ Numbers'
        /\ building' \in 0..MaxFile /\ buffered' \in SUBSET Record /\ finished' \in SUBSET File
        /\ \A g \in BuildingFiles' : g \in BuildingFiles \/ (g = nextFile /\ g \in File)
    <2>1. /\ FileType' /\ NumberType' /\ Numbers'
          /\ building' \in 0..MaxFile /\ buffered' \in SUBSET Record /\ finished' \in SUBSET File
          /\ BuildingFiles' = BuildingFiles \cup {f}
          /\ f \notin BuildingFiles => f = nextFile
      BY <1>u, <1>v, <1>f, ForegroundAddFacts
    <2> QED  BY <1>f, <2>1
  <1>1. FileType'
    BY <1>a
  <1>2. NumberType'
    BY <1>a
  <1>3. BuilderType'
    BY <1>i, <1>v, <1>f, <1>a DEF BuilderType, Held
  <1>4. UserType'
    BY <1>i, <1>u, ConstantFacts DEF PutAdd, UserType
  <1>5. Numbers'
    BY <1>a
  <1>6. Owners'
    BY <1>i, <1>u, <1>a, FreshNumber DEF Owners
  <1>7. FlushPhases'
    BY <1>i, <1>u DEF PutAdd, FlushPhases, ToSeparate
  <1> QED
    BY <1>k, <1>1, <1>2, <1>3, <1>4, <1>5, <1>6, <1>7, TypePartsNext DEF FileInv

LEMMA PutWriteInv ==
  ASSUME FileInv, NEW w \in Writer, PutWrite(w), UNCHANGED levelMerge
  PROVE  FileInv'
  <1>i. /\ BaseType /\ FileType /\ NumberType /\ BuilderType /\ FlushType /\ JobType
        /\ UserType /\ PurgeType /\ Numbers /\ Owners /\ Inputs /\ States /\ JobPhases
        /\ FlushPhases /\ EntryFiles
    BY TypeParts DEF FileInv
  <1>u. UNCHANGED <<levelMerge, bgError, flushed, snap, content, disk, meta, obsolete,
                  gcScore, nextFile, savedNext, building, buffered, finished, flushPc,
                  sealed, flushFile, gcPc, gcInputs, gcTodo, gcQueue, gcOut, gcHold,
                  purgePc, purgeOldest, purgeCand, nextVal, lateSnap, abandoned, crashes>>
    BY DEF PutWrite, baseVars, fileVars, builderVars, flushVars, gcVars, purgeVars, histVars
  <1>k. /\ FileType' /\ NumberType' /\ FlushType' /\ JobType' /\ PurgeType' /\ Numbers'
        /\ Owners' /\ Inputs' /\ States' /\ JobPhases'
    BY <1>i, <1>u DEF FileType, NumberType, FlushType, JobType, PurgeType, Numbers, Owners,
           Inputs, States, JobPhases, BuildingFiles, GCScoreLive, GCThroughBuilder
  <1>p. put[w] \in Held
    BY <1>i DEF PutWrite, BuilderType
  <1>v. put[w].key \in Key /\ put[w].val \in Val /\ put[w].file \in File
    BY <1>p DEF Held
  <1>w. /\ BaseType' /\ seq' = seq + 1 /\ seq' \in 1..seq' /\ ToSeparate' = ToSeparate
        /\ \A s \in 1..seq : entry'[s] = entry[s]
        /\ \A s \in 1..seq' : s = seq' \/ s \in 1..seq
        /\ entry'[seq'].file \in File
    <2> DEFINE late == put[w].file \notin BuildingFiles
               e == BlobEntry(put[w].key, put[w].val, put[w].file, late)
    <2>1. e \in Entry /\ e.file \in File
      <3>1. late \in BOOLEAN  OBVIOUS
      <3> HIDE DEF late
      <3> QED  BY <1>v, <3>1, EntryFacts
    <2>2. Write(e)
      BY DEF PutWrite
    <2> HIDE DEF e
    <2> QED  BY <1>i, <1>u, <2>1, <2>2, WriteFacts
  <1>1. BaseType'
    BY <1>w
  <1>2. BuilderType'
    BY <1>i, <1>u, ConstantFacts DEF PutWrite, BuilderType
  <1>3. UserType'
    BY <1>i, <1>u, <1>v, ConstantFacts DEF PutWrite, UserType, Val
  <1>4. FlushPhases'
    BY <1>i, <1>u, <1>w, <1>p, ConstantFacts DEF FlushPhases, BuildingFiles
  <1>5. EntryFiles'
    BY <1>i, <1>w DEF EntryFiles
  <1> QED
    BY <1>k, <1>1, <1>2, <1>3, <1>4, <1>5, TypePartsNext DEF FileInv

LEMMA TakeSnapshotInv ==
  ASSUME FileInv, NEW r \in Reader, TakeSnapshot(r), UNCHANGED levelMerge
  PROVE  FileInv'
  <1>i. /\ BaseType /\ FileType /\ NumberType /\ BuilderType /\ FlushType /\ JobType
        /\ UserType /\ PurgeType /\ Numbers /\ Owners /\ Inputs /\ States /\ JobPhases
        /\ FlushPhases /\ EntryFiles
    BY TypeParts DEF FileInv
  <1>u. UNCHANGED <<levelMerge, bgError, put, seq, entry, flushed, content, disk, meta,
                  obsolete, gcScore, nextFile, savedNext, building, buffered, finished,
                  flushPc, sealed, flushFile, gcPc, gcInputs, gcTodo, gcQueue, gcOut,
                  gcHold, purgePc, purgeOldest, purgeCand, nextVal, lastWrite, abandoned,
                  crashes>>
    BY DEF TakeSnapshot, baseVars, fileVars, builderVars, flushVars, gcVars, purgeVars,
           histVars
  <1>k. /\ BaseType' /\ FileType' /\ NumberType' /\ BuilderType' /\ FlushType' /\ JobType'
        /\ PurgeType' /\ Numbers' /\ Owners' /\ Inputs' /\ States' /\ JobPhases'
        /\ FlushPhases' /\ EntryFiles'
    BY <1>i, <1>u DEF BaseType, FileType, NumberType, BuilderType, FlushType, JobType,
           PurgeType, Numbers, Owners, Inputs, States, JobPhases, FlushPhases, EntryFiles,
           BuildingFiles, GCScoreLive, GCThroughBuilder, ToSeparate
  <1>1. UserType'
    <2>1. seq \in 0..MaxSeq
      BY <1>i DEF BaseType
    <2> QED  BY <1>i, <1>u, <2>1 DEF TakeSnapshot, UserType
  <1> QED
    BY <1>k, <1>1, TypePartsNext DEF FileInv

LEMMA ReleaseSnapshotInv ==
  ASSUME FileInv, NEW r \in Reader, ReleaseSnapshot(r), UNCHANGED levelMerge
  PROVE  FileInv'
  <1>i. /\ BaseType /\ FileType /\ NumberType /\ BuilderType /\ FlushType /\ JobType
        /\ UserType /\ PurgeType /\ Numbers /\ Owners /\ Inputs /\ States /\ JobPhases
        /\ FlushPhases /\ EntryFiles
    BY TypeParts DEF FileInv
  <1>u. UNCHANGED <<levelMerge, bgError, put, seq, entry, flushed, content, disk, meta,
                  obsolete, gcScore, nextFile, savedNext, building, buffered, finished,
                  flushPc, sealed, flushFile, gcPc, gcInputs, gcTodo, gcQueue, gcOut,
                  gcHold, purgePc, purgeOldest, purgeCand, nextVal, lastWrite, abandoned,
                  crashes>>
    BY DEF ReleaseSnapshot, baseVars, fileVars, builderVars, flushVars, gcVars, purgeVars,
           histVars
  <1>k. /\ BaseType' /\ FileType' /\ NumberType' /\ BuilderType' /\ FlushType' /\ JobType'
        /\ PurgeType' /\ Numbers' /\ Owners' /\ Inputs' /\ States' /\ JobPhases'
        /\ FlushPhases' /\ EntryFiles'
    BY <1>i, <1>u DEF BaseType, FileType, NumberType, BuilderType, FlushType, JobType,
           PurgeType, Numbers, Owners, Inputs, States, JobPhases, FlushPhases, EntryFiles,
           BuildingFiles, GCScoreLive, GCThroughBuilder, ToSeparate
  <1>1. UserType'
    BY <1>i, <1>u, ConstantFacts DEF ReleaseSnapshot, UserType
  <1> QED
    BY <1>k, <1>1, TypePartsNext DEF FileInv

LEMMA SealMemTableInv ==
  ASSUME FileInv, SealMemTable, UNCHANGED levelMerge
  PROVE  FileInv'
  <1>i. /\ BaseType /\ FileType /\ NumberType /\ BuilderType /\ FlushType /\ JobType
        /\ UserType /\ PurgeType /\ Numbers /\ Owners /\ Inputs /\ States /\ JobPhases
        /\ FlushPhases /\ EntryFiles
    BY TypeParts DEF FileInv
  <1>u. UNCHANGED <<levelMerge, bgError, put, seq, entry, flushed, snap, content, disk,
                  obsolete, nextFile, flushFile, gcPc, gcInputs, gcTodo, gcQueue, gcOut,
                  gcHold, purgePc, purgeOldest, purgeCand, nextVal, lastWrite, lateSnap,
                  abandoned, crashes>>
    BY DEF SealMemTable, baseVars, fileVars, flushVars, gcVars, purgeVars, histVars
  <1>k. /\ JobType' /\ UserType' /\ PurgeType' /\ JobPhases' /\ EntryFiles'
    BY <1>i, <1>u DEF JobType, UserType, PurgeType, JobPhases, EntryFiles, GCThroughBuilder
  <1>m. /\ meta' \in [File -> MetaState]
        /\ \A f \in File : meta'[f] = IF f \in BuildingFiles THEN "kNormal" ELSE meta[f]
    BY <1>i, Transits DEF SealMemTable, LogAndApply, FileType, MetaState, FileState
  <1>b. BuildingFiles' = {} /\ building' \in 0..MaxFile /\ finished' \in SUBSET File
        /\ buffered' \in SUBSET Record
    BY <1>i, ConstantFacts DEF SealMemTable, BuildingFiles, BuilderType, builderVars
  <1>n. (savedNext' = savedNext /\ BuildingFiles = {}) \/ savedNext' = nextFile
    BY DEF SealMemTable, LogAndApply
  <1>s. /\ gcScore' \in SUBSET File
        /\ \A f \in gcScore' : IsLive(meta'[f])
    <2>1. CASE BuildingFiles = {}
      BY <1>i, <2>1 DEF SealMemTable, States, GCScoreLive, FileType
    <2>2. CASE BuildingFiles # {}
      <3>1. ComputeGCScore(meta')
        BY <2>2 DEF SealMemTable, LogAndApply
      <3> QED  BY <1>m, <3>1, ScoreFacts
    <2> QED  BY <2>1, <2>2
  <1>1. BaseType'
    BY <1>i, <1>u DEF SealMemTable, BaseType
  <1>2. FileType'
    BY <1>i, <1>u, <1>m, <1>s DEF FileType
  <1>3. NumberType'
    BY <1>i, <1>u, <1>n DEF NumberType
  <1>4. BuilderType'
    BY <1>i, <1>u, <1>b DEF BuilderType
  <1>5. FlushType'
    BY <1>i, <1>u, ConstantFacts DEF SealMemTable, FlushType
  <1>6. Numbers'
    <2>1. \A f \in File : meta'[f] # "kAbsent" => f < savedNext'
      <3>1. savedNext \in Nat /\ nextFile \in Nat /\ savedNext <= nextFile
        BY <1>i DEF NumberType
      <3>2. \A f \in File : meta'[f] # "kAbsent" => f \in BuildingFiles \/ meta[f] # "kAbsent"
        BY <1>m
      <3> QED  BY <1>i, <1>n, <3>1, <3>2, ConstantFacts DEF Numbers
    <2> QED  BY <1>i, <1>u, <1>b, <2>1 DEF Numbers
  <1>7. Owners'
    <2>1. \A f \in File : f \notin BuildingFiles => meta'[f] = meta[f]
      BY <1>m
    <2>2. flushFile = NoFile
      BY <1>i DEF SealMemTable, FlushPhases
    <2>3. \A j \in GCJob : gcOut[j] # NoFile => gcOut[j] \in File /\ gcOut[j] \notin BuildingFiles
      BY <1>i, ConstantFacts DEF JobType, Owners
    <2>4. \A f \in purgeCand : f \in File /\ f \notin BuildingFiles
      BY <1>i DEF PurgeType, Owners
    <2> QED  BY <1>i, <1>u, <1>b, <2>1, <2>2, <2>3, <2>4 DEF Owners
  <1>8. Inputs'
    BY <1>i, <1>u, <1>m DEF Inputs, Owners, JobType
  <1>9. States'
    BY <1>i, <1>u, <1>m, <1>s DEF States, GCScoreLive, Owners, FileType
  <1>10. FlushPhases'
    BY <1>i, <1>u, <1>b DEF SealMemTable, FlushPhases
  <1> QED
    BY <1>k, <1>1, <1>2, <1>3, <1>4, <1>5, <1>6, <1>7, <1>8, <1>9, <1>10, TypePartsNext DEF FileInv

LEMMA FlushBuildInv ==
  ASSUME FileInv, FlushBuild, UNCHANGED levelMerge
  PROVE  FileInv'
  <1>i. /\ BaseType /\ FileType /\ NumberType /\ BuilderType /\ FlushType /\ JobType
        /\ UserType /\ PurgeType /\ Numbers /\ Owners /\ Inputs /\ States /\ JobPhases
        /\ FlushPhases /\ EntryFiles
    BY TypeParts DEF FileInv
  <1>u. UNCHANGED <<levelMerge, bgError, put, seq, entry, flushed, snap, meta, obsolete,
                  gcScore, savedNext, building, buffered, finished, sealed, gcPc, gcInputs,
                  gcTodo, gcQueue, gcOut, gcHold, purgePc, purgeOldest, purgeCand, nextVal,
                  lastWrite, lateSnap, abandoned, crashes>>
    BY DEF FlushBuild, baseVars, fileVars, builderVars, flushVars, gcVars, purgeVars,
           histVars
  <1>k. /\ BaseType' /\ BuilderType' /\ JobType' /\ UserType' /\ PurgeType' /\ Inputs'
        /\ States' /\ JobPhases' /\ EntryFiles'
    BY <1>i, <1>u DEF BaseType, BuilderType, JobType, UserType, PurgeType, Inputs, States,
           JobPhases, EntryFiles, GCScoreLive, GCThroughBuilder
  <1>n. /\ nextFile \in Nat /\ nextFile' \in Nat /\ nextFile <= nextFile'
        /\ flushFile' # NoFile => flushFile' = nextFile /\ nextFile' = nextFile + 1 /\ nextFile \in File
        /\ flushFile' = NoFile => nextFile' = nextFile /\ ToSeparate = {}
        /\ flushFile = NoFile
    BY <1>i, ConstantFacts DEF FlushBuild, NumberType, FlushPhases
  <1>1. FileType'
    <2>1. \A s \in ToSeparate : entry[s] \in Entry
      BY <1>i DEF BaseType, ToSeparate
    <2>2. {<<entry[s].key, entry[s].val>> : s \in ToSeparate} \in SUBSET Record
      BY <2>1 DEF Entry, Record
    <2>3. content' \in [File -> SUBSET Record]
      BY <1>i, <2>2 DEF FlushBuild, FileType
    <2> QED  BY <1>i, <1>u, <2>3 DEF FlushBuild, FileType
  <1>2. NumberType'
    BY <1>i, <1>u, ConstantFacts DEF FlushBuild, NumberType
  <1>3. FlushType'
    BY <1>i, <1>u, ConstantFacts DEF FlushBuild, FlushType
  <1>4. Numbers'
    <2>1. flushFile' < nextFile'
      BY <1>i, <1>n DEF NoFile, NumberType
    <2>2. \A j \in GCJob : gcOut'[j] < nextFile'
      BY <1>i, <1>n, <1>u DEF Numbers, JobType
    <2>3. \A f \in BuildingFiles' \cup purgeCand' : f \in File /\ f < nextFile'
      BY <1>i, <1>n, <1>u, ConstantFacts DEF Numbers, BuildingFiles
    <2> QED  BY <1>i, <1>u, <2>1, <2>2, <2>3 DEF Numbers
  <1>5. Owners'
    BY <1>i, <1>u, <1>n, FreshNumber, ConstantFacts DEF FlushBuild, Owners, BuildingFiles, Numbers
  <1>6. FlushPhases'
    BY <1>i, <1>u, ConstantFacts DEF FlushBuild, FlushPhases, BuildingFiles, ToSeparate
  <1> QED
    BY <1>k, <1>1, <1>2, <1>3, <1>4, <1>5, <1>6, TypePartsNext DEF FileInv

LEMMA FlushFinishInv ==
  ASSUME FileInv, FlushFinish, UNCHANGED levelMerge
  PROVE  FileInv'
  <1>i. /\ BaseType /\ FileType /\ NumberType /\ BuilderType /\ FlushType /\ JobType
        /\ UserType /\ PurgeType /\ Numbers /\ Owners /\ Inputs /\ States /\ JobPhases
        /\ FlushPhases /\ EntryFiles
    BY TypeParts DEF FileInv
  <1>u. UNCHANGED <<levelMerge, bgError, put, seq, entry, flushed, snap, content, disk,
                  obsolete, nextFile, building, buffered, finished, sealed, flushFile, gcPc,
                  gcInputs, gcTodo, gcQueue, gcOut, gcHold, purgePc, purgeOldest, purgeCand,
                  nextVal, lastWrite, lateSnap, abandoned, crashes>>
    BY DEF FlushFinish, baseVars, fileVars, builderVars, flushVars, gcVars, purgeVars,
           histVars
  <1>k. /\ BaseType' /\ BuilderType' /\ JobType' /\ UserType' /\ PurgeType' /\ JobPhases'
        /\ EntryFiles'
    BY <1>i, <1>u DEF BaseType, BuilderType, JobType, UserType, PurgeType, JobPhases,
           EntryFiles, GCThroughBuilder
  <1>m. /\ meta' \in [File -> MetaState]
        /\ \A f \in File : meta'[f] = IF f = flushFile THEN "kPendingLSM" ELSE meta[f]
    <2>1. meta' = IF flushFile = NoFile THEN meta ELSE [meta EXCEPT ![flushFile] = "kPendingLSM"]
      BY Transits DEF FlushFinish, LogAndApply
    <2> QED  BY <1>i, <2>1, ConstantFacts DEF FileType, FlushType, MetaState, FileState
  <1>n. savedNext' = nextFile /\ flushPc = "built"
    BY DEF FlushFinish, LogAndApply
  <1>s. gcScore' \in SUBSET File /\ \A f \in gcScore' : IsLive(meta'[f])
    <2>1. ComputeGCScore(meta')
      BY DEF FlushFinish, LogAndApply
    <2> QED  BY <1>m, <2>1, ScoreFacts
  <1>o. flushFile \in File => /\ flushFile \notin BuildingFiles /\ flushFile \notin purgeCand
                              /\ meta[flushFile] = "kAbsent"
                              /\ \A j \in GCJob : flushFile # gcOut[j]
    BY <1>i, <1>n, ConstantFacts DEF Owners
  <1>1. FileType'
    BY <1>i, <1>u, <1>m, <1>s DEF FileType
  <1>2. NumberType'
    BY <1>i, <1>u, <1>n DEF NumberType
  <1>3. FlushType'
    BY <1>i, <1>u, ConstantFacts DEF FlushFinish, FlushType
  <1>4. Numbers'
    <2>1. \A f \in File : meta'[f] # "kAbsent" => f < savedNext'
      <3>1. savedNext \in Nat /\ nextFile \in Nat /\ savedNext <= nextFile /\ savedNext' = nextFile
        BY <1>i, <1>n DEF NumberType
      <3>2. \A f \in File : meta'[f] # "kAbsent" => f = flushFile \/ meta[f] # "kAbsent"
        BY <1>m
      <3> QED  BY <1>i, <3>1, <3>2, ConstantFacts DEF Numbers
    <2> QED  BY <1>i, <1>u, <2>1 DEF Numbers, BuildingFiles
  <1>5. Owners'
    <2>1. \A f \in File : f # flushFile => meta'[f] = meta[f]
      BY <1>m
    <2>2. BuildingFiles' = BuildingFiles /\ BuildingFiles \subseteq File /\ flushPc' = "logged"
      BY <1>i, <1>u DEF BuildingFiles, Numbers, FlushFinish
    <2>3. \A j \in GCJob : gcOut[j] # NoFile => gcOut[j] \in File
      BY <1>i, ConstantFacts DEF JobType
    <2>4. flushFile # NoFile => flushFile \in File
      BY <1>i, ConstantFacts DEF FlushType
    <2> QED  BY <1>i, <1>u, <1>m, <1>n, <1>o, <2>1, <2>2, <2>3, <2>4 DEF Owners, PurgeType
  <1>6. Inputs'
    <2>1. \A f \in File : meta[f] = "kBeingGC" => meta'[f] = "kBeingGC"
      BY <1>m, <1>o
    <2> QED  BY <1>i, <1>u, <2>1 DEF Inputs, JobType
  <1>7. States'
    BY <1>i, <1>u, <1>m, <1>s, <1>o DEF States, GCScoreLive, FileType
  <1>8. FlushPhases'
    BY <1>i, <1>u, ConstantFacts DEF FlushFinish, FlushPhases, BuildingFiles, ToSeparate
  <1> QED
    BY <1>k, <1>1, <1>2, <1>3, <1>4, <1>5, <1>6, <1>7, <1>8, TypePartsNext DEF FileInv

LEMMA FlushInstallInv ==
  ASSUME FileInv, FlushInstall, UNCHANGED levelMerge
  PROVE  FileInv'
  <1>i. /\ BaseType /\ FileType /\ NumberType /\ BuilderType /\ FlushType /\ JobType
        /\ UserType /\ PurgeType /\ Numbers /\ Owners /\ Inputs /\ States /\ JobPhases
        /\ FlushPhases /\ EntryFiles
    BY TypeParts DEF FileInv
  <1>u. UNCHANGED <<levelMerge, bgError, put, seq, flushed, snap, content, disk, meta,
                  obsolete, gcScore, nextFile, savedNext, building, buffered, finished,
                  sealed, flushFile, gcPc, gcInputs, gcTodo, gcQueue, gcOut, gcHold,
                  purgePc, purgeOldest, purgeCand, nextVal, lastWrite, lateSnap, abandoned,
                  crashes>>
    BY DEF FlushInstall, baseVars, fileVars, builderVars, flushVars, gcVars, purgeVars,
           histVars
  <1>k. /\ FileType' /\ NumberType' /\ BuilderType' /\ JobType' /\ UserType' /\ PurgeType'
        /\ Numbers' /\ Inputs' /\ States' /\ JobPhases'
    BY <1>i, <1>u DEF FileType, NumberType, BuilderType, JobType, UserType, PurgeType,
           Numbers, Inputs, States, JobPhases, BuildingFiles, GCScoreLive, GCThroughBuilder
  <1>e. \A s \in 1..seq : entry'[s] = IF s \in ToSeparate
                    THEN [entry[s] EXCEPT !.kind = "blob", !.file = flushFile] ELSE entry[s]
    BY DEF FlushInstall
  <1>f. flushPc = "logged" /\ flushPc' = "installed" /\ (ToSeparate # {} => flushFile \in File)
    BY <1>i, ConstantFacts DEF FlushInstall, FlushPhases, FlushType
  <1>1. BaseType'
    <2>1. \A s \in 1..seq : entry[s] \in Entry
      BY <1>i DEF BaseType
    <2>2. \A x \in Entry, f \in File : [x EXCEPT !.kind = "blob", !.file = f] \in Entry
      BY ConstantFacts DEF Entry
    <2>4. \A s \in 1..seq : entry'[s] \in Entry
      BY <1>e, <1>f, <2>1, <2>2
    <2>3. entry' = [s \in 1..seq |-> entry'[s]]
      BY DEF FlushInstall
    <2> QED  BY <1>i, <1>u, <2>3, <2>4 DEF BaseType
  <1>2. FlushType'
    BY <1>i, <1>u, ConstantFacts DEF FlushInstall, FlushType
  <1>3. Owners'
    BY <1>i, <1>u, <1>f DEF Owners, BuildingFiles
  <1>4. FlushPhases'
    BY <1>i, <1>u, <1>f DEF FlushPhases, BuildingFiles
  <1>5. EntryFiles'
    <2>1. \A s \in 1..seq : entry[s] \in Entry
      BY <1>i DEF BaseType
    <2>2. \A s \in ToSeparate : s \in 1..seq => entry'[s].file = flushFile
      BY <1>e, <2>1 DEF Entry
    <2> QED  BY <1>i, <1>u, <1>e, <1>f, <2>2 DEF EntryFiles
  <1> QED
    BY <1>k, <1>1, <1>2, <1>3, <1>4, <1>5, TypePartsNext DEF FileInv

LEMMA OnFlushCompletedInv ==
  ASSUME FileInv, OnFlushCompleted, UNCHANGED levelMerge
  PROVE  FileInv'
  <1>i. /\ BaseType /\ FileType /\ NumberType /\ BuilderType /\ FlushType /\ JobType
        /\ UserType /\ PurgeType /\ Numbers /\ Owners /\ Inputs /\ States /\ JobPhases
        /\ FlushPhases /\ EntryFiles
    BY TypeParts DEF FileInv
  <1>u. UNCHANGED <<levelMerge, bgError, put, seq, entry, snap, content, disk, obsolete,
                  gcScore, nextFile, savedNext, building, buffered, finished, sealed, gcPc,
                  gcInputs, gcTodo, gcQueue, gcOut, gcHold, purgePc, purgeOldest, purgeCand,
                  nextVal, lastWrite, lateSnap, abandoned, crashes>>
    BY DEF OnFlushCompleted, baseVars, fileVars, builderVars, flushVars, gcVars, purgeVars,
           histVars
  <1>k. /\ NumberType' /\ BuilderType' /\ JobType' /\ UserType' /\ PurgeType' /\ JobPhases'
        /\ EntryFiles'
    BY <1>i, <1>u DEF NumberType, BuilderType, JobType, UserType, PurgeType, JobPhases,
           EntryFiles, GCThroughBuilder
  <1>m. /\ meta' \in [File -> MetaState]
        /\ \A f \in File : meta'[f] =
             IF f \in FlushedFiles /\ meta[f] = "kPendingLSM" THEN "kNormal" ELSE meta[f]
    BY <1>i, Transits DEF OnFlushCompleted, FileType, MetaState, FileState
  <1>p. flushPc = "installed" /\ flushPc' = "idle" /\ flushFile' = NoFile /\ flushed' = sealed
    BY DEF OnFlushCompleted
  <1>1. BaseType'
    BY <1>i, <1>u, <1>p DEF BaseType
  <1>2. FileType'
    BY <1>i, <1>u, <1>m DEF FileType
  <1>3. FlushType'
    BY <1>p, ConstantFacts DEF FlushType
  <1>4. Numbers'
    BY <1>i, <1>u, <1>m, <1>p DEF Numbers, NumberType, BuildingFiles, NoFile
  <1>5. Owners'
    <2>1. \A f \in File : meta[f] \in {"kAbsent", "kPendingGC"} => meta'[f] = meta[f]
      BY <1>m
    <2>2. BuildingFiles' = BuildingFiles /\ BuildingFiles \subseteq File
      BY <1>i, <1>u DEF BuildingFiles, Numbers
    <2>3. \A j \in GCJob : gcOut[j] # NoFile => gcOut[j] \in File
      BY <1>i, ConstantFacts DEF JobType
    <2>4. \A f \in BuildingFiles : f # NoFile
      BY <2>2, ConstantFacts
    <2> QED  BY <1>i, <1>u, <1>p, <2>1, <2>2, <2>3, <2>4 DEF Owners, PurgeType
  <1>6. Inputs'
    BY <1>i, <1>u, <1>m DEF Inputs, JobType
  <1>7. States'
    <2>1. \A f \in File : IsLive(meta[f]) => IsLive(meta'[f])
      BY <1>m DEF IsLive
    <2> QED  BY <1>i, <1>u, <1>m, <2>1 DEF States, GCScoreLive, FileType
  <1>8. FlushPhases'
    BY <1>i, <1>u, <1>p DEF FlushPhases, BuildingFiles
  <1> QED
    BY <1>k, <1>1, <1>2, <1>3, <1>4, <1>5, <1>6, <1>7, <1>8, TypePartsNext DEF FileInv

LEMMA PickBlobGCInv ==
  ASSUME FileInv, NEW j \in GCJob, PickBlobGC(j), UNCHANGED levelMerge
  PROVE  FileInv'
  <1>i. /\ BaseType /\ FileType /\ NumberType /\ BuilderType /\ FlushType /\ JobType
        /\ UserType /\ PurgeType /\ Numbers /\ Owners /\ Inputs /\ States /\ JobPhases
        /\ FlushPhases /\ EntryFiles
    BY TypeParts DEF FileInv
  <1>u. UNCHANGED <<levelMerge, bgError, put, seq, entry, flushed, snap, content, disk,
                  obsolete, gcScore, nextFile, savedNext, building, buffered, finished,
                  flushPc, sealed, flushFile, gcQueue, gcOut, gcHold, purgePc, purgeOldest,
                  purgeCand, nextVal, lastWrite, lateSnap, abandoned, crashes>>
    BY DEF PickBlobGC, baseVars, fileVars, builderVars, flushVars, gcVars, purgeVars,
           histVars
  <1>k. /\ BaseType' /\ NumberType' /\ BuilderType' /\ FlushType' /\ UserType' /\ PurgeType'
        /\ EntryFiles'
    BY <1>i, <1>u DEF BaseType, NumberType, BuilderType, FlushType, UserType, PurgeType,
           EntryFiles
  <1>p. PICK inputs \in SUBSET {f \in gcScore : CheckBlobFile(f)} :
          /\ gcInputs' = [gcInputs EXCEPT ![j] = inputs]
          /\ gcTodo' = [gcTodo EXCEPT ![j] = BuildIterator(inputs)]
          /\ meta' = [f \in File |-> IF f \in inputs THEN FileStateTransit("kGCBegin", meta[f])
                                                     ELSE meta[f]]
    BY DEF PickBlobGC
  <1>q. /\ inputs \in SUBSET File /\ \A f \in inputs : meta[f] = "kNormal"
        /\ gcPc[j] = "idle" /\ gcPc' = [gcPc EXCEPT ![j] = "run"]
    BY <1>i, <1>p DEF FileType, CheckBlobFile, PickBlobGC
  <1>m. /\ meta' \in [File -> MetaState]
        /\ \A f \in File : meta'[f] = IF f \in inputs THEN "kBeingGC" ELSE meta[f]
    BY <1>i, <1>p, Transits DEF FileType, MetaState, FileState
  <1>o. gcOut[j] = NoFile
    BY <1>i, <1>q DEF Owners
  <1>1. FileType'
    BY <1>i, <1>u, <1>m DEF FileType
  <1>2. JobType'
    <2>1. BuildIterator(inputs) \in SUBSET (File \X Key \X Val)
      BY <1>q DEF BuildIterator
    <2> QED  BY <1>i, <1>u, <1>p, <1>q, <2>1 DEF JobType
  <1>3. Numbers'
    <2>1. \A f \in File : meta'[f] # "kAbsent" => meta[f] # "kAbsent"
      BY <1>m, <1>q
    <2> QED  BY <1>i, <1>u, <2>1 DEF Numbers, BuildingFiles
  <1>4. Owners'
    <2>1. \A f \in File : meta[f] # "kNormal" => meta'[f] = meta[f]
      BY <1>m, <1>q
    <2>2. BuildingFiles' = BuildingFiles /\ BuildingFiles \subseteq File
      BY <1>i, <1>u DEF BuildingFiles, Numbers
    <2>3. \A g \in GCJob : gcOut[g] # NoFile => gcOut[g] \in File
      BY <1>i, ConstantFacts DEF JobType
    <2>4. flushFile # NoFile => flushFile \in File
      BY <1>i, ConstantFacts DEF FlushType
    <2>5. \A g \in GCJob : gcOut[g] # NoFile => gcPc'[g] = gcPc[g]
      BY <1>i, <1>o, <1>q DEF JobType
    <2> QED  BY <1>i, <1>u, <2>1, <2>2, <2>3, <2>4, <2>5 DEF Owners, PurgeType
  <1>5. Inputs'
    <2>1. gcInputs'[j] = inputs /\ \A g \in GCJob \ {j} : gcInputs'[g] = gcInputs[g]
      BY <1>i, <1>p DEF JobType
    <2>2. \A g \in GCJob : \A f \in gcInputs[g] : f \notin inputs
      BY <1>i, <1>q DEF Inputs
    <2> QED  BY <1>i, <1>m, <1>q, <2>1, <2>2 DEF Inputs, JobType
  <1>6. States'
    <2>1. \A f \in File : IsLive(meta[f]) => IsLive(meta'[f])
      BY <1>m, <1>q DEF IsLive
    <2> QED  BY <1>i, <1>u, <1>m, <1>q, <2>1 DEF States, GCScoreLive, FileType
  <1>7. JobPhases'
    <2>1. /\ gcPc'[j] = "run" /\ gcQueue[j] = <<>>
          /\ \A g \in GCJob \ {j} : /\ gcPc'[g] = gcPc[g] /\ gcInputs'[g] = gcInputs[g]
                                    /\ gcTodo'[g] = gcTodo[g]
      BY <1>i, <1>p, <1>q DEF JobType, JobPhases
    <2> QED  BY <1>i, <1>u, <2>1 DEF JobPhases, GCThroughBuilder
  <1>8. FlushPhases'
    BY <1>i, <1>u, ConstantFacts DEF PickBlobGC, FlushPhases, BuildingFiles, ToSeparate
  <1> QED
    BY <1>k, <1>1, <1>2, <1>3, <1>4, <1>5, <1>6, <1>7, <1>8, TypePartsNext DEF FileInv

LEMMA GCDiscardInv ==
  ASSUME FileInv, NEW j \in GCJob, GCDiscard(j), UNCHANGED levelMerge
  PROVE  FileInv'
  <1>i. /\ BaseType /\ FileType /\ NumberType /\ BuilderType /\ FlushType /\ JobType
        /\ UserType /\ PurgeType /\ Numbers /\ Owners /\ Inputs /\ States /\ JobPhases
        /\ FlushPhases /\ EntryFiles
    BY TypeParts DEF FileInv
  <1>u. UNCHANGED <<levelMerge, bgError, put, seq, entry, flushed, snap, content, disk,
                  meta, obsolete, gcScore, nextFile, savedNext, building, buffered,
                  finished, flushPc, sealed, flushFile, gcPc, gcInputs, gcQueue, gcOut,
                  gcHold, purgePc, purgeOldest, purgeCand, nextVal, lastWrite, lateSnap,
                  abandoned, crashes>>
    BY DEF GCDiscard, baseVars, fileVars, builderVars, flushVars, gcVars, purgeVars,
           histVars
  <1>k. /\ BaseType' /\ FileType' /\ NumberType' /\ BuilderType' /\ FlushType' /\ UserType'
        /\ PurgeType' /\ Numbers' /\ Owners' /\ Inputs' /\ States' /\ FlushPhases'
        /\ EntryFiles'
    BY <1>i, <1>u DEF BaseType, FileType, NumberType, BuilderType, FlushType, UserType,
           PurgeType, Numbers, Owners, Inputs, States, FlushPhases, EntryFiles,
           BuildingFiles, GCScoreLive, ToSeparate
  <1>1. JobType'
    BY <1>i, <1>u, ConstantFacts DEF GCDiscard, JobType
  <1>2. JobPhases'
    BY <1>i, <1>u, ConstantFacts DEF GCDiscard, JobPhases, GCThroughBuilder
  <1> QED
    BY <1>k, <1>1, <1>2, TypePartsNext DEF FileInv

LEMMA GCKeepInv ==
  ASSUME FileInv, NEW j \in GCJob, GCKeep(j), UNCHANGED levelMerge
  PROVE  FileInv'
  <1>i. /\ BaseType /\ FileType /\ NumberType /\ BuilderType /\ FlushType /\ JobType
        /\ UserType /\ PurgeType /\ Numbers /\ Owners /\ Inputs /\ States /\ JobPhases
        /\ FlushPhases /\ EntryFiles
    BY TypeParts DEF FileInv
  <1>u. UNCHANGED <<levelMerge, bgError, put, seq, entry, flushed, snap, meta, obsolete,
                  gcScore, savedNext, building, buffered, finished, flushPc, sealed,
                  flushFile, gcPc, gcInputs, gcHold, purgePc, purgeOldest, purgeCand,
                  nextVal, lastWrite, lateSnap, abandoned, crashes>>
    BY DEF GCKeep, baseVars, fileVars, builderVars, flushVars, gcVars, purgeVars, histVars
  <1>k. /\ BaseType' /\ BuilderType' /\ FlushType' /\ UserType' /\ PurgeType' /\ Inputs'
        /\ States' /\ FlushPhases' /\ EntryFiles'
    BY <1>i, <1>u DEF BaseType, BuilderType, FlushType, UserType, PurgeType, Inputs, States,
           FlushPhases, EntryFiles, GCScoreLive, BuildingFiles, ToSeparate
  <1>p. PICK r \in gcTodo[j], f \in File :
          /\ f = IF gcOut[j] = NoFile THEN nextFile ELSE gcOut[j]
          /\ content' = [content EXCEPT ![f] = (IF gcOut[j] = NoFile THEN {} ELSE @)
                                               \cup {<<r[2], r[3]>>}]
          /\ disk' = disk \cup {f}
          /\ gcOut' = [gcOut EXCEPT ![j] = f]
          /\ gcQueue' = [gcQueue EXCEPT ![j] = Append(@, <<r[2], r[3]>>)]
          /\ gcTodo' = [gcTodo EXCEPT ![j] = @ \ {r}]
    BY DEF GCKeep
  <1>q. gcPc[j] = "run" /\ nextFile' = IF gcOut[j] = NoFile THEN nextFile + 1 ELSE nextFile
    BY DEF GCKeep
  <1>r. <<r[2], r[3]>> \in Record
    BY <1>i, <1>p DEF JobType, Record
  <1>n. nextFile \in Nat /\ nextFile' \in Nat /\ nextFile <= nextFile' /\ f < nextFile'
    BY <1>i, <1>p, <1>q, ConstantFacts DEF NumberType, Numbers
  <1>g. gcOut'[j] = f /\ \A g \in GCJob \ {j} : gcOut'[g] = gcOut[g]
    BY <1>i, <1>p DEF JobType
  <1>1. FileType'
    BY <1>i, <1>u, <1>p, <1>r DEF FileType
  <1>2. NumberType'
    BY <1>i, <1>u, <1>p, <1>q, ConstantFacts DEF NumberType, File
  <1>3. JobType'
    <2>1. gcQueue' \in [GCJob -> Seq(Record)]
      BY <1>i, <1>p, <1>r DEF JobType
    <2>2. gcTodo' \in [GCJob -> SUBSET (File \X Key \X Val)]
      BY <1>i, <1>p DEF JobType
    <2>3. gcOut' \in [GCJob -> 0..MaxFile]
      BY <1>i, <1>p, ConstantFacts DEF JobType
    <2> QED  BY <1>i, <1>u, <2>1, <2>2, <2>3 DEF JobType
  <1>4. Numbers'
    <2>1. \A g \in BuildingFiles' \cup purgeCand' : g \in File /\ g < nextFile'
      BY <1>i, <1>u, <1>n, ConstantFacts DEF Numbers, BuildingFiles, PurgeType
    <2>2. flushFile' < nextFile'
      BY <1>i, <1>u, <1>n DEF Numbers, FlushType
    <2>3. \A g \in GCJob : gcOut'[g] < nextFile'
      <3>1. \A g \in GCJob : gcOut[g] \in Nat /\ gcOut[g] < nextFile
        BY <1>i, ConstantFacts DEF Numbers, JobType
      <3> QED  BY <1>n, <1>g, <3>1
    <2> QED  BY <1>i, <1>u, <2>1, <2>2, <2>3 DEF Numbers
  <1>5. Owners'
    <2>1. /\ meta[f] = "kAbsent" /\ f \notin purgeCand /\ f # flushFile /\ f \notin BuildingFiles
          /\ \A g \in GCJob \ {j} : f # gcOut[g]
      BY <1>i, <1>p, <1>q, FreshNumber DEF Owners
    <2>2. BuildingFiles' = BuildingFiles
      BY <1>u DEF BuildingFiles
    <2> QED  BY <1>i, <1>u, <1>q, <1>g, <2>1, <2>2 DEF Owners
  <1>6. JobPhases'
    <2>1. gcOut'[j] # NoFile
      BY <1>p, <1>g, ConstantFacts
    <2>2. \A g \in GCJob \ {j} : gcTodo'[g] = gcTodo[g] /\ gcQueue'[g] = gcQueue[g]
      BY <1>i, <1>p DEF JobType
    <2>3. ~GCThroughBuilder /\ (GCThroughBuilder' <=> GCThroughBuilder)
      BY <1>u DEF GCKeep, GCThroughBuilder
    <2> QED  BY <1>i, <1>u, <1>q, <1>g, <2>1, <2>2, <2>3 DEF JobPhases
  <1> QED
    BY <1>k, <1>1, <1>2, <1>3, <1>4, <1>5, <1>6, TypePartsNext DEF FileInv

LEMMA GCBuilderAddInv ==
  ASSUME FileInv, NEW j \in GCJob, GCBuilderAdd(j), UNCHANGED levelMerge
  PROVE  FileInv'
  <1>i. /\ BaseType /\ FileType /\ NumberType /\ BuilderType /\ FlushType /\ JobType
        /\ UserType /\ PurgeType /\ Numbers /\ Owners /\ Inputs /\ States /\ JobPhases
        /\ FlushPhases /\ EntryFiles
    BY TypeParts DEF FileInv
  <1>u. UNCHANGED <<levelMerge, bgError, put, seq, entry, flushed, snap, meta, obsolete,
                  gcScore, savedNext, flushPc, sealed, flushFile, gcInputs, gcQueue, gcOut,
                  purgePc, purgeOldest, purgeCand, nextVal, lastWrite, lateSnap, abandoned,
                  crashes>>
    BY DEF GCBuilderAdd, baseVars, fileVars, flushVars, gcVars, purgeVars, histVars
  <1>k. /\ BaseType' /\ FlushType' /\ UserType' /\ PurgeType' /\ Inputs' /\ States'
        /\ EntryFiles'
    BY <1>i, <1>u DEF BaseType, FlushType, UserType, PurgeType, Inputs, States, EntryFiles,
           GCScoreLive
  <1>p. PICK r \in gcTodo[j], f \in File :
          /\ ForegroundAdd(r[2], r[3], f)
          /\ gcHold' = [gcHold EXCEPT ![j] = [key |-> r[2], val |-> r[3], file |-> f]]
          /\ gcTodo' = [gcTodo EXCEPT ![j] = @ \ {r}]
    BY DEF GCBuilderAdd
  <1>q. gcPc[j] = "run" /\ SepBeforeFlush /\ gcPc' = [gcPc EXCEPT ![j] = "write"]
    BY DEF GCBuilderAdd, GCThroughBuilder
  <1>r. r[2] \in Key /\ r[3] \in Val
    BY <1>i, <1>p DEF JobType
  <1>a. /\ FileType' /\ NumberType' /\ Numbers'
        /\ building' \in 0..MaxFile /\ buffered' \in SUBSET Record /\ finished' \in SUBSET File
        /\ \A g \in BuildingFiles' : g \in BuildingFiles \/ (g = nextFile /\ g \in File)
    <2>1. /\ FileType' /\ NumberType' /\ Numbers'
          /\ building' \in 0..MaxFile /\ buffered' \in SUBSET Record /\ finished' \in SUBSET File
          /\ BuildingFiles' = BuildingFiles \cup {f}
          /\ f \notin BuildingFiles => f = nextFile
      BY <1>u, <1>r, <1>p, ForegroundAddFacts
    <2> QED  BY <1>p, <2>1
  <1>g. /\ gcPc'[j] = "write" /\ \A g \in GCJob \ {j} : gcPc'[g] = gcPc[g]
        /\ gcHold'[j] = [key |-> r[2], val |-> r[3], file |-> f]
        /\ \A g \in GCJob \ {j} : gcHold'[g] = gcHold[g] /\ gcTodo'[g] = gcTodo[g]
    BY <1>i, <1>p, <1>q DEF JobType
  <1>1. FileType'
    BY <1>a
  <1>2. NumberType'
    BY <1>a
  <1>3. BuilderType'
    BY <1>i, <1>u, <1>a DEF BuilderType
  <1>4. JobType'
    <2>1. [key |-> r[2], val |-> r[3], file |-> f] \in Held
      BY <1>p, <1>r DEF Held
    <2> QED  BY <1>i, <1>u, <1>p, <1>q, <2>1 DEF JobType
  <1>5. Numbers'
    BY <1>a
  <1>6. Owners'
    <2>1. gcOut[j] = NoFile
      BY <1>i DEF GCBuilderAdd, JobPhases
    <2> QED  BY <1>i, <1>u, <1>a, <1>g, <2>1, FreshNumber DEF Owners
  <1>7. JobPhases'
    <2>1. gcHold'[j] \in Held
      BY <1>p, <1>r, <1>g DEF Held
    <2> QED  BY <1>i, <1>u, <1>g, <2>1 DEF JobPhases, GCThroughBuilder
  <1>8. FlushPhases'
    BY <1>i, <1>u, <1>q DEF FlushPhases, ToSeparate
  <1> QED
    BY <1>k, <1>1, <1>2, <1>3, <1>4, <1>5, <1>6, <1>7, <1>8, TypePartsNext DEF FileInv

LEMMA GCBuilderWriteInv ==
  ASSUME FileInv, NEW j \in GCJob, GCBuilderWrite(j), UNCHANGED levelMerge
  PROVE  FileInv'
  <1>i. /\ BaseType /\ FileType /\ NumberType /\ BuilderType /\ FlushType /\ JobType
        /\ UserType /\ PurgeType /\ Numbers /\ Owners /\ Inputs /\ States /\ JobPhases
        /\ FlushPhases /\ EntryFiles
    BY TypeParts DEF FileInv
  <1>u. UNCHANGED <<levelMerge, bgError, put, flushed, snap, content, disk, meta, obsolete,
                  gcScore, nextFile, savedNext, building, buffered, finished, flushPc,
                  sealed, flushFile, gcInputs, gcTodo, gcQueue, gcOut, purgePc, purgeOldest,
                  purgeCand, nextVal, lastWrite, lateSnap, abandoned, crashes>>
    BY DEF GCBuilderWrite, baseVars, fileVars, builderVars, flushVars, gcVars, purgeVars,
           histVars
  <1>k. /\ FileType' /\ NumberType' /\ BuilderType' /\ FlushType' /\ UserType' /\ PurgeType'
        /\ Numbers' /\ Inputs' /\ States'
    BY <1>i, <1>u DEF FileType, NumberType, BuilderType, FlushType, UserType, PurgeType,
           Numbers, Inputs, States, BuildingFiles, GCScoreLive
  <1>p. gcHold[j] \in Held
    BY <1>i DEF GCBuilderWrite, JobPhases
  <1>v. gcHold[j].key \in Key /\ gcHold[j].val \in Val /\ gcHold[j].file \in File
    BY <1>p DEF Held
  <1>w. /\ BaseType' /\ seq' = seq + 1 /\ seq' \in 1..seq' /\ ToSeparate' = ToSeparate
        /\ \A s \in 1..seq : entry'[s] = entry[s]
        /\ \A s \in 1..seq' : s = seq' \/ s \in 1..seq
        /\ entry'[seq'].file \in File
    <2> DEFINE late == gcHold[j].file \notin BuildingFiles
               e == BlobEntry(gcHold[j].key, gcHold[j].val, gcHold[j].file, late)
    <2>1. e \in Entry /\ e.file \in File
      <3>1. late \in BOOLEAN  OBVIOUS
      <3> HIDE DEF late
      <3> QED  BY <1>v, <3>1, EntryFacts
    <2>2. Write(e)
      BY DEF GCBuilderWrite
    <2> HIDE DEF e
    <2> QED  BY <1>i, <1>u, <2>1, <2>2, WriteFacts
  <1>g. /\ gcPc'[j] = "run" /\ gcPc[j] = "write" /\ \A g \in GCJob \ {j} : gcPc'[g] = gcPc[g]
        /\ \A g \in GCJob \ {j} : gcHold'[g] = gcHold[g]
    BY <1>i DEF GCBuilderWrite, JobType
  <1>1. BaseType'
    BY <1>w
  <1>2. JobType'
    BY <1>i, <1>u, ConstantFacts DEF GCBuilderWrite, JobType
  <1>3. Owners'
    <2>1. gcOut[j] = NoFile
      BY <1>i DEF GCBuilderWrite, Owners
    <2> QED  BY <1>i, <1>u, <1>g, <2>1 DEF Owners, BuildingFiles
  <1>4. JobPhases'
    BY <1>i, <1>u, <1>g DEF JobPhases, GCThroughBuilder
  <1>5. FlushPhases'
    <2>1. SepBeforeFlush
      BY <1>i DEF GCBuilderWrite, FlushPhases
    <2> QED  BY <1>i, <1>u, <1>w, <2>1 DEF FlushPhases
  <1>6. EntryFiles'
    BY <1>i, <1>w DEF EntryFiles
  <1> QED
    BY <1>k, <1>1, <1>2, <1>3, <1>4, <1>5, <1>6, TypePartsNext DEF FileInv

LEMMA GCBuilderRejectInv ==
  ASSUME FileInv, NEW j \in GCJob, GCBuilderReject(j), UNCHANGED levelMerge
  PROVE  FileInv'
  <1>i. /\ BaseType /\ FileType /\ NumberType /\ BuilderType /\ FlushType /\ JobType
        /\ UserType /\ PurgeType /\ Numbers /\ Owners /\ Inputs /\ States /\ JobPhases
        /\ FlushPhases /\ EntryFiles
    BY TypeParts DEF FileInv
  <1>u. UNCHANGED <<levelMerge, bgError, put, seq, entry, flushed, snap, content, disk,
                  meta, obsolete, gcScore, nextFile, savedNext, building, buffered,
                  finished, flushPc, sealed, flushFile, gcPc, gcInputs, gcQueue, gcOut,
                  gcHold, purgePc, purgeOldest, purgeCand, nextVal, lastWrite, lateSnap,
                  crashes>>
    BY DEF GCBuilderReject, baseVars, fileVars, builderVars, flushVars, gcVars, purgeVars,
           histVars
  <1>k. /\ BaseType' /\ FileType' /\ NumberType' /\ BuilderType' /\ FlushType' /\ PurgeType'
        /\ Numbers' /\ Owners' /\ Inputs' /\ States' /\ FlushPhases' /\ EntryFiles'
    BY <1>i, <1>u DEF BaseType, FileType, NumberType, BuilderType, FlushType, PurgeType,
           Numbers, Owners, Inputs, States, FlushPhases, EntryFiles, BuildingFiles,
           GCScoreLive, ToSeparate
  <1>1. JobType'
    BY <1>i, <1>u, ConstantFacts DEF GCBuilderReject, JobType
  <1>2. UserType'
    <2>1. PICK r \in gcTodo[j] : abandoned' = abandoned \cup {<<r[2], r[3]>>}
      BY DEF GCBuilderReject
    <2>2. <<r[2], r[3]>> \in Record
      BY <1>i, <2>1 DEF JobType, Record
    <2> QED  BY <1>i, <1>u, <2>1, <2>2 DEF UserType
  <1>3. JobPhases'
    BY <1>i, <1>u, ConstantFacts DEF GCBuilderReject, JobPhases, GCThroughBuilder
  <1> QED
    BY <1>k, <1>1, <1>2, <1>3, TypePartsNext DEF FileInv

LEMMA GCBuilderWriteFaultInv ==
  ASSUME FileInv, NEW j \in GCJob, GCBuilderWriteFault(j), UNCHANGED levelMerge
  PROVE  FileInv'
  <1>i. /\ BaseType /\ FileType /\ NumberType /\ BuilderType /\ FlushType /\ JobType
        /\ UserType /\ PurgeType /\ Numbers /\ Owners /\ Inputs /\ States /\ JobPhases
        /\ FlushPhases /\ EntryFiles
    BY TypeParts DEF FileInv
  <1>u. UNCHANGED <<levelMerge, bgError, put, seq, entry, flushed, snap, content, disk,
                  meta, obsolete, gcScore, nextFile, savedNext, building, buffered,
                  finished, flushPc, sealed, flushFile, gcInputs, gcTodo, gcQueue, gcOut,
                  purgePc, purgeOldest, purgeCand, nextVal, lastWrite, lateSnap, crashes>>
    BY DEF GCBuilderWriteFault, baseVars, fileVars, builderVars, flushVars, gcVars,
           purgeVars, histVars
  <1>k. /\ BaseType' /\ FileType' /\ NumberType' /\ BuilderType' /\ FlushType' /\ PurgeType'
        /\ Numbers' /\ Inputs' /\ States' /\ EntryFiles'
    BY <1>i, <1>u DEF BaseType, FileType, NumberType, BuilderType, FlushType, PurgeType,
           Numbers, Inputs, States, EntryFiles, BuildingFiles, GCScoreLive
  <1>g. /\ gcPc'[j] = "run" /\ gcPc[j] = "write" /\ \A g \in GCJob \ {j} : gcPc'[g] = gcPc[g]
        /\ \A g \in GCJob \ {j} : gcHold'[g] = gcHold[g]
    BY <1>i DEF GCBuilderWriteFault, JobType
  <1>1. JobType'
    BY <1>i, <1>u, ConstantFacts DEF GCBuilderWriteFault, JobType
  <1>2. UserType'
    <2>1. gcHold[j] \in Held
      BY <1>i, <1>g DEF JobPhases
    <2>2. <<gcHold[j].key, gcHold[j].val>> \in Record
      BY <2>1 DEF Held, Record
    <2> QED  BY <1>i, <1>u, <2>2 DEF GCBuilderWriteFault, UserType
  <1>3. Owners'
    BY <1>i, <1>u, <1>g DEF Owners, BuildingFiles
  <1>4. JobPhases'
    BY <1>i, <1>u, <1>g DEF JobPhases, GCThroughBuilder
  <1>5. FlushPhases'
    BY <1>i, <1>u, ConstantFacts DEF GCBuilderWriteFault, FlushPhases, BuildingFiles,
           ToSeparate
  <1> QED
    BY <1>k, <1>1, <1>2, <1>3, <1>4, <1>5, TypePartsNext DEF FileInv

LEMMA GCRunDoneInv ==
  ASSUME FileInv, NEW j \in GCJob, GCRunDone(j), UNCHANGED levelMerge
  PROVE  FileInv'
  <1>i. /\ BaseType /\ FileType /\ NumberType /\ BuilderType /\ FlushType /\ JobType
        /\ UserType /\ PurgeType /\ Numbers /\ Owners /\ Inputs /\ States /\ JobPhases
        /\ FlushPhases /\ EntryFiles
    BY TypeParts DEF FileInv
  <1>u. UNCHANGED <<levelMerge, bgError, put, seq, entry, flushed, snap, content, disk,
                  meta, obsolete, gcScore, nextFile, savedNext, building, buffered,
                  finished, flushPc, sealed, flushFile, gcInputs, gcTodo, gcQueue, gcOut,
                  gcHold, purgePc, purgeOldest, purgeCand, nextVal, lastWrite, lateSnap,
                  abandoned, crashes>>
    BY DEF GCRunDone, baseVars, fileVars, builderVars, flushVars, gcVars, purgeVars,
           histVars
  <1>k. /\ BaseType' /\ FileType' /\ NumberType' /\ BuilderType' /\ FlushType' /\ UserType'
        /\ PurgeType' /\ Numbers' /\ Inputs' /\ States' /\ EntryFiles'
    BY <1>i, <1>u DEF BaseType, FileType, NumberType, BuilderType, FlushType, UserType,
           PurgeType, Numbers, Inputs, States, EntryFiles, BuildingFiles, GCScoreLive
  <1>1. JobType'
    BY <1>i, <1>u, ConstantFacts DEF GCRunDone, JobType
  <1>2. Owners'
    BY <1>i, <1>u, ConstantFacts DEF GCRunDone, Owners, BuildingFiles
  <1>3. JobPhases'
    BY <1>i, <1>u, ConstantFacts DEF GCRunDone, JobPhases, GCThroughBuilder
  <1>4. FlushPhases'
    BY <1>i, <1>u, ConstantFacts DEF GCRunDone, FlushPhases, BuildingFiles, ToSeparate
  <1> QED
    BY <1>k, <1>1, <1>2, <1>3, <1>4, TypePartsNext DEF FileInv

LEMMA GCInstallInv ==
  ASSUME FileInv, NEW j \in GCJob, GCInstall(j), UNCHANGED levelMerge
  PROVE  FileInv'
  <1>i. /\ BaseType /\ FileType /\ NumberType /\ BuilderType /\ FlushType /\ JobType
        /\ UserType /\ PurgeType /\ Numbers /\ Owners /\ Inputs /\ States /\ JobPhases
        /\ FlushPhases /\ EntryFiles
    BY TypeParts DEF FileInv
  <1>u. UNCHANGED <<levelMerge, bgError, put, seq, entry, flushed, snap, content, disk,
                  obsolete, nextFile, building, buffered, finished, flushPc, sealed,
                  flushFile, gcInputs, gcTodo, gcQueue, gcOut, gcHold, purgePc, purgeOldest,
                  purgeCand, nextVal, lastWrite, lateSnap, abandoned, crashes>>
    BY DEF GCInstall, baseVars, fileVars, builderVars, flushVars, gcVars, purgeVars,
           histVars
  <1>k. /\ BaseType' /\ BuilderType' /\ FlushType' /\ UserType' /\ PurgeType' /\ EntryFiles'
    BY <1>i, <1>u DEF BaseType, BuilderType, FlushType, UserType, PurgeType, EntryFiles
  <1>m. /\ meta' \in [File -> MetaState]
        /\ \A f \in File : meta'[f] = IF f = gcOut[j] THEN "kPendingGC" ELSE meta[f]
    <2>1. meta' = IF gcOut[j] = NoFile THEN meta ELSE [meta EXCEPT ![gcOut[j]] = "kPendingGC"]
      BY Transits DEF GCInstall, LogAndApply
    <2> QED  BY <1>i, <2>1, ConstantFacts DEF FileType, JobType, MetaState, FileState
  <1>n. savedNext' = nextFile /\ gcPc[j] = "install"
    BY DEF GCInstall, LogAndApply
  <1>s. gcScore' \in SUBSET File /\ \A f \in gcScore' : IsLive(meta'[f])
    <2>1. ComputeGCScore(meta')
      BY DEF GCInstall, LogAndApply
    <2> QED  BY <1>m, <2>1, ScoreFacts
  <1>o. gcOut[j] \in File => /\ gcOut[j] \notin BuildingFiles /\ gcOut[j] \notin purgeCand
                             /\ gcOut[j] # flushFile /\ meta[gcOut[j]] = "kAbsent"
                             /\ \A g \in GCJob \ {j} : gcOut[g] # gcOut[j]
    BY <1>i, <1>n, ConstantFacts DEF Owners
  <1>g. gcPc'[j] = "rewrite" /\ \A g \in GCJob \ {j} : gcPc'[g] = gcPc[g]
    BY <1>i DEF GCInstall, JobType
  <1>1. FileType'
    BY <1>i, <1>u, <1>m, <1>s DEF FileType
  <1>2. NumberType'
    BY <1>i, <1>u, <1>n DEF NumberType
  <1>3. JobType'
    BY <1>i, <1>u, ConstantFacts DEF GCInstall, JobType
  <1>4. Numbers'
    <2>1. \A f \in File : meta'[f] # "kAbsent" => f < savedNext'
      <3>1. savedNext \in Nat /\ nextFile \in Nat /\ savedNext <= nextFile /\ savedNext' = nextFile
        BY <1>i, <1>n DEF NumberType
      <3>2. \A f \in File : meta'[f] # "kAbsent" => f = gcOut[j] \/ meta[f] # "kAbsent"
        BY <1>m
      <3> QED  BY <1>i, <3>1, <3>2, ConstantFacts DEF Numbers
    <2> QED  BY <1>i, <1>u, <2>1 DEF Numbers, BuildingFiles
  <1>5. Owners'
    <2>1. \A f \in File : f # gcOut[j] => meta'[f] = meta[f]
      BY <1>m
    <2>2. BuildingFiles' = BuildingFiles /\ BuildingFiles \subseteq File
      BY <1>i, <1>u DEF BuildingFiles, Numbers
    <2>3. \A g \in GCJob : gcOut[g] # NoFile => gcOut[g] \in File
      BY <1>i, ConstantFacts DEF JobType
    <2>4. flushFile # NoFile => flushFile \in File
      BY <1>i, ConstantFacts DEF FlushType
    <2>5. gcOut[j] # NoFile => gcOut[j] \in File /\ meta'[gcOut[j]] = "kPendingGC"
      BY <1>m, <2>3
    <2> QED  BY <1>i, <1>u, <1>o, <1>g, <2>1, <2>2, <2>3, <2>4, <2>5 DEF Owners, PurgeType
  <1>6. Inputs'
    <2>1. \A f \in File : meta[f] = "kBeingGC" => meta'[f] = "kBeingGC"
      BY <1>m, <1>o
    <2> QED  BY <1>i, <1>u, <2>1 DEF Inputs, JobType
  <1>7. States'
    BY <1>i, <1>u, <1>m, <1>s, <1>o DEF States, GCScoreLive, FileType
  <1>8. JobPhases'
    BY <1>i, <1>u, ConstantFacts DEF GCInstall, JobPhases, GCThroughBuilder
  <1>9. FlushPhases'
    BY <1>i, <1>u, ConstantFacts DEF GCInstall, FlushPhases, BuildingFiles, ToSeparate
  <1> QED
    BY <1>k, <1>1, <1>2, <1>3, <1>4, <1>5, <1>6, <1>7, <1>8, <1>9, TypePartsNext DEF FileInv

LEMMA GCInstallFaultInv ==
  ASSUME FileInv, NEW j \in GCJob, GCInstallFault(j), UNCHANGED levelMerge
  PROVE  FileInv'
  <1>i. /\ BaseType /\ FileType /\ NumberType /\ BuilderType /\ FlushType /\ JobType
        /\ UserType /\ PurgeType /\ Numbers /\ Owners /\ Inputs /\ States /\ JobPhases
        /\ FlushPhases /\ EntryFiles
    BY TypeParts DEF FileInv
  <1>u. UNCHANGED <<levelMerge, bgError, put, seq, entry, flushed, snap, meta, obsolete,
                  gcScore, nextFile, savedNext, building, buffered, finished, flushPc,
                  sealed, flushFile, gcInputs, gcTodo, gcQueue, gcOut, gcHold, purgePc,
                  purgeOldest, purgeCand, nextVal, lastWrite, lateSnap, crashes>>
    BY DEF GCInstallFault, baseVars, fileVars, builderVars, flushVars, gcVars, purgeVars,
           histVars
  <1>k. /\ BaseType' /\ NumberType' /\ BuilderType' /\ FlushType' /\ PurgeType' /\ Numbers'
        /\ Inputs' /\ States' /\ EntryFiles'
    BY <1>i, <1>u DEF BaseType, NumberType, BuilderType, FlushType, PurgeType, Numbers,
           Inputs, States, EntryFiles, BuildingFiles, GCScoreLive
  <1>1. FileType'
    BY <1>i, <1>u, ConstantFacts DEF GCInstallFault, FileType
  <1>2. JobType'
    BY <1>i, <1>u, ConstantFacts DEF GCInstallFault, JobType
  <1>3. UserType'
    <2>1. gcOut[j] \in File
      BY <1>i, ConstantFacts DEF GCInstallFault, JobType
    <2>2. content[gcOut[j]] \in SUBSET Record
      BY <1>i, <2>1 DEF FileType
    <2> QED  BY <1>i, <1>u, <2>2 DEF GCInstallFault, UserType
  <1>4. Owners'
    BY <1>i, <1>u, ConstantFacts DEF GCInstallFault, Owners, BuildingFiles
  <1>5. JobPhases'
    BY <1>i, <1>u, ConstantFacts DEF GCInstallFault, JobPhases, GCThroughBuilder
  <1>6. FlushPhases'
    BY <1>i, <1>u, ConstantFacts DEF GCInstallFault, FlushPhases, BuildingFiles, ToSeparate
  <1> QED
    BY <1>k, <1>1, <1>2, <1>3, <1>4, <1>5, <1>6, TypePartsNext DEF FileInv

LEMMA GCRewriteInv ==
  ASSUME FileInv, NEW j \in GCJob, GCRewrite(j), UNCHANGED levelMerge
  PROVE  FileInv'
  <1>i. /\ BaseType /\ FileType /\ NumberType /\ BuilderType /\ FlushType /\ JobType
        /\ UserType /\ PurgeType /\ Numbers /\ Owners /\ Inputs /\ States /\ JobPhases
        /\ FlushPhases /\ EntryFiles
    BY TypeParts DEF FileInv
  <1>u. UNCHANGED <<levelMerge, bgError, put, flushed, snap, content, disk, meta, obsolete,
                  gcScore, nextFile, savedNext, building, buffered, finished, flushPc,
                  sealed, flushFile, gcPc, gcInputs, gcTodo, gcOut, gcHold, purgePc,
                  purgeOldest, purgeCand, nextVal, lastWrite, lateSnap, abandoned, crashes>>
    BY DEF GCRewrite, baseVars, fileVars, builderVars, flushVars, gcVars, purgeVars,
           histVars
  <1>k. /\ FileType' /\ NumberType' /\ BuilderType' /\ FlushType' /\ UserType' /\ PurgeType'
        /\ Numbers' /\ Owners' /\ Inputs' /\ States'
    BY <1>i, <1>u DEF FileType, NumberType, BuilderType, FlushType, UserType, PurgeType,
           Numbers, Owners, Inputs, States, BuildingFiles, GCScoreLive
  <1>q. gcQueue[j] # <<>> /\ gcQueue[j] \in Seq(Record) /\ gcOut[j] \in File
    BY <1>i, ConstantFacts DEF GCRewrite, JobType, JobPhases
  <1>v. Head(gcQueue[j])[1] \in Key /\ Head(gcQueue[j])[2] \in Val
    <2>1. Head(gcQueue[j]) \in Record
      BY <1>q
    <2> QED  BY <2>1 DEF Record
  <1>w. /\ BaseType' /\ seq' = seq + 1 /\ seq' \in 1..seq' /\ ToSeparate' = ToSeparate
        /\ \A s \in 1..seq : entry'[s] = entry[s]
        /\ \A s \in 1..seq' : s = seq' \/ s \in 1..seq
        /\ entry'[seq'].file \in File
    <2> DEFINE e == BlobEntry(Head(gcQueue[j])[1], Head(gcQueue[j])[2], gcOut[j], FALSE)
    <2>1. e \in Entry /\ e.file \in File
      <3>1. \A k \in Key, v \in Val, f \in File :
               BlobEntry(k, v, f, FALSE) \in Entry /\ BlobEntry(k, v, f, FALSE).file = f
        BY EntryFacts
      <3> QED  BY <1>q, <1>v, <3>1
    <2>2. Write(e)
      BY DEF GCRewrite
    <2> HIDE DEF e
    <2> QED  BY <1>i, <1>u, <2>1, <2>2, WriteFacts
  <1>1. BaseType'
    BY <1>w
  <1>2. JobType'
    BY <1>i, <1>u, ConstantFacts DEF GCRewrite, JobType
  <1>3. JobPhases'
    BY <1>i, <1>u, ConstantFacts DEF GCRewrite, JobPhases, GCThroughBuilder
  <1>4. FlushPhases'
    BY <1>i, <1>u, <1>w DEF FlushPhases, BuildingFiles
  <1>5. EntryFiles'
    BY <1>i, <1>w DEF EntryFiles
  <1> QED
    BY <1>k, <1>1, <1>2, <1>3, <1>4, <1>5, TypePartsNext DEF FileInv

LEMMA GCFinishInv ==
  ASSUME FileInv, NEW j \in GCJob, GCFinish(j), UNCHANGED levelMerge
  PROVE  FileInv'
  <1>i. /\ BaseType /\ FileType /\ NumberType /\ BuilderType /\ FlushType /\ JobType
        /\ UserType /\ PurgeType /\ Numbers /\ Owners /\ Inputs /\ States /\ JobPhases
        /\ FlushPhases /\ EntryFiles
    BY TypeParts DEF FileInv
  <1>u. UNCHANGED <<levelMerge, bgError, put, seq, entry, flushed, snap, content, disk,
                  nextFile, building, buffered, finished, flushPc, sealed, flushFile,
                  purgePc, purgeOldest, purgeCand, nextVal, lastWrite, lateSnap, abandoned,
                  crashes>>
    BY DEF GCFinish, baseVars, fileVars, builderVars, flushVars, purgeVars, histVars
  <1>k. /\ BaseType' /\ BuilderType' /\ FlushType' /\ UserType' /\ PurgeType' /\ EntryFiles'
    BY <1>i, <1>u DEF BaseType, BuilderType, FlushType, UserType, PurgeType, EntryFiles
  <1>g. /\ gcPc'[j] = "idle" /\ gcInputs'[j] = {} /\ gcTodo'[j] = {} /\ gcQueue'[j] = <<>>
        /\ gcOut'[j] = NoFile /\ gcHold'[j] = NoPut
        /\ \A g \in GCJob \ {j} : /\ gcPc'[g] = gcPc[g] /\ gcInputs'[g] = gcInputs[g]
                                  /\ gcTodo'[g] = gcTodo[g] /\ gcQueue'[g] = gcQueue[g]
                                  /\ gcOut'[g] = gcOut[g] /\ gcHold'[g] = gcHold[g]
    BY <1>i DEF GCFinish, GCJobEnd, JobType
  <1>o. /\ \A f \in gcInputs[j] : f \in File /\ meta[f] = "kBeingGC"
        /\ gcOut[j] # NoFile => gcOut[j] \in File
        /\ \A f \in File : f = gcOut[j] => meta[f] \in {"kAbsent", "kPendingGC"}
    BY <1>i, ConstantFacts DEF JobType, Inputs, Owners
  <1>d. \A f \in File : DeleteInputBlobFiles(j, meta)[f] =
                          IF f \in gcInputs[j] THEN "kObsolete" ELSE meta[f]
    BY Transits DEF DeleteInputBlobFiles
  <1>m. /\ meta' \in [File -> MetaState]
        /\ \A f \in File : meta'[f] = IF f \in gcInputs[j] THEN "kObsolete"
                     ELSE IF f = gcOut[j] /\ meta[f] # "kAbsent" THEN "kNormal" ELSE meta[f]
    <2>1. \A f \in File : meta'[f] = IF f \in gcInputs[j] THEN "kObsolete"
                     ELSE IF f = gcOut[j] /\ meta[f] # "kAbsent" THEN "kNormal" ELSE meta[f]
      BY <1>o, <1>d, Transits DEF GCFinish, ReleaseGcFiles
    <2>2. meta' = [f \in File |-> meta'[f]]
      BY DEF GCFinish, ReleaseGcFiles
    <2> QED  BY <1>i, <2>1, <2>2 DEF FileType, MetaState, FileState
  <1>n. savedNext' = nextFile
    BY DEF GCFinish
  <1>s. gcScore' \in SUBSET File /\ \A f \in gcScore' : IsLive(meta'[f])
    <2>1. DeleteInputBlobFiles(j, meta) \in [File -> MetaState]
      <3>1. \A f \in File : DeleteInputBlobFiles(j, meta)[f] \in MetaState
        BY <1>i, <1>d DEF FileType, MetaState, FileState
      <3> QED  BY <3>1 DEF DeleteInputBlobFiles
    <2>2. ComputeGCScore(DeleteInputBlobFiles(j, meta))
      BY DEF GCFinish
    <2>3. gcScore' \in SUBSET File /\ \A f \in gcScore' : IsLive(DeleteInputBlobFiles(j, meta)[f])
      BY <2>1, <2>2, ScoreFacts
    <2> QED  BY <1>d, <1>m, <1>o, <2>3 DEF IsLive
  <1>1. FileType'
    <2>1. obsolete' \in SUBSET (File \X (0..MaxSeq))
      BY <1>i DEF GCFinish, ObsoleteSequence, FileType, BaseType, JobType
    <2> QED  BY <1>i, <1>u, <1>m, <1>s, <2>1 DEF FileType
  <1>2. NumberType'
    BY <1>i, <1>u, <1>n DEF NumberType
  <1>3. JobType'
    BY <1>i, ConstantFacts DEF GCFinish, GCJobEnd, JobType
  <1>4. Numbers'
    <2>1. \A f \in File : meta'[f] # "kAbsent" => f < savedNext'
      <3>1. savedNext \in Nat /\ savedNext' \in Nat /\ savedNext <= savedNext'
        BY <1>i, <1>n DEF NumberType
      <3>2. \A f \in File : meta'[f] # "kAbsent" => meta[f] # "kAbsent"
        BY <1>m, <1>o
      <3> QED  BY <1>i, <3>1, <3>2, ConstantFacts DEF Numbers
    <2>2. \A g \in GCJob : gcOut'[g] < nextFile'
      BY <1>i, <1>u, <1>g DEF Numbers, NumberType, NoFile
    <2> QED  BY <1>i, <1>u, <2>1, <2>2 DEF Numbers, BuildingFiles
  <1>5. Owners'
    <2>1. \A f \in File : f # gcOut[j] /\ meta[f] # "kBeingGC" => meta'[f] = meta[f]
      BY <1>m, <1>o
    <2>2. BuildingFiles' = BuildingFiles /\ BuildingFiles \subseteq File
      BY <1>i, <1>u DEF BuildingFiles, Numbers
    <2>3. \A g \in GCJob : gcOut[g] # NoFile => gcOut[g] \in File
      BY <1>i, ConstantFacts DEF JobType
    <2>4. flushFile # NoFile => flushFile \in File
      BY <1>i, ConstantFacts DEF FlushType
    <2>5. \A f \in BuildingFiles : f # gcOut[j]
      BY <1>i DEF Owners
    <2>6. \A f \in purgeCand : f # gcOut[j]
      BY <1>i, <1>o, ConstantFacts DEF Owners, PurgeType
    <2>7. flushFile # NoFile => flushFile # gcOut[j]
      BY <1>i DEF Owners
    <2>8. \A f \in BuildingFiles : f # NoFile
      BY <2>2, ConstantFacts
    <2>9. \A g \in GCJob \ {j} : gcOut[g] # NoFile => gcOut[g] # gcOut[j]
      BY <1>i DEF Owners
    <2> QED  BY <1>i, <1>u, <1>g, <2>1, <2>2, <2>3, <2>4, <2>5, <2>6, <2>7, <2>8, <2>9
             DEF Owners, PurgeType
  <1>6. Inputs'
    <2>1. \A g \in GCJob \ {j} : \A f \in gcInputs[g] :
             f \in File /\ f \notin gcInputs[j] /\ f # gcOut[j]
      BY <1>i, <1>o DEF Inputs, JobType
    <2>2. \A g \in GCJob \ {j} : \A f \in gcInputs[g] : meta'[f] = meta[f]
      BY <1>m, <2>1
    <2> QED  BY <1>i, <1>g, <2>2 DEF Inputs
  <1>7. States'
    <2>1. \A o \in obsolete' : o \in obsolete \/ (o[1] \in gcInputs[j] /\ o[1] \in File)
      BY <1>o DEF GCFinish
    <2>2. \A f \in File : meta[f] = "kObsolete" => meta'[f] = "kObsolete"
      BY <1>m, <1>o
    <2>3. \A o \in obsolete : o[1] \in File
      BY <1>i DEF FileType
    <2>4. \A o \in obsolete' : meta'[o[1]] = "kObsolete"
      BY <1>i, <1>m, <2>1, <2>2, <2>3 DEF States
    <2>5. \A o \in obsolete : o[1] \notin gcInputs[j]
      BY <1>i, <1>o DEF States
    <2>6. \A o \in obsolete' \ obsolete : o[1] \in gcInputs[j] /\ o[2] = seq
      BY DEF GCFinish, ObsoleteSequence
    <2>7. \A o, p \in obsolete' : o[1] = p[1] => o[2] = p[2]
      BY <1>i, <2>5, <2>6 DEF States
    <2> QED  BY <1>i, <1>m, <1>s, <2>4, <2>7 DEF States, GCScoreLive
  <1>8. JobPhases'
    BY <1>i, <1>u, <1>g DEF JobPhases, GCThroughBuilder
  <1>9. FlushPhases'
    <2>1. \A g \in GCJob : gcPc'[g] = gcPc[g] \/ gcPc'[g] = "idle"
      BY <1>g
    <2> QED  BY <1>i, <1>u, <2>1 DEF FlushPhases, BuildingFiles, ToSeparate
  <1> QED
    BY <1>k, <1>1, <1>2, <1>3, <1>4, <1>5, <1>6, <1>7, <1>8, <1>9, TypePartsNext DEF FileInv

LEMMA GCFailInv ==
  ASSUME FileInv, NEW j \in GCJob, GCFail(j), UNCHANGED levelMerge
  PROVE  FileInv'
  <1>i. /\ BaseType /\ FileType /\ NumberType /\ BuilderType /\ FlushType /\ JobType
        /\ UserType /\ PurgeType /\ Numbers /\ Owners /\ Inputs /\ States /\ JobPhases
        /\ FlushPhases /\ EntryFiles
    BY TypeParts DEF FileInv
  <1>u. UNCHANGED <<levelMerge, put, seq, entry, flushed, snap, content, disk, obsolete,
                  gcScore, nextFile, savedNext, building, buffered, finished, flushPc,
                  sealed, flushFile, purgePc, purgeOldest, purgeCand, nextVal, lastWrite,
                  lateSnap, abandoned, crashes>>
    BY DEF GCFail, baseVars, fileVars, builderVars, flushVars, purgeVars, histVars
  <1>k. /\ BaseType' /\ NumberType' /\ BuilderType' /\ FlushType' /\ PurgeType'
        /\ EntryFiles'
    BY <1>i, <1>u DEF BaseType, NumberType, BuilderType, FlushType, PurgeType, EntryFiles
  <1>g. /\ gcPc'[j] = "idle" /\ gcInputs'[j] = {} /\ gcTodo'[j] = {} /\ gcQueue'[j] = <<>>
        /\ gcOut'[j] = NoFile /\ gcHold'[j] = NoPut
        /\ \A g \in GCJob \ {j} : /\ gcPc'[g] = gcPc[g] /\ gcInputs'[g] = gcInputs[g]
                                  /\ gcTodo'[g] = gcTodo[g] /\ gcQueue'[g] = gcQueue[g]
                                  /\ gcOut'[g] = gcOut[g] /\ gcHold'[g] = gcHold[g]
    BY <1>i DEF GCFail, GCJobEnd, JobType
  <1>o. /\ \A f \in gcInputs[j] : f \in File /\ meta[f] = "kBeingGC"
        /\ gcOut[j] # NoFile => gcOut[j] \in File
        /\ \A f \in File : f = gcOut[j] => meta[f] \in {"kAbsent", "kPendingGC"}
    BY <1>i, ConstantFacts DEF JobType, Inputs, Owners
  <1>m. /\ meta' \in [File -> MetaState]
        /\ \A f \in File : meta'[f] = IF f \in gcInputs[j] \/ (f = gcOut[j] /\ meta[f] # "kAbsent")
                                     THEN "kNormal" ELSE meta[f]
    <2>1. \A f \in File : meta'[f] = IF f \in gcInputs[j] \/ (f = gcOut[j] /\ meta[f] # "kAbsent")
                                     THEN "kNormal" ELSE meta[f]
      BY <1>o, Transits DEF GCFail, ReleaseGcFiles
    <2>2. meta' = [f \in File |-> meta'[f]]
      BY DEF GCFail, ReleaseGcFiles
    <2> QED  BY <1>i, <2>1, <2>2 DEF FileType, MetaState, FileState
  <1>n. savedNext' = savedNext
    BY <1>u
  <1>1. FileType'
    BY <1>i, <1>u, <1>m DEF FileType
  <1>2. JobType'
    BY <1>i, ConstantFacts DEF GCFail, GCJobEnd, JobType
  <1>3. UserType'
    BY <1>i, <1>u, ConstantFacts DEF GCFail, UserType
  <1>4. Numbers'
    <2>1. \A f \in File : meta'[f] # "kAbsent" => f < savedNext'
      <3>1. savedNext \in Nat /\ savedNext' \in Nat /\ savedNext <= savedNext'
        BY <1>i, <1>n DEF NumberType
      <3>2. \A f \in File : meta'[f] # "kAbsent" => meta[f] # "kAbsent"
        BY <1>m, <1>o
      <3> QED  BY <1>i, <3>1, <3>2, ConstantFacts DEF Numbers
    <2>2. \A g \in GCJob : gcOut'[g] < nextFile'
      BY <1>i, <1>u, <1>g DEF Numbers, NumberType, NoFile
    <2> QED  BY <1>i, <1>u, <2>1, <2>2 DEF Numbers, BuildingFiles
  <1>5. Owners'
    <2>1. \A f \in File : f # gcOut[j] /\ meta[f] # "kBeingGC" => meta'[f] = meta[f]
      BY <1>m, <1>o
    <2>2. BuildingFiles' = BuildingFiles /\ BuildingFiles \subseteq File
      BY <1>i, <1>u DEF BuildingFiles, Numbers
    <2>3. \A g \in GCJob : gcOut[g] # NoFile => gcOut[g] \in File
      BY <1>i, ConstantFacts DEF JobType
    <2>4. flushFile # NoFile => flushFile \in File
      BY <1>i, ConstantFacts DEF FlushType
    <2>5. \A f \in BuildingFiles : f # gcOut[j]
      BY <1>i DEF Owners
    <2>6. \A f \in purgeCand : f # gcOut[j]
      BY <1>i, <1>o, ConstantFacts DEF Owners, PurgeType
    <2>7. flushFile # NoFile => flushFile # gcOut[j]
      BY <1>i DEF Owners
    <2>8. \A f \in BuildingFiles : f # NoFile
      BY <2>2, ConstantFacts
    <2>9. \A g \in GCJob \ {j} : gcOut[g] # NoFile => gcOut[g] # gcOut[j]
      BY <1>i DEF Owners
    <2> QED  BY <1>i, <1>u, <1>g, <2>1, <2>2, <2>3, <2>4, <2>5, <2>6, <2>7, <2>8, <2>9
             DEF Owners, PurgeType
  <1>6. Inputs'
    <2>1. \A g \in GCJob \ {j} : \A f \in gcInputs[g] :
             f \in File /\ f \notin gcInputs[j] /\ f # gcOut[j]
      BY <1>i, <1>o DEF Inputs, JobType
    <2>2. \A g \in GCJob \ {j} : \A f \in gcInputs[g] : meta'[f] = meta[f]
      BY <1>m, <2>1
    <2> QED  BY <1>i, <1>g, <2>2 DEF Inputs
  <1>7. States'
    <2>1. \A f \in File : /\ IsLive(meta[f]) => IsLive(meta'[f])
                          /\ meta[f] = "kObsolete" => meta'[f] = "kObsolete"
      BY <1>m, <1>o DEF IsLive
    <2>2. \A o \in obsolete : o[1] \in File
      BY <1>i DEF FileType
    <2> QED  BY <1>i, <1>u, <1>m, <2>1, <2>2 DEF States, GCScoreLive, FileType
  <1>8. JobPhases'
    BY <1>i, <1>u, <1>g DEF JobPhases, GCThroughBuilder
  <1>9. FlushPhases'
    <2>1. \A g \in GCJob : gcPc'[g] = gcPc[g] \/ gcPc'[g] = "idle"
      BY <1>g
    <2> QED  BY <1>i, <1>u, <2>1 DEF FlushPhases, BuildingFiles, ToSeparate
  <1> QED
    BY <1>k, <1>1, <1>2, <1>3, <1>4, <1>5, <1>6, <1>7, <1>8, <1>9, TypePartsNext DEF FileInv

LEMMA RecomputeGCScoreInv ==
  ASSUME FileInv, RecomputeGCScore, UNCHANGED levelMerge
  PROVE  FileInv'
  <1>i. /\ BaseType /\ FileType /\ NumberType /\ BuilderType /\ FlushType /\ JobType
        /\ UserType /\ PurgeType /\ Numbers /\ Owners /\ Inputs /\ States /\ JobPhases
        /\ FlushPhases /\ EntryFiles
    BY TypeParts DEF FileInv
  <1>u. UNCHANGED <<levelMerge, bgError, put, seq, entry, flushed, snap, content, disk,
                  meta, obsolete, nextFile, savedNext, building, buffered, finished,
                  flushPc, sealed, flushFile, gcPc, gcInputs, gcTodo, gcQueue, gcOut,
                  gcHold, purgePc, purgeOldest, purgeCand, nextVal, lastWrite, lateSnap,
                  abandoned, crashes>>
    BY DEF RecomputeGCScore, baseVars, fileVars, builderVars, flushVars, gcVars, purgeVars,
           histVars
  <1>k. /\ BaseType' /\ NumberType' /\ BuilderType' /\ FlushType' /\ JobType' /\ UserType'
        /\ PurgeType' /\ Numbers' /\ Owners' /\ Inputs' /\ JobPhases' /\ FlushPhases'
        /\ EntryFiles'
    BY <1>i, <1>u DEF BaseType, NumberType, BuilderType, FlushType, JobType, UserType,
           PurgeType, Numbers, Owners, Inputs, JobPhases, FlushPhases, EntryFiles,
           BuildingFiles, GCThroughBuilder, ToSeparate
  <1>s. gcScore' \in SUBSET File /\ \A f \in gcScore' : IsLive(meta[f])
    <2>1. ComputeGCScore(meta) /\ meta \in [File -> MetaState]
      BY <1>i DEF RecomputeGCScore, FileType
    <2> QED  BY <2>1, ScoreFacts
  <1>1. FileType'
    BY <1>i, <1>u, <1>s DEF FileType
  <1>2. States'
    BY <1>i, <1>u, <1>s DEF States, GCScoreLive
  <1> QED
    BY <1>k, <1>1, <1>2, TypePartsNext DEF FileInv

LEMMA PurgeReadOldestInv ==
  ASSUME FileInv, PurgeReadOldest, UNCHANGED levelMerge
  PROVE  FileInv'
  <1>i. /\ BaseType /\ FileType /\ NumberType /\ BuilderType /\ FlushType /\ JobType
        /\ UserType /\ PurgeType /\ Numbers /\ Owners /\ Inputs /\ States /\ JobPhases
        /\ FlushPhases /\ EntryFiles
    BY TypeParts DEF FileInv
  <1>u. UNCHANGED <<levelMerge, bgError, put, seq, entry, flushed, snap, content, disk,
                  meta, obsolete, gcScore, nextFile, savedNext, building, buffered,
                  finished, flushPc, sealed, flushFile, gcPc, gcInputs, gcTodo, gcQueue,
                  gcOut, gcHold, purgeCand, nextVal, lastWrite, lateSnap, abandoned, crashes>>
    BY DEF PurgeReadOldest, baseVars, fileVars, builderVars, flushVars, gcVars, purgeVars,
           histVars
  <1>k. /\ BaseType' /\ FileType' /\ NumberType' /\ BuilderType' /\ FlushType' /\ JobType'
        /\ UserType' /\ Numbers' /\ Owners' /\ Inputs' /\ States' /\ JobPhases'
        /\ FlushPhases' /\ EntryFiles'
    BY <1>i, <1>u DEF BaseType, FileType, NumberType, BuilderType, FlushType, JobType,
           UserType, Numbers, Owners, Inputs, States, JobPhases, FlushPhases, EntryFiles,
           BuildingFiles, GCScoreLive, GCThroughBuilder, ToSeparate
  <1>1. PurgeType'
    <2>1. kMaxSequenceNumber \in 0..kMaxSequenceNumber /\ 0..MaxSeq \subseteq 0..kMaxSequenceNumber
      BY ConstantFacts DEF kMaxSequenceNumber
    <2>2. Snapshots \subseteq 0..MaxSeq
      BY <1>i DEF Snapshots, UserType
    <2> QED  BY <1>i, <1>u, <2>1, <2>2 DEF PurgeReadOldest, PurgeType
  <1> QED
    BY <1>k, <1>1, TypePartsNext DEF FileInv

LEMMA PurgeCollectInv ==
  ASSUME FileInv, PurgeCollect, UNCHANGED levelMerge
  PROVE  FileInv'
  <1>i. /\ BaseType /\ FileType /\ NumberType /\ BuilderType /\ FlushType /\ JobType
        /\ UserType /\ PurgeType /\ Numbers /\ Owners /\ Inputs /\ States /\ JobPhases
        /\ FlushPhases /\ EntryFiles
    BY TypeParts DEF FileInv
  <1>u. UNCHANGED <<levelMerge, bgError, put, seq, entry, flushed, snap, content, disk,
                  gcScore, nextFile, savedNext, building, buffered, finished, flushPc,
                  sealed, flushFile, gcPc, gcInputs, gcTodo, gcQueue, gcOut, gcHold,
                  purgeOldest, nextVal, lastWrite, lateSnap, abandoned, crashes>>
    BY DEF PurgeCollect, baseVars, fileVars, builderVars, flushVars, gcVars, purgeVars,
           histVars
  <1>k. /\ BaseType' /\ NumberType' /\ BuilderType' /\ FlushType' /\ JobType' /\ UserType'
        /\ JobPhases' /\ FlushPhases' /\ EntryFiles'
    BY <1>i, <1>u DEF BaseType, NumberType, BuilderType, FlushType, JobType, UserType,
           JobPhases, FlushPhases, EntryFiles, GCThroughBuilder, BuildingFiles, ToSeparate
  <1>c. \A f \in purgeCand' : \E o \in obsolete : o[1] = f /\ NotVisible(purgeOldest, o[2])
    BY DEF PurgeCollect
  <1>d. \A o \in obsolete' : o \in obsolete /\ ~NotVisible(purgeOldest, o[2])
    BY DEF PurgeCollect
  <1>o. \A o \in obsolete : o[1] \in File /\ meta[o[1]] = "kObsolete"
    BY <1>i DEF States, FileType
  <1>f. \A f \in purgeCand' : f \in File /\ meta[f] = "kObsolete"
    BY <1>c, <1>o
  <1>e. \A o \in obsolete' : o[1] \notin purgeCand'
    BY <1>i, <1>c, <1>d DEF States
  <1>m. /\ meta' \in [File -> MetaState]
        /\ \A f \in File : meta'[f] = IF f \in purgeCand' THEN "kAbsent" ELSE meta[f]
    BY <1>i DEF PurgeCollect, FileType, MetaState
  <1>1. FileType'
    BY <1>i, <1>u, <1>d, <1>m DEF FileType
  <1>2. PurgeType'
    BY <1>i, <1>u, <1>f DEF PurgeCollect, PurgeType
  <1>3. Numbers'
    <2>1. \A f \in File : meta'[f] # "kAbsent" => meta[f] # "kAbsent"
      BY <1>m
    <2>2. \A f \in purgeCand' : f \in File /\ f < nextFile'
      BY <1>i, <1>u, <1>f, ConstantFacts DEF Numbers, NumberType
    <2> QED  BY <1>i, <1>u, <2>1, <2>2 DEF Numbers, BuildingFiles
  <1>4. Owners'
    <2>1. \A f \in File : meta[f] # "kObsolete" => meta'[f] = meta[f]
      BY <1>m, <1>f
    <2>2. BuildingFiles' = BuildingFiles /\ BuildingFiles \subseteq File
      BY <1>i, <1>u DEF BuildingFiles, Numbers
    <2>3. \A g \in GCJob : gcOut[g] # NoFile => gcOut[g] \in File
      BY <1>i, ConstantFacts DEF JobType
    <2>4. flushFile # NoFile => flushFile \in File
      BY <1>i, ConstantFacts DEF FlushType
    <2>5. \A f \in purgeCand' : meta'[f] = "kAbsent"
      BY <1>f, <1>m
    <2> QED  BY <1>i, <1>u, <1>f, <2>1, <2>2, <2>3, <2>4, <2>5 DEF Owners
  <1>5. Inputs'
    <2>1. \A f \in File : meta[f] = "kBeingGC" => meta'[f] = "kBeingGC"
      BY <1>m, <1>f
    <2> QED  BY <1>i, <1>u, <2>1 DEF Inputs, JobType
  <1>6. States'
    <2>1. \A f \in gcScore' : IsLive(meta'[f])
      BY <1>i, <1>u, <1>m, <1>f DEF States, GCScoreLive, FileType, IsLive
    <2>2. \A o \in obsolete' : meta'[o[1]] = "kObsolete"
      BY <1>d, <1>e, <1>m, <1>o
    <2> QED  BY <1>i, <1>d, <1>m, <2>1, <2>2 DEF States, GCScoreLive
  <1> QED
    BY <1>k, <1>1, <1>2, <1>3, <1>4, <1>5, <1>6, TypePartsNext DEF FileInv

LEMMA PurgeDeleteInv ==
  ASSUME FileInv, PurgeDelete, UNCHANGED levelMerge
  PROVE  FileInv'
  <1>i. /\ BaseType /\ FileType /\ NumberType /\ BuilderType /\ FlushType /\ JobType
        /\ UserType /\ PurgeType /\ Numbers /\ Owners /\ Inputs /\ States /\ JobPhases
        /\ FlushPhases /\ EntryFiles
    BY TypeParts DEF FileInv
  <1>u. UNCHANGED <<levelMerge, bgError, put, seq, entry, flushed, snap, meta, obsolete,
                  gcScore, nextFile, savedNext, building, buffered, finished, flushPc,
                  sealed, flushFile, gcPc, gcInputs, gcTodo, gcQueue, gcOut, gcHold,
                  nextVal, lastWrite, lateSnap, abandoned, crashes>>
    BY DEF PurgeDelete, baseVars, fileVars, builderVars, flushVars, gcVars, histVars
  <1>k. /\ BaseType' /\ NumberType' /\ BuilderType' /\ FlushType' /\ JobType' /\ UserType'
        /\ Inputs' /\ States' /\ JobPhases' /\ FlushPhases' /\ EntryFiles'
    BY <1>i, <1>u DEF BaseType, NumberType, BuilderType, FlushType, JobType, UserType,
           Inputs, States, JobPhases, FlushPhases, EntryFiles, GCScoreLive,
           GCThroughBuilder, BuildingFiles, ToSeparate
  <1>1. FileType'
    BY <1>i, <1>u, ConstantFacts DEF PurgeDelete, FileType
  <1>2. PurgeType'
    BY ConstantFacts DEF PurgeDelete, PurgeType, kMaxSequenceNumber
  <1>3. Numbers'
    BY <1>i, <1>u, ConstantFacts DEF PurgeDelete, Numbers, BuildingFiles
  <1>4. Owners'
    BY <1>i, <1>u, ConstantFacts DEF PurgeDelete, Owners, BuildingFiles
  <1> QED
    BY <1>k, <1>1, <1>2, <1>3, <1>4, TypePartsNext DEF FileInv

(***************************************************************************)
(* A crash, the initial state, and the induction                           *)
(***************************************************************************)

(* After a crash only what the manifest lists is left, and the new numbers *)
(* lie above all of it.                                                    *)
LEMMA CrashInv ==
  ASSUME FileInv, CrashAndRecover, UNCHANGED levelMerge
  PROVE  FileInv'
  <1>i. /\ BaseType /\ FileType /\ NumberType /\ BuilderType /\ FlushType /\ JobType
        /\ UserType /\ PurgeType /\ Numbers /\ States /\ EntryFiles
    BY TypeParts DEF FileInv
  <1>m. /\ meta' \in [File -> MetaState]
        /\ \A f \in File : meta'[f] = IF IsLive(meta[f]) THEN "kNormal" ELSE "kAbsent"
    BY <1>i, Transits DEF CrashAndRecover, MetaState, FileState
  <1>j. /\ gcPc' = [j \in GCJob |-> "idle"] /\ gcInputs' = [j \in GCJob |-> {}]
        /\ gcTodo' = [j \in GCJob |-> {}] /\ gcQueue' = [j \in GCJob |-> <<>>]
        /\ gcOut' = [j \in GCJob |-> NoFile] /\ gcHold' = [j \in GCJob |-> NoPut]
    BY DEF CrashAndRecover
  <1>b. /\ building' = NoFile /\ finished' = {} /\ buffered' = {}
        /\ put' = [w \in Writer |-> NoPut] /\ BuildingFiles' = {}
    BY DEF CrashAndRecover, BuildingFiles
  <1>p. /\ purgePc' = "idle" /\ purgeOldest' = 0 /\ purgeCand' = {} /\ flushPc' = "idle"
        /\ flushFile' = NoFile /\ sealed' = 0 /\ obsolete' = {}
    BY DEF CrashAndRecover
  <1>n. savedNext \in File /\ nextFile' = savedNext + 1 /\ savedNext' = savedNext + 1
    BY DEF CrashAndRecover
  <1>1. BaseType' /\ \A s \in 1..seq' : s \in 1..seq /\ entry'[s] = entry[s]
    <2>1. PICK n \in IF WalLoss THEN (IF flushPc = "installed" THEN sealed ELSE flushed)..seq
                     ELSE {seq} :
            /\ seq' = n /\ entry' = [s \in 1..n |-> entry[s]]
            /\ flushed' = IF flushPc = "installed" THEN sealed ELSE flushed
      BY DEF CrashAndRecover
    <2>2. /\ n \in 0..MaxSeq /\ n <= seq /\ seq \in Nat
          /\ (IF flushPc = "installed" THEN sealed ELSE flushed) \in 0..n
      BY <1>i, <2>1, ConstantFacts DEF BaseType
    <2>3. \A s \in 1..n : s \in 1..seq
      BY <2>2
    <2> QED  BY <1>i, <1>p, <2>1, <2>2, <2>3 DEF BaseType
  <1>2. FileType'
    <2>1. gcScore' \in SUBSET File
      <3>1. ComputeGCScore(meta')
        BY DEF CrashAndRecover
      <3> QED  BY <1>m, <3>1, ScoreFacts
    <2>2. content' \in [File -> SUBSET Record]
      BY <1>i DEF CrashAndRecover, FileType
    <2>3. disk' \in SUBSET File
      BY <1>i DEF CrashAndRecover, FileType
    <2> QED  BY <1>m, <1>p, <2>1, <2>2, <2>3 DEF FileType
  <1>3. NumberType'
    BY <1>n, ConstantFacts DEF NumberType, File
  <1>4. BuilderType' /\ FlushType'
    BY <1>b, <1>p, ConstantFacts DEF BuilderType, FlushType
  <1>5. JobType'
    BY <1>j, ConstantFacts DEF JobType
  <1>6. UserType' /\ PurgeType'
    <2>1. crashes' \in 0..MaxCrash
      BY <1>i, ConstantFacts DEF CrashAndRecover, UserType
    <2>2. bgError' \in BOOLEAN /\ snap' \in [Reader -> {NoSnap} \cup 0..MaxSeq]
          /\ lateSnap' \in SUBSET Reader
      BY DEF CrashAndRecover
    <2>3. UNCHANGED <<nextVal, lastWrite, abandoned>>
      BY DEF CrashAndRecover
    <2>4. UserType'
      BY <1>i, <2>1, <2>2, <2>3 DEF UserType
    <2> QED  BY <1>p, <2>4, ConstantFacts DEF PurgeType, kMaxSequenceNumber
  <1>7. Numbers'
    <2>1. \A f \in File : meta'[f] # "kAbsent" => f < savedNext'
      BY <1>i, <1>m, <1>n, ConstantFacts DEF Numbers, IsLive
    <2> QED  BY <1>b, <1>p, <1>j, <1>n, <2>1, ConstantFacts DEF Numbers, NoFile
  <1>8. Owners' /\ Inputs'
    BY <1>b, <1>p, <1>j DEF Owners, Inputs
  <1>9. States'
    <2>1. \A f \in gcScore' : IsLive(meta'[f])
      <3>1. ComputeGCScore(meta')
        BY DEF CrashAndRecover
      <3> QED  BY <1>m, <3>1, ScoreFacts
    <2> QED  BY <1>m, <1>p, <2>1 DEF States, GCScoreLive
  <1>10. JobPhases'
    BY <1>j DEF JobPhases
  <1>11. FlushPhases'
    BY <1>b, <1>p, <1>j DEF FlushPhases
  <1>12. EntryFiles'
    BY <1>i, <1>1 DEF EntryFiles
  <1> QED
    BY <1>1, <1>2, <1>3, <1>4, <1>5, <1>6, <1>7, <1>8, <1>9, <1>10, <1>11, <1>12,
       TypePartsNext DEF FileInv

LEMMA InitInv == Init => FileInv
  <1> SUFFICES ASSUME Init PROVE FileInv
    OBVIOUS
  <1>1. BaseType
    BY ConstantFacts DEF Init, BaseType
  <1>2. FileType
    BY DEF Init, FileType, MetaState
  <1>3. NumberType
    BY ConstantFacts DEF Init, NumberType
  <1>4. BuilderType /\ FlushType
    BY ConstantFacts DEF Init, BuilderType, FlushType
  <1>5. JobType
    BY ConstantFacts DEF Init, JobType
  <1>6. UserType /\ PurgeType
    <2>1. nextVal \in 1..(MaxVal + 1) /\ lastWrite \in [Key -> 0..MaxVal] /\ crashes \in 0..MaxCrash
      BY ConstantFacts DEF Init
    <2>2. /\ levelMerge \in LevelMerges /\ bgError \in BOOLEAN /\ lateSnap \in SUBSET Reader
          /\ snap \in [Reader -> {NoSnap} \cup 0..MaxSeq] /\ abandoned \in SUBSET Record
      BY DEF Init
    <2>3. PurgeType
      BY ConstantFacts DEF Init, PurgeType, kMaxSequenceNumber
    <2> QED  BY <2>1, <2>2, <2>3 DEF UserType
  <1>7. BuildingFiles = {} /\ \A f \in File : meta[f] = "kAbsent"
    BY DEF Init, BuildingFiles
  <1>8. Numbers /\ Owners /\ Inputs
    BY <1>7 DEF Init, Numbers, Owners, Inputs, NoFile
  <1>9. States
    BY <1>7 DEF Init, States, GCScoreLive
  <1>10. JobPhases /\ FlushPhases
    BY <1>7 DEF Init, JobPhases, FlushPhases
  <1>11. EntryFiles
    BY DEF Init, EntryFiles
  <1> QED
    BY <1>1, <1>2, <1>3, <1>4, <1>5, <1>6, <1>8, <1>9, <1>10, <1>11, TypeParts DEF FileInv

LEMMA StutterInv == FileInv /\ UNCHANGED vars => FileInv'
  BY DEF FileInv, TypeOK, Numbers, Owners, Inputs, States, JobPhases, FlushPhases, EntryFiles,
         GCScoreLive, BuildingFiles, ToSeparate, GCThroughBuilder, vars, baseVars, fileVars,
         builderVars, flushVars, gcVars, purgeVars, histVars

LEMMA NextInv == FileInv /\ [Next]_vars => FileInv'
  <1> SUFFICES ASSUME FileInv, Next PROVE FileInv'
    BY StutterInv
  <1>l. UNCHANGED levelMerge
    BY DEF Next
  <1>1. CASE UserStep
    BY <1>1, <1>l, WriteInlineInv, PutAddInv, PutWriteInv, TakeSnapshotInv, ReleaseSnapshotInv
       DEF UserStep
  <1>2. CASE FlushStep
    BY <1>2, <1>l, SealMemTableInv, FlushBuildInv, FlushFinishInv, FlushInstallInv,
       OnFlushCompletedInv DEF FlushStep
  <1>3. ASSUME NEW j \in GCJob, GCStep(j) PROVE FileInv'
    BY <1>3, <1>l, PickBlobGCInv, GCDiscardInv, GCKeepInv, GCBuilderAddInv, GCBuilderWriteInv,
       GCBuilderRejectInv, GCBuilderWriteFaultInv, GCRunDoneInv, GCInstallInv,
       GCInstallFaultInv, GCRewriteInv, GCFinishInv, GCFailInv DEF GCStep
  <1>4. CASE RecomputeGCScore \/ PurgeStep
    BY <1>4, <1>l, RecomputeGCScoreInv, PurgeReadOldestInv, PurgeCollectInv, PurgeDeleteInv
       DEF PurgeStep
  <1>5. CASE CrashAndRecover
    BY <1>5, <1>l, CrashInv
  <1> QED
    BY <1>1, <1>2, <1>3, <1>4, <1>5 DEF Next

(* FileInv is an invariant.                                                *)
THEOREM FilesInvariant == Spec => []FileInv
  BY InitInv, NextInv, PTL DEF Spec

(* Every variable keeps its type: among them no file number exceeds the    *)
(* ones given out, every obsolete file has a sequence number, and no queue *)
(* holds anything but records.                                             *)
THEOREM TypeCorrect == Spec => []TypeOK
  <1>1. FileInv => TypeOK
    BY DEF FileInv
  <1> QED  BY <1>1, FilesInvariant, PTL

(* PickBlobGC dereferences what gc_score_ names: it is always a file of    *)
(* files_ that is not obsolete, whatever jobs, flushes, purges and crashes *)
(* happened since ComputeGCScore.                                          *)
THEOREM ScoreListLive == Spec => []GCScoreLive
  <1>1. FileInv => GCScoreLive
    BY DEF FileInv, States
  <1> QED  BY <1>1, FilesInvariant, PTL

(* The assertions in FileStateTransit hold for every event a job or a      *)
(* flush is still going to send.                                           *)
THEOREM EventsAsserted == Spec => []EventsExpected
  <1>1. FileInv => EventsExpected
    <2> SUFFICES ASSUME FileInv PROVE EventsExpected
      OBVIOUS
    <2>i. BaseType /\ FileType /\ JobType /\ Owners /\ Inputs /\ States /\ EntryFiles
      BY TypeParts DEF FileInv
    <2>1. \A j \in GCJob : \A f \in gcInputs[j] :
             meta[f] \in AssertedStates("kDelete") \cap AssertedStates("kGCCompleted")
      BY <2>i DEF Inputs, AssertedStates, FileState
    <2>2. \A j \in GCJob :
             /\ gcPc[j] = "rewrite" /\ gcOut[j] # NoFile
             /\ ~(GCFaults /\ meta[gcOut[j]] = "kAbsent")
             => meta[gcOut[j]] \in AssertedStates("kGCCompleted")
      BY <2>i DEF Owners, AssertedStates
    <2>3. FlushedFiles \subseteq File
      BY <2>i DEF FlushedFiles, EntryFiles, BaseType
    <2>4. \A f \in File : meta[f] \in AssertedStates("kFlushCompleted") \cup {"kAbsent"}
      BY <2>i DEF States, AssertedStates
    <2> QED  BY <2>1, <2>2, <2>3, <2>4 DEF EventsExpected
  <1> QED  BY <1>1, FilesInvariant, PTL
=============================================================================
