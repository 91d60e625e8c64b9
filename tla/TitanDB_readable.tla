-------------------------- MODULE TitanDB_readable --------------------------
(***************************************************************************)
(* What is written can be read: the records that the newest versions and   *)
(* the snapshots refer to stay where their indexes say, however garbage    *)
(* collection, flushes, purges and crashes interleave, for any number of   *)
(* keys, writers, snapshots, jobs and files.                               *)
(***************************************************************************)
EXTENDS TitanDB_proofs

(***************************************************************************)
(* The newest versions: the inductive invariant                            *)
(***************************************************************************)

\* No later write is to the key of write s.
Newest(s) == \A t \in (s + 1)..seq : entry[t].key # entry[s].key

\* Write s is an index that was written before its file was logged, and no job
\* has given up its record after a failure.
Reliable(s) ==
  /\ entry[s].kind = "blob" /\ ~entry[s].late
  /\ <<entry[s].key, entry[s].val>> \notin abandoned

Stored(f, k, v) == f \in disk /\ <<k, v>> \in content[f]

\* Reads find the file: it is part of the database or the builder's.
InUse(f) == IsLive(meta[f]) \/ f \in BuildingFiles

InQueue(q, x) == \E i \in 1..Len(q) : q[i] = x

NewestStored ==
  \A s \in 1..seq : Newest(s) /\ Reliable(s) =>
    Stored(entry[s].file, entry[s].key, entry[s].val) /\ InUse(entry[s].file)

\* Job j still has to look at the record of write s, to index it again, or has
\* handed it to the builder.
StillHas(j, s) ==
  \/ <<entry[s].file, entry[s].key, entry[s].val>> \in gcTodo[j]
  \/ InQueue(gcQueue[j], <<entry[s].key, entry[s].val>>)
  \/ gcPc[j] = "write" /\ gcHold[j].key = entry[s].key /\ gcHold[j].val = entry[s].val

\* No job forgets a newest version in one of its inputs.
Covered ==
  \A j \in GCJob, s \in 1..seq :
    Newest(s) /\ Reliable(s) /\ entry[s].file \in gcInputs[j] => StillHas(j, s)

\* What a flush is going to index is in its file.
FlushStored ==
  flushPc \in {"built", "logged"} =>
    \A s \in ToSeparate : Stored(flushFile, entry[s].key, entry[s].val)

\* What a job is going to index is in its output, which it has logged.
QueueStored ==
  \A j \in GCJob, k \in Key, v \in Val : InQueue(gcQueue[j], <<k, v>>) =>
    \/ <<k, v>> \in abandoned
    \/ Stored(gcOut[j], k, v) /\ (gcPc[j] = "rewrite" => meta[gcOut[j]] # "kAbsent")

\* What a writer or a job has handed to the builder is in its file as long as the
\* file is the builder's; and it has no number that is still to be given out.
HeldStored ==
  /\ \A w \in Writer : put[w] # NoPut =>
       /\ put[w].file < nextFile
       /\ put[w].file \in BuildingFiles => Stored(put[w].file, put[w].key, put[w].val)
  /\ \A j \in GCJob : gcPc[j] = "write" =>
       /\ gcHold[j].file < nextFile
       /\ gcHold[j].file \in BuildingFiles =>
            Stored(gcHold[j].file, gcHold[j].key, gcHold[j].val)

DataInv == NewestStored /\ Covered /\ FlushStored /\ QueueStored /\ HeldStored

\* A crash that loses the unsynced tail of the base database's log, or one with
\* sep_before_flush, loses the records of indexes that survive.
CrashesKeepWrites == MaxCrash = 0 \/ (~SepBeforeFlush /\ ~WalLoss)

(***************************************************************************)
(* Operators                                                               *)
(***************************************************************************)

LEMMA NewestIsVisible ==
  ASSUME BaseType, NEW s \in 1..seq
  PROVE  Visible(s, entry[s].key, seq) <=> Newest(s)
  BY DEF Visible, Newest, BaseType

(* A write hides the earlier versions of its key and no other.             *)
LEMMA NewestAfterWrite ==
  ASSUME BaseType, NEW e \in Entry, Write(e), UNCHANGED <<flushed, sealed>>,
         NEW s \in 1..seq', Newest(s)'
  PROVE  s = seq' \/ (s \in 1..seq /\ Newest(s) /\ entry[s].key # e.key)
  <1>1. /\ seq \in Nat /\ seq' = seq + 1 /\ entry'[seq + 1] = e
        /\ \A t \in 1..seq : entry'[t] = entry[t]
    BY WriteFacts DEF BaseType
  <1>2. SUFFICES ASSUME s # seq'
                 PROVE  s \in 1..seq /\ Newest(s) /\ entry[s].key # e.key
    OBVIOUS
  <1>3. s \in 1..seq /\ entry'[s] = entry[s]
    BY <1>1, <1>2
  <1>4. \A t \in (s + 1)..(seq + 1) : entry'[t].key # entry'[s].key
    BY <1>1 DEF Newest
  <1>5. entry[s].key # e.key
    <2>1. seq + 1 \in (s + 1)..(seq + 1)
      BY <1>1, <1>3
    <2> QED  BY <1>1, <1>3, <1>4, <2>1
  <1>6. ASSUME NEW t \in (s + 1)..seq PROVE entry[t].key # entry[s].key
    <2>1. t \in (s + 1)..(seq + 1) /\ t \in 1..seq
      BY <1>1, <1>3
    <2> QED  BY <1>1, <1>3, <1>4, <2>1
  <1> QED  BY <1>3, <1>5, <1>6 DEF Newest

LEMMA QueueFacts ==
  /\ \A x : ~InQueue(<<>>, x)
  /\ \A q \in Seq(Record), x, y \in Record :
       InQueue(Append(q, x), y) <=> InQueue(q, y) \/ y = x
  /\ \A q \in Seq(Record), y \in Record :
       q # <<>> => (InQueue(q, y) <=> y = Head(q) \/ InQueue(Tail(q), y))
  <1>1. \A x : ~InQueue(<<>>, x)
    BY DEF InQueue
  <1>2. ASSUME NEW q \in Seq(Record), NEW x \in Record, NEW y \in Record
        PROVE  InQueue(Append(q, x), y) <=> InQueue(q, y) \/ y = x
    <2>1. /\ Len(Append(q, x)) = Len(q) + 1 /\ Append(q, x)[Len(q) + 1] = x /\ Len(q) \in Nat
          /\ \A i \in 1..Len(q) : Append(q, x)[i] = q[i]
      OBVIOUS
    <2> QED  BY <2>1 DEF InQueue
  <1>3. ASSUME NEW q \in Seq(Record), NEW y \in Record, q # <<>>
        PROVE  InQueue(q, y) <=> y = Head(q) \/ InQueue(Tail(q), y)
    <2>1. /\ Len(Tail(q)) = Len(q) - 1 /\ Head(q) = q[1] /\ Len(q) \in Nat /\ Len(q) >= 1
          /\ \A i \in 1..(Len(q) - 1) : Tail(q)[i] = q[i + 1]
      BY <1>3
    <2>2. InQueue(q, y) => y = Head(q) \/ InQueue(Tail(q), y)
      <3> SUFFICES ASSUME NEW i \in 1..Len(q), q[i] = y, i # 1 PROVE InQueue(Tail(q), y)
        BY <2>1 DEF InQueue
      <3>1. i - 1 \in 1..(Len(q) - 1) /\ Tail(q)[i - 1] = y
        BY <2>1
      <3> QED  BY <2>1, <3>1 DEF InQueue
    <2>3. InQueue(Tail(q), y) => InQueue(q, y)
      <3> SUFFICES ASSUME NEW i \in 1..Len(Tail(q)), Tail(q)[i] = y PROVE InQueue(q, y)
        BY DEF InQueue
      <3>1. i + 1 \in 1..Len(q) /\ q[i + 1] = y
        BY <2>1
      <3> QED  BY <3>1 DEF InQueue
    <2>4. y = Head(q) => InQueue(q, y)
      BY <2>1 DEF InQueue
    <2> QED  BY <2>2, <2>3, <2>4
  <1> QED  BY <1>1, <1>2, <1>3

(* NewestStored and Covered survive a write whose entry, if it is          *)
(* reliable, is stored in a file in use that is no job's input.            *)
LEMMA NewestStoredWrite ==
  ASSUME BaseType, NEW e \in Entry, Write(e), UNCHANGED <<flushed, sealed>>, NewestStored,
         UNCHANGED <<content, disk, meta, building, finished, abandoned>>,
         e.kind = "blob" /\ ~e.late /\ <<e.key, e.val>> \notin abandoned
           => Stored(e.file, e.key, e.val) /\ InUse(e.file)
  PROVE  NewestStored'
  <1>1. /\ seq' \in 1..seq' /\ entry'[seq'] = e /\ \A t \in 1..seq : entry'[t] = entry[t]
    BY WriteFacts
  <1>2. SUFFICES ASSUME NEW s \in 1..seq', Newest(s)', Reliable(s)'
                 PROVE  Stored(entry'[s].file, entry'[s].key, entry'[s].val) /\ InUse(entry'[s].file)
    BY DEF NewestStored, Stored, InUse, BuildingFiles
  <1>3. s = seq' \/ (s \in 1..seq /\ Newest(s))
    BY <1>2, NewestAfterWrite
  <1>4. CASE s = seq'
    BY <1>1, <1>2, <1>4 DEF Reliable
  <1>5. CASE s \in 1..seq /\ Newest(s)
    BY <1>1, <1>2, <1>5 DEF Reliable, NewestStored
  <1> QED  BY <1>3, <1>4, <1>5

(* They survive a step that leaves the base database alone and keeps the   *)
(* files in use and their records.                                         *)
LEMMA NewestStoredKept ==
  ASSUME BaseType, EntryFiles, NewestStored, UNCHANGED <<seq, entry>>,
         abandoned \subseteq abandoned',
         \A f \in File : InUse(f) => InUse(f)',
         \A f \in File : InUse(f) /\ f \in disk => f \in disk' /\ content[f] \subseteq content'[f]
  PROVE  NewestStored'
  <1>1. \A s : (Newest(s)' <=> Newest(s)) /\ (Reliable(s)' => Reliable(s))
    BY DEF Newest, Reliable
  <1>2. SUFFICES ASSUME NEW s \in 1..seq, Newest(s), Reliable(s)
                 PROVE  Stored(entry[s].file, entry[s].key, entry[s].val)' /\ InUse(entry[s].file)'
    BY <1>1 DEF NewestStored
  <1>3. entry[s].file \in File
    BY <1>2 DEF EntryFiles, Reliable
  <1>4. Stored(entry[s].file, entry[s].key, entry[s].val) /\ InUse(entry[s].file)
    BY <1>2 DEF NewestStored
  <1>5. InUse(entry[s].file)'
    BY <1>3, <1>4
  <1> QED  BY <1>3, <1>4, <1>5 DEF Stored

LEMMA CoveredWrite ==
  ASSUME BaseType, NEW e \in Entry, Write(e), UNCHANGED <<flushed, sealed>>, Covered,
         UNCHANGED <<gcInputs, gcTodo, abandoned>>,
         e.kind = "blob" /\ ~e.late /\ <<e.key, e.val>> \notin abandoned
           => \A j \in GCJob : e.file \notin gcInputs[j],
         \A j \in GCJob, k \in Key, v \in Val :
           k # e.key /\ InQueue(gcQueue[j], <<k, v>>) => InQueue(gcQueue'[j], <<k, v>>),
         \A j \in GCJob : gcPc[j] = "write" /\ gcHold[j].key # e.key
                            => gcPc'[j] = "write" /\ gcHold'[j] = gcHold[j]
  PROVE  Covered'
  <1>1. /\ seq' \in 1..seq' /\ entry'[seq'] = e /\ \A t \in 1..seq : entry'[t] = entry[t]
    BY WriteFacts
  <1>2. SUFFICES ASSUME NEW j \in GCJob, NEW s \in 1..seq', Newest(s)', Reliable(s)',
                        entry'[s].file \in gcInputs[j]
                 PROVE  StillHas(j, s)'
    BY DEF Covered
  <1>3. s \in 1..seq /\ Newest(s) /\ entry[s].key # e.key
    <2>1. s # seq'
      BY <1>1, <1>2 DEF Reliable
    <2> QED  BY <1>2, <2>1, NewestAfterWrite
  <1>4. entry'[s] = entry[s] /\ Reliable(s) /\ entry[s].key \in Key /\ entry[s].val \in Val
    BY <1>1, <1>2, <1>3 DEF Reliable, BaseType, Entry
  <1>5. StillHas(j, s)
    BY <1>2, <1>3, <1>4 DEF Covered
  <1> QED  BY <1>3, <1>4, <1>5 DEF StillHas

LEMMA CoveredKept ==
  ASSUME Covered, UNCHANGED <<seq, entry>>, abandoned \subseteq abandoned',
         \A j \in GCJob, s \in 1..seq :
           /\ Newest(s) /\ Reliable(s) /\ Reliable(s)' /\ entry[s].file \in gcInputs'[j]
           /\ entry[s].file \in gcInputs[j] => StillHas(j, s)
           => StillHas(j, s)'
  PROVE  Covered'
  <1>1. \A s : (Newest(s)' <=> Newest(s)) /\ (Reliable(s)' => Reliable(s))
    BY DEF Newest, Reliable
  <1> QED  BY <1>1 DEF Covered

(* What each part of DataInv depends on.                                   *)
LEMMA DataFrame ==
  /\ NewestStored /\ UNCHANGED <<seq, entry, abandoned, disk, content, meta, building, finished>>
       => NewestStored'
  /\ Covered /\ UNCHANGED <<seq, entry, abandoned, gcInputs, gcTodo, gcQueue, gcPc, gcHold>>
       => Covered'
  /\ FlushStored /\ UNCHANGED <<flushPc, flushed, sealed, entry, flushFile, disk, content>>
       => FlushStored'
  /\ QueueStored /\ UNCHANGED <<gcQueue, abandoned, gcOut, disk, content, meta, gcPc>>
       => QueueStored'
  /\ HeldStored /\ UNCHANGED <<gcPc, gcHold, put, building, finished, disk, content, nextFile>>
       => HeldStored'
  <1>1. NewestStored /\ UNCHANGED <<seq, entry, abandoned, disk, content, meta, building, finished>>
          => NewestStored'
    BY DEF NewestStored, Newest, Reliable, Stored, InUse, BuildingFiles
  <1>2. Covered /\ UNCHANGED <<seq, entry, abandoned, gcInputs, gcTodo, gcQueue, gcPc, gcHold>>
          => Covered'
    BY DEF Covered, Newest, Reliable, StillHas
  <1>3. FlushStored /\ UNCHANGED <<flushPc, flushed, sealed, entry, flushFile, disk, content>>
          => FlushStored'
    BY DEF FlushStored, ToSeparate, Stored
  <1>4. QueueStored /\ UNCHANGED <<gcQueue, abandoned, gcOut, disk, content, meta, gcPc>>
          => QueueStored'
    BY DEF QueueStored, Stored
  <1>5. HeldStored /\ UNCHANGED <<gcPc, gcHold, put, building, finished, disk, content, nextFile>>
          => HeldStored'
    BY DEF HeldStored, BuildingFiles, Stored
  <1> QED  BY <1>1, <1>2, <1>3, <1>4, <1>5

-----------------------------------------------------------------------------
LEMMA WriteInlineData ==
  ASSUME FileInv, DataInv, NEW k \in Key, NEW kind \in {"inline", "large"},
         WriteInline(k, kind), UNCHANGED levelMerge
  PROVE  DataInv'
  <1>i. /\ BaseType /\ UserType
    BY TypeParts DEF FileInv
  <1>d. /\ NewestStored /\ Covered /\ FlushStored /\ QueueStored /\ HeldStored
    BY DEF DataInv
  <1>u. UNCHANGED <<levelMerge, put, flushed, content, disk, meta, nextFile, building,
                  finished, flushPc, sealed, flushFile, gcPc, gcInputs, gcTodo, gcQueue,
                  gcOut, gcHold, abandoned>>
    BY DEF WriteInline, baseVars, fileVars, builderVars, flushVars, gcVars, histVars
  <1>k. /\ QueueStored' /\ HeldStored'
    BY <1>d, <1>u, DataFrame
  <1>e. PICK e \in Entry : Write(e) /\ e.kind # "blob"
    <2>1. nextVal \in Val
      BY <1>i, ConstantFacts DEF WriteInline, UserType, Val
    <2> DEFINE e == [key |-> k, kind |-> kind, val |-> nextVal, file |-> NoFile, late |-> FALSE]
    <2>2. e \in Entry /\ e.kind # "blob"
      BY <2>1, EntryFacts
    <2>3. Write(e)
      BY DEF WriteInline
    <2> HIDE DEF e
    <2> QED  BY <2>2, <2>3
  <1>w. /\ \A s \in 1..seq : entry'[s] = entry[s]
        /\ ToSeparate' = ToSeparate /\ ToSeparate \subseteq 1..seq
    <2>1. /\ \A s \in 1..seq : entry'[s] = entry[s]
          /\ ToSeparate' = ToSeparate
      BY <1>i, <1>u, <1>e, WriteFacts
    <2> QED  BY <1>i, <2>1 DEF ToSeparate, BaseType
  <1>1. NewestStored'
    BY <1>i, <1>d, <1>u, <1>e, NewestStoredWrite
  <1>2. Covered'
    BY <1>i, <1>d, <1>u, <1>e, CoveredWrite
  <1>3. FlushStored'
    BY <1>d, <1>u, <1>w DEF FlushStored, Stored
  <1> QED
    BY <1>k, <1>1, <1>2, <1>3 DEF DataInv

LEMMA PutAddData ==
  ASSUME FileInv, DataInv, NEW w \in Writer, NEW k \in Key, PutAdd(w, k),
         UNCHANGED levelMerge
  PROVE  DataInv'
  <1>i. /\ BaseType /\ FileType /\ NumberType /\ BuilderType /\ FlushType /\ JobType
        /\ UserType /\ Numbers /\ JobPhases /\ FlushPhases /\ EntryFiles
    BY TypeParts DEF FileInv
  <1>d. /\ NewestStored /\ Covered /\ FlushStored /\ QueueStored /\ HeldStored
    BY DEF DataInv
  <1>u. UNCHANGED <<levelMerge, bgError, seq, entry, flushed, snap, meta, obsolete, gcScore,
                  savedNext, flushPc, sealed, flushFile, gcPc, gcInputs, gcTodo, gcQueue,
                  gcOut, gcHold, purgePc, purgeOldest, purgeCand, lastWrite, lateSnap,
                  abandoned, crashes>>
    BY DEF PutAdd, baseVars, fileVars, flushVars, gcVars, purgeVars, histVars
  <1>k. Covered'
    BY <1>d, <1>u, DataFrame
  <1>v. nextVal \in Val
    BY <1>i, ConstantFacts DEF PutAdd, UserType, Val
  <1>f. PICK f \in File : /\ ForegroundAdd(k, nextVal, f)
                          /\ put' = [put EXCEPT ![w] = [key |-> k, val |-> nextVal, file |-> f]]
    BY DEF PutAdd
  <1>a. /\ BuildingFiles' = BuildingFiles \cup {f} /\ (f \notin BuildingFiles => f = nextFile)
        /\ nextFile' \in Nat /\ nextFile \in Nat /\ nextFile <= nextFile' /\ f < nextFile'
    <2>1. /\ NumberType' /\ Numbers'
          /\ BuildingFiles' = BuildingFiles \cup {f} /\ (f \notin BuildingFiles => f = nextFile)
      BY <1>u, <1>v, <1>f, ForegroundAddFacts
    <2> QED  BY <1>i, <1>f, <2>1 DEF NumberType, Numbers, ForegroundAdd
  <1>s. /\ \A g \in File : g # nextFile => content[g] \subseteq content'[g]
        /\ disk \subseteq disk' /\ f \in disk' /\ <<k, nextVal>> \in content'[f]
    <2>1. \A g \in File : g # nextFile => content[g] \subseteq content'[g]
      BY <1>i, <1>f DEF ForegroundAdd, FileType
    <2>2. disk \subseteq disk' /\ f \in disk' /\ <<k, nextVal>> \in content'[f]
      BY <1>i, <1>f DEF ForegroundAdd, FileType
    <2> QED  BY <2>1, <2>2
  <1>n. nextFile \in File => ~InUse(nextFile)
    BY FreshNumber DEF InUse, IsLive
  <1>1. NewestStored'
    <2>1. \A g \in File : InUse(g) => InUse(g)' /\ content[g] \subseteq content'[g]
      BY <1>u, <1>a, <1>s, <1>n DEF InUse
    <2> QED  BY <1>i, <1>d, <1>u, <1>s, <2>1, NewestStoredKept
  <1>2. FlushStored'
    <2>1. flushFile # nextFile
      BY <1>i DEF Numbers, FlushType, NumberType
    <2>2. ToSeparate # {} /\ flushPc \in {"built", "logged"} => flushFile \in File
      BY <1>i, ConstantFacts DEF FlushPhases, FlushType
    <2> QED  BY <1>d, <1>u, <1>s, <2>1, <2>2 DEF FlushStored, Stored, ToSeparate
  <1>3. QueueStored'
    <2>1. \A i \in GCJob : gcOut[i] # nextFile
      BY <1>i DEF Numbers, JobType, NumberType
    <2>2. \A i \in GCJob : \A x : InQueue(gcQueue[i], x) => gcOut[i] \in File
      <3>1. \A i \in GCJob : \A x : InQueue(gcQueue[i], x) => gcQueue[i] # <<>>
        BY QueueFacts
      <3> QED  BY <1>i, <3>1, ConstantFacts DEF JobPhases, JobType
    <2> QED  BY <1>i, <1>d, <1>u, <1>s, <2>1, <2>2 DEF QueueStored, Stored
  <1>4. HeldStored'
    <2>1. ASSUME NEW g \in File, NEW x \in Key, NEW v \in Val, g < nextFile,
                 g \in BuildingFiles => Stored(g, x, v)
          PROVE  g < nextFile' /\ (g \in BuildingFiles' => Stored(g, x, v)')
      <3>1. g \in Nat /\ g # nextFile
        BY <1>a, <2>1, ConstantFacts
      <3> QED  BY <1>a, <1>s, <2>1, <3>1 DEF Stored
    <2>2. \A i \in GCJob : gcPc[i] = "write" => gcHold[i] \in Held
      BY <1>i DEF JobPhases
    <2>3. \A x \in Writer : put[x] # NoPut => put[x] \in Held
      BY <1>i DEF BuilderType
    <2>4. put'[w] = [key |-> k, val |-> nextVal, file |-> f] /\ \A x \in Writer \ {w} : put'[x] = put[x]
      BY <1>i, <1>f DEF BuilderType
    <2>5. ASSUME NEW x \in Writer, put'[x] # NoPut
          PROVE  /\ put'[x].file < nextFile'
                 /\ put'[x].file \in BuildingFiles' => Stored(put[x].file, put[x].key, put[x].val)'
      <3>1. CASE x = w
        BY <1>a, <1>u, <1>s, <2>4, <3>1 DEF Stored
      <3>2. CASE x # w
        <4>1. put[x] \in Held /\ put'[x] = put[x]
          BY <2>3, <2>4, <2>5, <3>2
        <4>2. put[x].file \in File /\ put[x].key \in Key /\ put[x].val \in Val
          BY <4>1 DEF Held
        <4>3. /\ put[x].file < nextFile
              /\ put[x].file \in BuildingFiles => Stored(put[x].file, put[x].key, put[x].val)
          BY <1>d, <2>5, <4>1 DEF HeldStored
        <4> QED  BY <2>1, <4>1, <4>2, <4>3 DEF Stored
      <3> QED  BY <3>1, <3>2
    <2>6. ASSUME NEW i \in GCJob, gcPc[i] = "write"
          PROVE  /\ gcHold[i].file < nextFile'
                 /\ gcHold[i].file \in BuildingFiles' => Stored(gcHold[i].file, gcHold[i].key, gcHold[i].val)'
      <3>1. gcHold[i].file \in File /\ gcHold[i].key \in Key /\ gcHold[i].val \in Val
        BY <2>2, <2>6 DEF Held
      <3> QED  BY <1>d, <1>u, <2>1, <2>6, <3>1 DEF HeldStored, Stored
    <2> QED  BY <1>u, <2>5, <2>6 DEF HeldStored
  <1> QED
    BY <1>k, <1>1, <1>2, <1>3, <1>4 DEF DataInv

LEMMA PutWriteData ==
  ASSUME FileInv, DataInv, NEW w \in Writer, PutWrite(w), UNCHANGED levelMerge
  PROVE  DataInv'
  <1>i. /\ BaseType /\ BuilderType /\ Owners /\ Inputs
    BY TypeParts DEF FileInv
  <1>d. /\ NewestStored /\ Covered /\ FlushStored /\ QueueStored /\ HeldStored
    BY DEF DataInv
  <1>u. UNCHANGED <<levelMerge, flushed, content, disk, meta, nextFile, building, finished,
                  flushPc, sealed, flushFile, gcPc, gcInputs, gcTodo, gcQueue, gcOut,
                  gcHold, abandoned>>
    BY DEF PutWrite, baseVars, fileVars, builderVars, flushVars, gcVars, histVars
  <1>k. QueueStored'
    BY <1>d, <1>u, DataFrame
  <1>v. put[w].key \in Key /\ put[w].val \in Val /\ put[w].file \in File
    BY <1>i DEF PutWrite, BuilderType, Held
  <1>e. PICK e \in Entry :
          /\ Write(e)
          /\ ~e.late => e.file \in BuildingFiles /\ Stored(e.file, e.key, e.val)
    <2> DEFINE late == put[w].file \notin BuildingFiles
               e == BlobEntry(put[w].key, put[w].val, put[w].file, late)
    <2>1. e \in Entry /\ e.key = put[w].key /\ e.val = put[w].val /\ e.file = put[w].file /\ e.late = late
      <3>1. late \in BOOLEAN  OBVIOUS
      <3> HIDE DEF late
      <3> QED  BY <1>v, <3>1, EntryFacts
    <2>2. Write(e)
      BY DEF PutWrite
    <2>3. ~late => Stored(put[w].file, put[w].key, put[w].val)
      BY <1>d DEF PutWrite, HeldStored
    <2> HIDE DEF e
    <2> QED  BY <2>1, <2>2, <2>3
  <1>w. /\ \A s \in 1..seq : entry'[s] = entry[s]
        /\ ToSeparate' = ToSeparate /\ ToSeparate \subseteq 1..seq
    <2>1. /\ \A s \in 1..seq : entry'[s] = entry[s]
          /\ ToSeparate' = ToSeparate
      BY <1>i, <1>u, <1>e, WriteFacts
    <2> QED  BY <1>i, <2>1 DEF ToSeparate, BaseType
  <1>b. \A f \in BuildingFiles : InUse(f) /\ \A j \in GCJob : f \notin gcInputs[j]
    BY <1>i DEF InUse, Owners, Inputs
  <1>1. NewestStored'
    BY <1>i, <1>d, <1>u, <1>e, <1>b, NewestStoredWrite
  <1>2. Covered'
    BY <1>i, <1>d, <1>u, <1>e, <1>b, CoveredWrite
  <1>3. FlushStored'
    BY <1>d, <1>u, <1>w DEF FlushStored, Stored
  <1>4. HeldStored'
    <2>1. \A x \in Writer : put'[x] = NoPut \/ put'[x] = put[x]
      BY <1>i DEF PutWrite, BuilderType
    <2> QED  BY <1>d, <1>u, <2>1 DEF HeldStored, Stored, BuildingFiles
  <1> QED
    BY <1>k, <1>1, <1>2, <1>3, <1>4 DEF DataInv

LEMMA TakeSnapshotData ==
  ASSUME FileInv, DataInv, NEW r \in Reader, TakeSnapshot(r), UNCHANGED levelMerge
  PROVE  DataInv'
  <1>d. /\ NewestStored /\ Covered /\ FlushStored /\ QueueStored /\ HeldStored
    BY DEF DataInv
  <1>u. UNCHANGED <<levelMerge, put, seq, entry, flushed, content, disk, meta, nextFile,
                  building, finished, flushPc, sealed, flushFile, gcPc, gcInputs, gcTodo,
                  gcQueue, gcOut, gcHold, abandoned>>
    BY DEF TakeSnapshot, baseVars, fileVars, builderVars, flushVars, gcVars, histVars
  <1>k. /\ NewestStored' /\ Covered' /\ FlushStored' /\ QueueStored' /\ HeldStored'
    BY <1>d, <1>u, DataFrame
  <1> QED
    BY <1>k DEF DataInv

LEMMA ReleaseSnapshotData ==
  ASSUME FileInv, DataInv, NEW r \in Reader, ReleaseSnapshot(r), UNCHANGED levelMerge
  PROVE  DataInv'
  <1>d. /\ NewestStored /\ Covered /\ FlushStored /\ QueueStored /\ HeldStored
    BY DEF DataInv
  <1>u. UNCHANGED <<levelMerge, put, seq, entry, flushed, content, disk, meta, nextFile,
                  building, finished, flushPc, sealed, flushFile, gcPc, gcInputs, gcTodo,
                  gcQueue, gcOut, gcHold, abandoned>>
    BY DEF ReleaseSnapshot, baseVars, fileVars, builderVars, flushVars, gcVars, histVars
  <1>k. /\ NewestStored' /\ Covered' /\ FlushStored' /\ QueueStored' /\ HeldStored'
    BY <1>d, <1>u, DataFrame
  <1> QED
    BY <1>k DEF DataInv

LEMMA SealMemTableData ==
  ASSUME FileInv, DataInv, SealMemTable, UNCHANGED levelMerge
  PROVE  DataInv'
  <1>i. /\ BaseType /\ JobType /\ JobPhases /\ EntryFiles
    BY TypeParts DEF FileInv
  <1>d. /\ NewestStored /\ Covered /\ FlushStored /\ QueueStored /\ HeldStored
    BY DEF DataInv
  <1>u. UNCHANGED <<levelMerge, put, seq, entry, flushed, content, disk, nextFile,
                  flushFile, gcPc, gcInputs, gcTodo, gcQueue, gcOut, gcHold, abandoned>>
    BY DEF SealMemTable, baseVars, fileVars, flushVars, gcVars, histVars
  <1>k. Covered'
    BY <1>d, <1>u, DataFrame
  <1>m. \A f \in File : meta[f] # "kAbsent" => meta'[f] # "kAbsent"
    BY Transits DEF SealMemTable, LogAndApply
  <1>l. \A f \in File : InUse(f) => InUse(f)'
    BY <1>i, Transits DEF SealMemTable, LogAndApply, InUse, IsLive, BuildingFiles, builderVars
  <1>q. \A i \in GCJob : \A x : InQueue(gcQueue[i], x) => gcOut[i] \in File
    <2>1. \A i \in GCJob : \A x : InQueue(gcQueue[i], x) => gcQueue[i] # <<>>
      BY QueueFacts
    <2> QED  BY <1>i, <2>1, ConstantFacts DEF JobPhases, JobType
  <1>1. NewestStored'
    BY <1>i, <1>d, <1>u, <1>l, NewestStoredKept
  <1>2. FlushStored'
    BY DEF SealMemTable, FlushStored
  <1>3. QueueStored'
    <2>1. \A i \in GCJob : \A x : InQueue(gcQueue[i], x) /\ meta[gcOut[i]] # "kAbsent"
                                => meta'[gcOut[i]] # "kAbsent"
      BY <1>q, <1>m
    <2> QED  BY <1>i, <1>d, <1>u, <2>1 DEF QueueStored, Stored
  <1>4. HeldStored'
    <2>1. BuildingFiles' = {}
      BY DEF SealMemTable, BuildingFiles, builderVars
    <2> QED  BY <1>d, <1>u, <2>1 DEF HeldStored
  <1> QED
    BY <1>k, <1>1, <1>2, <1>3, <1>4 DEF DataInv

LEMMA FlushBuildData ==
  ASSUME FileInv, DataInv, FlushBuild, UNCHANGED levelMerge
  PROVE  DataInv'
  <1>i. /\ BaseType /\ FileType /\ NumberType /\ BuilderType /\ JobType /\ Numbers
        /\ JobPhases /\ EntryFiles
    BY TypeParts DEF FileInv
  <1>d. /\ NewestStored /\ Covered /\ FlushStored /\ QueueStored /\ HeldStored
    BY DEF DataInv
  <1>u. UNCHANGED <<levelMerge, put, seq, entry, flushed, meta, building, finished, sealed,
                  gcPc, gcInputs, gcTodo, gcQueue, gcOut, gcHold, abandoned>>
    BY DEF FlushBuild, baseVars, fileVars, builderVars, flushVars, gcVars, histVars
  <1>k. Covered'
    BY <1>d, <1>u, DataFrame
  <1>s. /\ \A f \in File : f # nextFile => content[f] \subseteq content'[f]
        /\ disk \subseteq disk' /\ nextFile \in Nat /\ nextFile' \in Nat /\ nextFile <= nextFile'
    BY <1>i DEF FlushBuild, FileType, NumberType
  <1>n. nextFile \in File => ~InUse(nextFile)
    BY FreshNumber DEF InUse, IsLive
  <1>1. NewestStored'
    <2>1. \A f \in File : InUse(f) => InUse(f)' /\ content[f] \subseteq content'[f]
      BY <1>u, <1>s, <1>n DEF InUse, BuildingFiles
    <2> QED  BY <1>i, <1>d, <1>u, <1>s, <2>1, NewestStoredKept
  <1>2. FlushStored'
    <2>1. ToSeparate' = ToSeparate
      BY <1>u DEF ToSeparate
    <2>2. SUFFICES ASSUME NEW s \in ToSeparate
                   PROVE  /\ nextFile \in disk' /\ flushFile' = nextFile
                          /\ <<entry[s].key, entry[s].val>> \in content'[nextFile]
      BY <1>u, <2>1 DEF FlushStored, Stored
    <2>3. /\ content' = [content EXCEPT ![nextFile] =
                           {<<entry[t].key, entry[t].val>> : t \in ToSeparate}]
          /\ disk' = disk \cup {nextFile} /\ flushFile' = nextFile /\ nextFile \in File
      BY <2>2 DEF FlushBuild
    <2> QED  BY <1>i, <2>2, <2>3 DEF FileType
  <1>3. QueueStored'
    <2>1. \A i \in GCJob : \A x : InQueue(gcQueue[i], x) => gcOut[i] \in File /\ gcOut[i] # nextFile
      <3>1. \A i \in GCJob : \A x : InQueue(gcQueue[i], x) => gcQueue[i] # <<>>
        BY QueueFacts
      <3> QED  BY <1>i, <3>1, ConstantFacts DEF JobPhases, JobType, Numbers, NumberType
    <2> QED  BY <1>d, <1>u, <1>s, <2>1 DEF QueueStored, Stored
  <1>4. HeldStored'
    <2>1. BuildingFiles' = BuildingFiles /\ \A f \in BuildingFiles : f \in File /\ f # nextFile
      BY <1>i, <1>u, <1>s, ConstantFacts DEF BuildingFiles, Numbers
    <2>2. \A w \in Writer : put[w] # NoPut => put[w].file \in Nat
      BY <1>i, ConstantFacts DEF BuilderType, Held
    <2>3. \A j \in GCJob : gcPc[j] = "write" => gcHold[j].file \in Nat
      BY <1>i, ConstantFacts DEF JobPhases, Held
    <2> QED  BY <1>d, <1>u, <1>s, <2>1, <2>2, <2>3 DEF HeldStored, Stored
  <1> QED
    BY <1>k, <1>1, <1>2, <1>3, <1>4 DEF DataInv

LEMMA FlushFinishData ==
  ASSUME FileInv, DataInv, FlushFinish, UNCHANGED levelMerge
  PROVE  DataInv'
  <1>i. /\ BaseType /\ FileType /\ FlushType /\ JobType /\ JobPhases /\ EntryFiles
    BY TypeParts DEF FileInv
  <1>d. /\ NewestStored /\ Covered /\ FlushStored /\ QueueStored /\ HeldStored
    BY DEF DataInv
  <1>u. UNCHANGED <<levelMerge, put, seq, entry, flushed, content, disk, nextFile, building,
                  finished, sealed, flushFile, gcPc, gcInputs, gcTodo, gcQueue, gcOut,
                  gcHold, abandoned>>
    BY DEF FlushFinish, baseVars, fileVars, builderVars, flushVars, gcVars, histVars
  <1>k. /\ Covered' /\ HeldStored'
    BY <1>d, <1>u, DataFrame
  <1>m. \A f \in File : meta[f] # "kAbsent" => meta'[f] # "kAbsent"
    BY <1>i, Transits, ConstantFacts DEF FlushFinish, LogAndApply, FileType, FlushType
  <1>l. \A f \in File : InUse(f) => InUse(f)'
    BY <1>i, <1>u, Transits, ConstantFacts DEF FlushFinish, LogAndApply, FileType, FlushType,
       InUse, IsLive, BuildingFiles
  <1>q. \A i \in GCJob : \A x : InQueue(gcQueue[i], x) => gcOut[i] \in File
    <2>1. \A i \in GCJob : \A x : InQueue(gcQueue[i], x) => gcQueue[i] # <<>>
      BY QueueFacts
    <2> QED  BY <1>i, <2>1, ConstantFacts DEF JobPhases, JobType
  <1>1. NewestStored'
    BY <1>i, <1>d, <1>u, <1>l, NewestStoredKept
  <1>2. FlushStored'
    BY <1>d, <1>u DEF FlushFinish, FlushStored, ToSeparate, Stored
  <1>3. QueueStored'
    <2>1. \A i \in GCJob : \A x : InQueue(gcQueue[i], x) /\ meta[gcOut[i]] # "kAbsent"
                                => meta'[gcOut[i]] # "kAbsent"
      BY <1>q, <1>m
    <2> QED  BY <1>i, <1>d, <1>u, <2>1 DEF QueueStored, Stored
  <1> QED
    BY <1>k, <1>1, <1>2, <1>3 DEF DataInv

LEMMA FlushInstallData ==
  ASSUME FileInv, DataInv, FlushInstall, UNCHANGED levelMerge
  PROVE  DataInv'
  <1>i. /\ BaseType /\ FlushType /\ Owners /\ Inputs /\ FlushPhases
    BY TypeParts DEF FileInv
  <1>d. /\ NewestStored /\ Covered /\ FlushStored /\ QueueStored /\ HeldStored
    BY DEF DataInv
  <1>u. UNCHANGED <<levelMerge, put, seq, flushed, content, disk, meta, nextFile, building,
                  finished, sealed, flushFile, gcPc, gcInputs, gcTodo, gcQueue, gcOut,
                  gcHold, abandoned>>
    BY DEF FlushInstall, baseVars, fileVars, builderVars, flushVars, gcVars, histVars
  <1>k. /\ QueueStored' /\ HeldStored'
    BY <1>d, <1>u, DataFrame
  <1>e. /\ \A s \in 1..seq : entry[s] \in Entry
        /\ \A s \in 1..seq : s \notin ToSeparate => entry'[s] = entry[s]
        /\ \A s \in ToSeparate : s \in 1..seq =>
             entry'[s] = [entry[s] EXCEPT !.kind = "blob", !.file = flushFile]
    BY <1>i DEF FlushInstall, BaseType
  <1>f. /\ \A s \in 1..seq : entry'[s].key = entry[s].key /\ entry'[s].val = entry[s].val
                             /\ entry'[s].late = entry[s].late
        /\ \A s \in ToSeparate : s \in 1..seq => entry'[s].file = flushFile
    <2>1. ASSUME NEW x \in Entry, NEW f
          PROVE  /\ [x EXCEPT !.kind = "blob", !.file = f].key = x.key
                 /\ [x EXCEPT !.kind = "blob", !.file = f].val = x.val
                 /\ [x EXCEPT !.kind = "blob", !.file = f].late = x.late
                 /\ [x EXCEPT !.kind = "blob", !.file = f].file = f
      BY DEF Entry
    <2>2. ASSUME NEW s \in 1..seq
          PROVE  /\ entry'[s].key = entry[s].key /\ entry'[s].val = entry[s].val
                 /\ entry'[s].late = entry[s].late
                 /\ s \in ToSeparate => entry'[s].file = flushFile
      <3>1. CASE s \in ToSeparate
        <4>1. entry[s] \in Entry /\ entry'[s] = [entry[s] EXCEPT !.kind = "blob", !.file = flushFile]
          BY <1>e, <3>1
        <4> QED  BY <2>1, <4>1
      <3>2. CASE s \notin ToSeparate
        BY <1>e, <3>2
      <3> QED  BY <3>1, <3>2
    <2> QED  BY <2>2
  <1>g. \A s \in 1..seq : Newest(s)' => Newest(s)
    <2>1. \A s \in 1..seq : \A t \in (s + 1)..seq : t \in 1..seq
      BY <1>i DEF BaseType
    <2> QED  BY <1>u, <1>f, <2>1 DEF Newest
  <1>h. flushPc = "logged" /\ (ToSeparate # {} => flushFile \in File /\ meta[flushFile] = "kPendingLSM")
    BY <1>i, ConstantFacts DEF FlushInstall, FlushPhases, FlushType, Owners
  <1>1. NewestStored'
    <2>1. SUFFICES ASSUME NEW s \in 1..seq, Newest(s)', Reliable(s)'
                   PROVE  Stored(entry'[s].file, entry[s].key, entry[s].val) /\ InUse(entry'[s].file)
      BY <1>u, <1>f DEF NewestStored, Stored, InUse, BuildingFiles
    <2>2. CASE s \in ToSeparate
      BY <1>d, <1>f, <1>h, <2>2 DEF FlushStored, InUse, IsLive
    <2>3. CASE s \notin ToSeparate
      <3>1. Reliable(s) /\ Newest(s) /\ entry'[s] = entry[s]
        BY <1>u, <1>e, <1>g, <2>1, <2>3 DEF Reliable
      <3> QED  BY <1>d, <3>1 DEF NewestStored
    <2> QED  BY <2>2, <2>3
  <1>2. Covered'
    <2>1. SUFFICES ASSUME NEW j \in GCJob, NEW s \in 1..seq, Newest(s)', Reliable(s)',
                          entry'[s].file \in gcInputs[j]
                   PROVE  StillHas(j, s)'
      BY <1>u DEF Covered
    <2>2. s \notin ToSeparate
      BY <1>i, <1>f, <1>h, <2>1 DEF Inputs
    <2>3. Reliable(s) /\ Newest(s) /\ entry'[s] = entry[s]
      BY <1>u, <1>e, <1>g, <2>1, <2>2 DEF Reliable
    <2>4. StillHas(j, s)
      BY <1>d, <2>1, <2>3 DEF Covered
    <2> QED  BY <1>u, <2>3, <2>4 DEF StillHas
  <1>3. FlushStored'
    BY DEF FlushInstall, FlushStored
  <1> QED
    BY <1>k, <1>1, <1>2, <1>3 DEF DataInv

LEMMA OnFlushCompletedData ==
  ASSUME FileInv, DataInv, OnFlushCompleted, UNCHANGED levelMerge
  PROVE  DataInv'
  <1>i. /\ BaseType /\ JobType /\ JobPhases /\ EntryFiles
    BY TypeParts DEF FileInv
  <1>d. /\ NewestStored /\ Covered /\ FlushStored /\ QueueStored /\ HeldStored
    BY DEF DataInv
  <1>u. UNCHANGED <<levelMerge, put, seq, entry, content, disk, nextFile, building,
                  finished, sealed, gcPc, gcInputs, gcTodo, gcQueue, gcOut, gcHold,
                  abandoned>>
    BY DEF OnFlushCompleted, baseVars, fileVars, builderVars, flushVars, gcVars, histVars
  <1>k. /\ Covered' /\ HeldStored'
    BY <1>d, <1>u, DataFrame
  <1>m. \A f \in File : meta[f] # "kAbsent" => meta'[f] # "kAbsent"
    BY Transits DEF OnFlushCompleted
  <1>l. \A f \in File : InUse(f) => InUse(f)'
    BY <1>u, Transits DEF OnFlushCompleted, InUse, IsLive, BuildingFiles
  <1>q. \A i \in GCJob : \A x : InQueue(gcQueue[i], x) => gcOut[i] \in File
    <2>1. \A i \in GCJob : \A x : InQueue(gcQueue[i], x) => gcQueue[i] # <<>>
      BY QueueFacts
    <2> QED  BY <1>i, <2>1, ConstantFacts DEF JobPhases, JobType
  <1>1. NewestStored'
    BY <1>i, <1>d, <1>u, <1>l, NewestStoredKept
  <1>2. FlushStored'
    BY DEF OnFlushCompleted, FlushStored
  <1>3. QueueStored'
    <2>1. \A i \in GCJob : \A x : InQueue(gcQueue[i], x) /\ meta[gcOut[i]] # "kAbsent"
                                => meta'[gcOut[i]] # "kAbsent"
      BY <1>q, <1>m
    <2> QED  BY <1>i, <1>d, <1>u, <2>1 DEF QueueStored, Stored
  <1> QED
    BY <1>k, <1>1, <1>2, <1>3 DEF DataInv

LEMMA PickBlobGCData ==
  ASSUME FileInv, DataInv, NEW j \in GCJob, PickBlobGC(j), UNCHANGED levelMerge
  PROVE  DataInv'
  <1>i. /\ BaseType /\ JobType /\ JobPhases /\ EntryFiles
    BY TypeParts DEF FileInv
  <1>d. /\ NewestStored /\ Covered /\ FlushStored /\ QueueStored /\ HeldStored
    BY DEF DataInv
  <1>u. UNCHANGED <<levelMerge, put, seq, entry, flushed, content, disk, gcScore, nextFile,
                  building, finished, flushPc, sealed, flushFile, gcQueue, gcOut, gcHold,
                  abandoned>>
    BY DEF PickBlobGC, baseVars, fileVars, builderVars, flushVars, gcVars, histVars
  <1>k. FlushStored'
    BY <1>d, <1>u, DataFrame
  <1>p. PICK inputs \in SUBSET {f \in gcScore : CheckBlobFile(f)} :
          /\ gcInputs' = [gcInputs EXCEPT ![j] = inputs]
          /\ gcTodo' = [gcTodo EXCEPT ![j] = BuildIterator(inputs)]
          /\ meta' = [f \in File |-> IF f \in inputs THEN FileStateTransit("kGCBegin", meta[f])
                                                     ELSE meta[f]]
    BY DEF PickBlobGC
  <1>c. gcPc[j] = "idle" /\ gcPc' = [gcPc EXCEPT ![j] = "run"]
    BY DEF PickBlobGC
  <1>m. \A f \in File : meta[f] # "kAbsent" => meta'[f] # "kAbsent"
    BY <1>p, Transits
  <1>l. \A f \in File : InUse(f) => InUse(f)'
    BY <1>u, <1>p, Transits DEF InUse, IsLive, BuildingFiles
  <1>q. \A i \in GCJob : \A x : InQueue(gcQueue[i], x) => gcOut[i] \in File
    <2>1. \A i \in GCJob : \A x : InQueue(gcQueue[i], x) => gcQueue[i] # <<>>
      BY QueueFacts
    <2> QED  BY <1>i, <2>1, ConstantFacts DEF JobPhases, JobType
  <1>g. /\ \A i \in GCJob \ {j} : /\ gcInputs'[i] = gcInputs[i] /\ gcTodo'[i] = gcTodo[i]
                                  /\ gcPc'[i] = gcPc[i]
        /\ gcInputs'[j] = inputs /\ gcTodo'[j] = BuildIterator(inputs) /\ gcPc'[j] = "run"
    BY <1>i, <1>p, <1>c DEF JobType
  <1>1. NewestStored'
    BY <1>i, <1>d, <1>u, <1>l, NewestStoredKept
  <1>2. Covered'
    <2>1. \A s \in 1..seq : Newest(s) /\ Reliable(s) /\ entry[s].file \in inputs =>
              <<entry[s].file, entry[s].key, entry[s].val>> \in BuildIterator(inputs)
      <3>1. \A s \in 1..seq : entry[s].key \in Key /\ entry[s].val \in Val
        BY <1>i DEF BaseType, Entry
      <3> QED  BY <1>d, <3>1 DEF NewestStored, Stored, BuildIterator
    <2>2. ASSUME NEW i \in GCJob, NEW s \in 1..seq, Newest(s), Reliable(s),
                 entry[s].file \in gcInputs'[i], entry[s].file \in gcInputs[i] => StillHas(i, s)
          PROVE  StillHas(i, s)'
      <3>1. CASE i = j
        BY <1>u, <1>g, <2>1, <2>2, <3>1 DEF StillHas
      <3>2. CASE i # j
        BY <1>u, <1>g, <2>2, <3>2 DEF StillHas
      <3> QED  BY <3>1, <3>2
    <2> QED  BY <1>d, <1>u, <2>2, CoveredKept
  <1>3. QueueStored'
    <2>1. \A i \in GCJob : \A x : InQueue(gcQueue[i], x) /\ meta[gcOut[i]] # "kAbsent"
                                => meta'[gcOut[i]] # "kAbsent"
      BY <1>q, <1>m
    <2>2. \A i \in GCJob : gcPc'[i] = "rewrite" => gcPc[i] = "rewrite"
      BY <1>g
    <2> QED  BY <1>i, <1>d, <1>u, <2>1, <2>2 DEF QueueStored, Stored
  <1>4. HeldStored'
    <2>1. \A i \in GCJob : gcPc'[i] = "write" => gcPc[i] = "write"
      BY <1>g
    <2> QED  BY <1>d, <1>u, <2>1 DEF HeldStored, Stored, BuildingFiles
  <1> QED
    BY <1>k, <1>1, <1>2, <1>3, <1>4 DEF DataInv

LEMMA GCDiscardData ==
  ASSUME FileInv, DataInv, NEW j \in GCJob, GCDiscard(j), UNCHANGED levelMerge
  PROVE  DataInv'
  <1>i. /\ BaseType /\ JobType
    BY TypeParts DEF FileInv
  <1>d. /\ NewestStored /\ Covered /\ FlushStored /\ QueueStored /\ HeldStored
    BY DEF DataInv
  <1>u. UNCHANGED <<levelMerge, put, seq, entry, flushed, content, disk, meta, nextFile,
                  building, finished, flushPc, sealed, flushFile, gcPc, gcInputs, gcQueue,
                  gcOut, gcHold, abandoned>>
    BY DEF GCDiscard, baseVars, fileVars, builderVars, flushVars, gcVars, histVars
  <1>k. /\ NewestStored' /\ FlushStored' /\ QueueStored' /\ HeldStored'
    BY <1>d, <1>u, DataFrame
  <1>p. PICK r \in gcTodo[j] : /\ Discardable(r[1], r[2], r[3])
                               /\ gcTodo' = [gcTodo EXCEPT ![j] = @ \ {r}]
    BY DEF GCDiscard
  <1>1. Covered'
    <2>1. \A s \in 1..seq : Newest(s) /\ Reliable(s) =>
              <<entry[s].file, entry[s].key, entry[s].val>> # r
      <3> SUFFICES ASSUME NEW s \in 1..seq, Newest(s), Reliable(s),
                          <<entry[s].file, entry[s].key, entry[s].val>> = r
                   PROVE  FALSE
        OBVIOUS
      <3>1. Visible(s, r[2], seq) /\ entry[s].kind = "blob" /\ entry[s].file = r[1] /\ entry[s].val = r[3]
        BY <1>i, NewestIsVisible DEF Reliable
      <3> QED  BY <1>p, <3>1 DEF Discardable
    <2>2. \A i \in GCJob, s \in 1..seq : Newest(s) /\ Reliable(s) /\ StillHas(i, s) => StillHas(i, s)'
      BY <1>i, <1>u, <1>p, <2>1 DEF StillHas, JobType
    <2> QED  BY <1>d, <1>u, <2>2, CoveredKept
  <1> QED
    BY <1>k, <1>1 DEF DataInv

LEMMA GCKeepData ==
  ASSUME FileInv, DataInv, NEW j \in GCJob, GCKeep(j), UNCHANGED levelMerge
  PROVE  DataInv'
  <1>i. /\ BaseType /\ FileType /\ NumberType /\ BuilderType /\ FlushType /\ JobType
        /\ Numbers /\ JobPhases /\ FlushPhases /\ EntryFiles
    BY TypeParts DEF FileInv
  <1>d. /\ NewestStored /\ Covered /\ FlushStored /\ QueueStored /\ HeldStored
    BY DEF DataInv
  <1>u. UNCHANGED <<levelMerge, put, seq, entry, flushed, meta, building, finished, flushPc,
                  sealed, flushFile, gcPc, gcInputs, gcHold, abandoned>>
    BY DEF GCKeep, baseVars, fileVars, builderVars, flushVars, gcVars, histVars
  <1>p. PICK r \in gcTodo[j], f \in File :
          /\ f = IF gcOut[j] = NoFile THEN nextFile ELSE gcOut[j]
          /\ content' = [content EXCEPT ![f] = (IF gcOut[j] = NoFile THEN {} ELSE @)
                                               \cup {<<r[2], r[3]>>}]
          /\ disk' = disk \cup {f}
          /\ gcOut' = [gcOut EXCEPT ![j] = f]
          /\ gcQueue' = [gcQueue EXCEPT ![j] = Append(@, <<r[2], r[3]>>)]
          /\ gcTodo' = [gcTodo EXCEPT ![j] = @ \ {r}]
    BY DEF GCKeep
  <1>c. gcPc[j] = "run"
    BY DEF GCKeep
  <1>n. nextFile \in Nat /\ nextFile' \in Nat /\ nextFile <= nextFile'
    BY <1>i DEF GCKeep, NumberType
  <1>r. r \in File \X Key \X Val /\ <<r[2], r[3]>> \in Record
    BY <1>i, <1>p DEF JobType, Record
  <1>s. /\ disk \subseteq disk' /\ f \in disk' /\ <<r[2], r[3]>> \in content'[f]
        /\ \A g \in File : g # nextFile => content[g] \subseteq content'[g]
    BY <1>i, <1>p DEF FileType
  <1>o. gcOut[j] # NoFile => gcOut[j] # nextFile
    BY <1>i DEF Numbers, JobType, NumberType
  <1>t. nextFile \in File => ~InUse(nextFile)
    BY FreshNumber DEF InUse, IsLive
  <1>g. /\ \A i \in GCJob \ {j} : /\ gcOut'[i] = gcOut[i] /\ gcTodo'[i] = gcTodo[i]
                                  /\ gcQueue'[i] = gcQueue[i]
        /\ gcOut'[j] = f /\ gcTodo'[j] = gcTodo[j] \ {r}
        /\ \A x \in Record : InQueue(gcQueue'[j], x) <=> InQueue(gcQueue[j], x) \/ x = <<r[2], r[3]>>
    <2>1. /\ gcQueue'[j] = Append(gcQueue[j], <<r[2], r[3]>>) /\ gcQueue[j] \in Seq(Record)
          /\ \A i \in GCJob \ {j} : gcQueue'[i] = gcQueue[i]
      BY <1>i, <1>p DEF JobType
    <2>2. \A x \in Record : InQueue(gcQueue'[j], x) <=> InQueue(gcQueue[j], x) \/ x = <<r[2], r[3]>>
      BY <1>r, <2>1, QueueFacts
    <2> QED  BY <1>i, <1>p, <2>1, <2>2 DEF JobType
  <1>1. NewestStored'
    <2>1. \A g \in File : InUse(g) => InUse(g)' /\ content[g] \subseteq content'[g]
      BY <1>u, <1>s, <1>t DEF InUse, BuildingFiles
    <2> QED  BY <1>i, <1>d, <1>u, <1>s, <2>1, NewestStoredKept
  <1>2. Covered'
    <2>1. \A s \in 1..seq : <<entry[s].key, entry[s].val>> \in Record
      BY <1>i DEF BaseType, Entry, Record
    <2>2. \A s \in 1..seq : <<entry[s].file, entry[s].key, entry[s].val>> = r
              => <<entry[s].key, entry[s].val>> = <<r[2], r[3]>>
      OBVIOUS
    <2>3. ASSUME NEW i \in GCJob, NEW s \in 1..seq, StillHas(i, s) PROVE StillHas(i, s)'
      <3>1. CASE i = j
        BY <1>u, <1>g, <2>1, <2>2, <2>3, <3>1 DEF StillHas
      <3>2. CASE i # j
        BY <1>u, <1>g, <2>3, <3>2 DEF StillHas
      <3> QED  BY <3>1, <3>2
    <2> QED  BY <1>d, <1>u, <2>3, CoveredKept
  <1>3. FlushStored'
    <2>1. flushFile # nextFile
      BY <1>i DEF Numbers, FlushType, NumberType
    <2>2. ToSeparate # {} /\ flushPc \in {"built", "logged"} => flushFile \in File
      BY <1>i, ConstantFacts DEF FlushPhases, FlushType
    <2> QED  BY <1>d, <1>u, <1>s, <2>1, <2>2 DEF FlushStored, Stored, ToSeparate
  <1>4. QueueStored'
    <2>1. ASSUME NEW i \in GCJob, NEW k \in Key, NEW v \in Val, InQueue(gcQueue[i], <<k, v>>)
          PROVE  \/ <<k, v>> \in abandoned'
                 \/ /\ Stored(gcOut[i], k, v)'
                    /\ gcPc[i] = "rewrite" => meta[gcOut[i]] # "kAbsent"
      <3>1. gcOut[i] \in File /\ gcOut[i] # nextFile /\ gcOut'[i] = gcOut[i]
        <4>1. gcQueue[i] # <<>>
          BY <2>1, QueueFacts
        <4> QED  BY <1>i, <1>p, <1>g, <4>1, ConstantFacts DEF JobPhases, JobType, Numbers, NumberType
      <3> QED  BY <1>d, <1>u, <1>s, <2>1, <3>1 DEF QueueStored, Stored
    <2>2. ASSUME NEW i \in GCJob, NEW k \in Key, NEW v \in Val, InQueue(gcQueue'[i], <<k, v>>)
          PROVE  \/ <<k, v>> \in abandoned'
                 \/ /\ Stored(gcOut[i], k, v)'
                    /\ gcPc[i] = "rewrite" => meta[gcOut'[i]] # "kAbsent"
      <3>1. CASE InQueue(gcQueue[i], <<k, v>>)
        BY <2>1, <3>1, <1>g, <1>c
      <3>2. CASE ~InQueue(gcQueue[i], <<k, v>>)
        <4>1. i = j /\ <<k, v>> = <<r[2], r[3]>>
          BY <1>g, <2>2, <3>2 DEF Record
        <4> QED  BY <1>c, <1>s, <1>g, <4>1 DEF Stored
      <3> QED  BY <3>1, <3>2
    <2> QED  BY <1>u, <2>2 DEF QueueStored
  <1>5. HeldStored'
    <2>1. BuildingFiles' = BuildingFiles /\ \A g \in BuildingFiles : g \in File /\ g # nextFile
      BY <1>i, <1>u, <1>n, ConstantFacts DEF BuildingFiles, Numbers
    <2>2. \A w \in Writer : put[w] # NoPut => put[w].file \in Nat
      BY <1>i, ConstantFacts DEF BuilderType, Held
    <2>3. \A i \in GCJob : gcPc[i] = "write" => gcHold[i].file \in Nat
      BY <1>i, ConstantFacts DEF JobPhases, Held
    <2> QED  BY <1>d, <1>u, <1>n, <1>s, <2>1, <2>2, <2>3 DEF HeldStored, Stored
  <1> QED
    BY <1>1, <1>2, <1>3, <1>4, <1>5 DEF DataInv

LEMMA GCBuilderAddData ==
  ASSUME FileInv, DataInv, NEW j \in GCJob, GCBuilderAdd(j), UNCHANGED levelMerge
  PROVE  DataInv'
  <1>i. /\ BaseType /\ FileType /\ NumberType /\ BuilderType /\ FlushType /\ JobType
        /\ Numbers /\ JobPhases /\ FlushPhases /\ EntryFiles
    BY TypeParts DEF FileInv
  <1>d. /\ NewestStored /\ Covered /\ FlushStored /\ QueueStored /\ HeldStored
    BY DEF DataInv
  <1>u. UNCHANGED <<levelMerge, bgError, put, seq, entry, flushed, snap, meta, obsolete,
                  gcScore, savedNext, flushPc, sealed, flushFile, gcInputs, gcQueue, gcOut,
                  purgePc, purgeOldest, purgeCand, nextVal, lastWrite, lateSnap, abandoned,
                  crashes>>
    BY DEF GCBuilderAdd, baseVars, fileVars, flushVars, gcVars, purgeVars, histVars
  <1>f. PICK r \in gcTodo[j], f \in File :
          /\ ForegroundAdd(r[2], r[3], f)
          /\ gcHold' = [gcHold EXCEPT ![j] = [key |-> r[2], val |-> r[3], file |-> f]]
          /\ gcTodo' = [gcTodo EXCEPT ![j] = @ \ {r}]
    BY DEF GCBuilderAdd
  <1>v. r \in File \X Key \X Val /\ r[2] \in Key /\ r[3] \in Val
    BY <1>i, <1>f DEF JobType
  <1>a. /\ BuildingFiles' = BuildingFiles \cup {f} /\ (f \notin BuildingFiles => f = nextFile)
        /\ nextFile' \in Nat /\ nextFile \in Nat /\ nextFile <= nextFile' /\ f < nextFile'
    <2>1. /\ NumberType' /\ Numbers'
          /\ BuildingFiles' = BuildingFiles \cup {f} /\ (f \notin BuildingFiles => f = nextFile)
      BY <1>u, <1>v, <1>f, ForegroundAddFacts
    <2> QED  BY <1>i, <1>f, <2>1 DEF NumberType, Numbers, ForegroundAdd
  <1>s. /\ \A g \in File : g # nextFile => content[g] \subseteq content'[g]
        /\ disk \subseteq disk' /\ f \in disk' /\ <<r[2], r[3]>> \in content'[f]
    <2>1. \A g \in File : g # nextFile => content[g] \subseteq content'[g]
      BY <1>i, <1>f DEF ForegroundAdd, FileType
    <2>2. disk \subseteq disk' /\ f \in disk' /\ <<r[2], r[3]>> \in content'[f]
      BY <1>i, <1>f DEF ForegroundAdd, FileType
    <2> QED  BY <2>1, <2>2
  <1>n. nextFile \in File => ~InUse(nextFile)
    BY FreshNumber DEF InUse, IsLive
  <1>g. /\ \A i \in GCJob \ {j} : /\ gcPc'[i] = gcPc[i] /\ gcHold'[i] = gcHold[i]
                                  /\ gcTodo'[i] = gcTodo[i]
        /\ gcPc[j] = "run" /\ gcPc'[j] = "write" /\ gcTodo'[j] = gcTodo[j] \ {r}
        /\ gcHold'[j] = [key |-> r[2], val |-> r[3], file |-> f]
    BY <1>i, <1>f DEF GCBuilderAdd, JobType
  <1>1. NewestStored'
    <2>1. \A g \in File : InUse(g) => InUse(g)' /\ content[g] \subseteq content'[g]
      BY <1>u, <1>a, <1>s, <1>n DEF InUse
    <2> QED  BY <1>i, <1>d, <1>u, <1>s, <2>1, NewestStoredKept
  <1>2. Covered'
    <2>1. ASSUME NEW i \in GCJob, NEW s \in 1..seq, StillHas(i, s) PROVE StillHas(i, s)'
      <3>1. CASE i = j
        <4>1. CASE <<entry[s].file, entry[s].key, entry[s].val>> = r
          BY <1>u, <1>g, <3>1, <4>1 DEF StillHas
        <4>2. CASE <<entry[s].file, entry[s].key, entry[s].val>> # r
          BY <1>u, <1>g, <2>1, <3>1, <4>2 DEF StillHas
        <4> QED  BY <4>1, <4>2
      <3>2. CASE i # j
        BY <1>u, <1>g, <2>1, <3>2 DEF StillHas
      <3> QED  BY <3>1, <3>2
    <2> QED  BY <1>d, <1>u, <2>1, CoveredKept
  <1>3. FlushStored'
    <2>1. flushFile # nextFile
      BY <1>i DEF Numbers, FlushType, NumberType
    <2>2. ToSeparate # {} /\ flushPc \in {"built", "logged"} => flushFile \in File
      BY <1>i, ConstantFacts DEF FlushPhases, FlushType
    <2> QED  BY <1>d, <1>u, <1>s, <2>1, <2>2 DEF FlushStored, Stored, ToSeparate
  <1>4. QueueStored'
    <2>1. \A i \in GCJob : gcOut[i] # nextFile
      BY <1>i DEF Numbers, JobType, NumberType
    <2>2. \A i \in GCJob : \A x : InQueue(gcQueue[i], x) => gcOut[i] \in File
      <3>1. \A i \in GCJob : \A x : InQueue(gcQueue[i], x) => gcQueue[i] # <<>>
        BY QueueFacts
      <3> QED  BY <1>i, <3>1, ConstantFacts DEF JobPhases, JobType
    <2>3. \A i \in GCJob : gcPc'[i] = "rewrite" => gcPc[i] = "rewrite"
      BY <1>g
    <2> QED  BY <1>i, <1>d, <1>u, <1>s, <2>1, <2>2, <2>3 DEF QueueStored, Stored
  <1>5. HeldStored'
    <2>1. ASSUME NEW g \in File, NEW x \in Key, NEW v \in Val, g < nextFile,
                 g \in BuildingFiles => Stored(g, x, v)
          PROVE  g < nextFile' /\ (g \in BuildingFiles' => Stored(g, x, v)')
      <3>1. g \in Nat /\ g # nextFile
        BY <1>a, <2>1, ConstantFacts
      <3> QED  BY <1>a, <1>s, <2>1, <3>1 DEF Stored
    <2>2. \A i \in GCJob : gcPc[i] = "write" => gcHold[i] \in Held
      BY <1>i DEF JobPhases
    <2>3. \A x \in Writer : put[x] # NoPut => put[x] \in Held
      BY <1>i DEF BuilderType
    <2>4. ASSUME NEW x \in Writer, put[x] # NoPut
          PROVE  /\ put[x].file < nextFile'
                 /\ put[x].file \in BuildingFiles' => Stored(put[x].file, put[x].key, put[x].val)'
      <3>1. put[x].file \in File /\ put[x].key \in Key /\ put[x].val \in Val
        BY <2>3, <2>4 DEF Held
      <3> QED  BY <1>d, <1>u, <2>1, <2>4, <3>1 DEF HeldStored, Stored
    <2>5. ASSUME NEW i \in GCJob, gcPc'[i] = "write"
          PROVE  /\ gcHold'[i].file < nextFile'
                 /\ gcHold'[i].file \in BuildingFiles' =>
                      Stored(gcHold[i].file, gcHold[i].key, gcHold[i].val)'
      <3>1. CASE i = j
        BY <1>a, <1>s, <1>g, <3>1 DEF Stored
      <3>2. CASE i # j
        <4>1. gcHold[i] \in Held /\ gcHold'[i] = gcHold[i] /\ gcPc[i] = "write"
          BY <1>g, <2>2, <2>5, <3>2
        <4>2. gcHold[i].file \in File /\ gcHold[i].key \in Key /\ gcHold[i].val \in Val
          BY <4>1 DEF Held
        <4>3. /\ gcHold[i].file < nextFile
              /\ gcHold[i].file \in BuildingFiles => Stored(gcHold[i].file, gcHold[i].key, gcHold[i].val)
          BY <1>d, <4>1 DEF HeldStored
        <4> QED  BY <2>1, <4>1, <4>2, <4>3 DEF Stored
      <3> QED  BY <3>1, <3>2
    <2> QED  BY <1>u, <2>4, <2>5 DEF HeldStored
  <1> QED
    BY <1>1, <1>2, <1>3, <1>4, <1>5 DEF DataInv

LEMMA GCBuilderWriteData ==
  ASSUME FileInv, DataInv, NEW j \in GCJob, GCBuilderWrite(j), UNCHANGED levelMerge
  PROVE  DataInv'
  <1>i. /\ BaseType /\ JobType /\ Owners /\ Inputs /\ JobPhases
    BY TypeParts DEF FileInv
  <1>d. /\ NewestStored /\ Covered /\ FlushStored /\ QueueStored /\ HeldStored
    BY DEF DataInv
  <1>u. UNCHANGED <<levelMerge, put, flushed, content, disk, meta, nextFile, building,
                  finished, flushPc, sealed, flushFile, gcInputs, gcTodo, gcQueue, gcOut,
                  abandoned>>
    BY DEF GCBuilderWrite, baseVars, fileVars, builderVars, flushVars, gcVars, histVars
  <1>c. gcPc[j] = "write"
    BY DEF GCBuilderWrite
  <1>v. gcHold[j].key \in Key /\ gcHold[j].val \in Val /\ gcHold[j].file \in File
    BY <1>i, <1>c DEF JobPhases, Held
  <1>e. PICK e \in Entry :
          /\ Write(e) /\ e.key = gcHold[j].key
          /\ ~e.late => e.file \in BuildingFiles /\ Stored(e.file, e.key, e.val)
    <2> DEFINE late == gcHold[j].file \notin BuildingFiles
               e == BlobEntry(gcHold[j].key, gcHold[j].val, gcHold[j].file, late)
    <2>1. /\ e \in Entry /\ e.key = gcHold[j].key /\ e.val = gcHold[j].val /\ e.file = gcHold[j].file
          /\ e.late = late
      <3>1. late \in BOOLEAN  OBVIOUS
      <3> HIDE DEF late
      <3> QED  BY <1>v, <3>1, EntryFacts
    <2>2. Write(e)
      BY DEF GCBuilderWrite
    <2>3. ~late => Stored(gcHold[j].file, gcHold[j].key, gcHold[j].val)
      BY <1>c, <1>d DEF HeldStored
    <2> HIDE DEF e
    <2> QED  BY <2>1, <2>2, <2>3
  <1>w. /\ \A s \in 1..seq : entry'[s] = entry[s]
        /\ ToSeparate' = ToSeparate /\ ToSeparate \subseteq 1..seq
    <2>1. /\ \A s \in 1..seq : entry'[s] = entry[s]
          /\ ToSeparate' = ToSeparate
      BY <1>i, <1>u, <1>e, WriteFacts
    <2> QED  BY <1>i, <2>1 DEF ToSeparate, BaseType
  <1>b. \A f \in BuildingFiles : InUse(f) /\ \A i \in GCJob : f \notin gcInputs[i]
    BY <1>i DEF InUse, Owners, Inputs
  <1>g. /\ \A i \in GCJob \ {j} : gcPc'[i] = gcPc[i] /\ gcHold'[i] = gcHold[i]
        /\ gcPc'[j] = "run"
    BY <1>i DEF GCBuilderWrite, JobType
  <1>1. NewestStored'
    BY <1>i, <1>d, <1>u, <1>e, <1>b, NewestStoredWrite
  <1>2. Covered'
    <2>1. \A i \in GCJob : gcPc[i] = "write" /\ gcHold[i].key # e.key
                             => gcPc'[i] = "write" /\ gcHold'[i] = gcHold[i]
      BY <1>e, <1>g
    <2> QED  BY <1>i, <1>d, <1>u, <1>e, <1>b, <2>1, CoveredWrite
  <1>3. FlushStored'
    BY <1>d, <1>u, <1>w DEF FlushStored, Stored
  <1>4. QueueStored'
    <2>1. \A i \in GCJob : gcPc'[i] = "rewrite" => gcPc[i] = "rewrite"
      BY <1>g
    <2> QED  BY <1>d, <1>u, <2>1 DEF QueueStored, Stored
  <1>5. HeldStored'
    BY <1>d, <1>u, <1>g DEF HeldStored, Stored, BuildingFiles
  <1> QED
    BY <1>1, <1>2, <1>3, <1>4, <1>5 DEF DataInv

LEMMA GCBuilderRejectData ==
  ASSUME FileInv, DataInv, NEW j \in GCJob, GCBuilderReject(j), UNCHANGED levelMerge
  PROVE  DataInv'
  <1>i. /\ BaseType /\ JobType /\ EntryFiles
    BY TypeParts DEF FileInv
  <1>d. /\ NewestStored /\ Covered /\ FlushStored /\ QueueStored /\ HeldStored
    BY DEF DataInv
  <1>u. UNCHANGED <<levelMerge, put, seq, entry, flushed, content, disk, meta, nextFile,
                  building, finished, flushPc, sealed, flushFile, gcPc, gcInputs, gcQueue,
                  gcOut, gcHold>>
    BY DEF GCBuilderReject, baseVars, fileVars, builderVars, flushVars, gcVars
  <1>k. /\ FlushStored' /\ HeldStored'
    BY <1>d, <1>u, DataFrame
  <1>p. PICK r \in gcTodo[j] : /\ gcTodo' = [gcTodo EXCEPT ![j] = @ \ {r}]
                               /\ abandoned' = abandoned \cup {<<r[2], r[3]>>}
    BY DEF GCBuilderReject
  <1>1. NewestStored'
    BY <1>i, <1>d, <1>u, <1>p, NewestStoredKept DEF InUse, BuildingFiles
  <1>2. Covered'
    <2>1. \A s \in 1..seq : Reliable(s)' => <<entry[s].file, entry[s].key, entry[s].val>> # r
      BY <1>u, <1>p DEF Reliable
    <2>2. \A i \in GCJob, s \in 1..seq : Reliable(s)' /\ StillHas(i, s) => StillHas(i, s)'
      BY <1>i, <1>u, <1>p, <2>1 DEF StillHas, JobType
    <2> QED  BY <1>d, <1>u, <1>p, <2>2, CoveredKept
  <1>3. QueueStored'
    BY <1>d, <1>u, <1>p DEF QueueStored, Stored
  <1> QED
    BY <1>k, <1>1, <1>2, <1>3 DEF DataInv

LEMMA GCBuilderWriteFaultData ==
  ASSUME FileInv, DataInv, NEW j \in GCJob, GCBuilderWriteFault(j), UNCHANGED levelMerge
  PROVE  DataInv'
  <1>i. /\ BaseType /\ JobType /\ EntryFiles
    BY TypeParts DEF FileInv
  <1>d. /\ NewestStored /\ Covered /\ FlushStored /\ QueueStored /\ HeldStored
    BY DEF DataInv
  <1>u. UNCHANGED <<levelMerge, put, seq, entry, flushed, content, disk, meta, nextFile,
                  building, finished, flushPc, sealed, flushFile, gcInputs, gcTodo, gcQueue,
                  gcOut>>
    BY DEF GCBuilderWriteFault, baseVars, fileVars, builderVars, flushVars, gcVars
  <1>k. FlushStored'
    BY <1>d, <1>u, DataFrame
  <1>p. abandoned' = abandoned \cup {<<gcHold[j].key, gcHold[j].val>>}
    BY DEF GCBuilderWriteFault
  <1>g. /\ \A i \in GCJob \ {j} : gcPc'[i] = gcPc[i] /\ gcHold'[i] = gcHold[i]
        /\ gcPc'[j] = "run"
    BY <1>i DEF GCBuilderWriteFault, JobType
  <1>1. NewestStored'
    BY <1>i, <1>d, <1>u, <1>p, NewestStoredKept DEF InUse, BuildingFiles
  <1>2. Covered'
    <2>1. \A s \in 1..seq : Reliable(s)' => ~(gcHold[j].key = entry[s].key /\ gcHold[j].val = entry[s].val)
      BY <1>u, <1>p DEF Reliable
    <2>2. \A i \in GCJob, s \in 1..seq : Reliable(s)' /\ StillHas(i, s) => StillHas(i, s)'
      BY <1>u, <1>g, <2>1 DEF StillHas
    <2> QED  BY <1>d, <1>u, <1>p, <2>2, CoveredKept
  <1>3. QueueStored'
    <2>1. \A i \in GCJob : gcPc'[i] = "rewrite" => gcPc[i] = "rewrite"
      BY <1>g
    <2> QED  BY <1>d, <1>u, <1>p, <2>1 DEF QueueStored, Stored
  <1>4. HeldStored'
    BY <1>d, <1>u, <1>g DEF HeldStored, Stored, BuildingFiles
  <1> QED
    BY <1>k, <1>1, <1>2, <1>3, <1>4 DEF DataInv

LEMMA GCRunDoneData ==
  ASSUME FileInv, DataInv, NEW j \in GCJob, GCRunDone(j), UNCHANGED levelMerge
  PROVE  DataInv'
  <1>i. JobType
    BY TypeParts DEF FileInv
  <1>d. /\ NewestStored /\ Covered /\ FlushStored /\ QueueStored /\ HeldStored
    BY DEF DataInv
  <1>u. UNCHANGED <<levelMerge, put, seq, entry, flushed, content, disk, meta, nextFile,
                  building, finished, flushPc, sealed, flushFile, gcInputs, gcTodo, gcQueue,
                  gcOut, gcHold, abandoned>>
    BY DEF GCRunDone, baseVars, fileVars, builderVars, flushVars, gcVars, histVars
  <1>k. /\ NewestStored' /\ FlushStored'
    BY <1>d, <1>u, DataFrame
  <1>g. /\ \A i \in GCJob \ {j} : gcPc'[i] = gcPc[i]
        /\ gcPc[j] = "run" /\ gcPc'[j] = "install"
    BY <1>i DEF GCRunDone, JobType
  <1>1. Covered'
    <2>1. \A i \in GCJob, s \in 1..seq : StillHas(i, s) => StillHas(i, s)'
      BY <1>u, <1>g DEF StillHas
    <2> QED  BY <1>d, <1>u, <2>1, CoveredKept
  <1>2. QueueStored'
    <2>1. \A i \in GCJob : gcPc'[i] = "rewrite" => gcPc[i] = "rewrite"
      BY <1>g
    <2> QED  BY <1>d, <1>u, <2>1 DEF QueueStored, Stored
  <1>3. HeldStored'
    BY <1>d, <1>u, <1>g DEF HeldStored, Stored, BuildingFiles
  <1> QED
    BY <1>k, <1>1, <1>2, <1>3 DEF DataInv

LEMMA GCInstallData ==
  ASSUME FileInv, DataInv, NEW j \in GCJob, GCInstall(j), UNCHANGED levelMerge
  PROVE  DataInv'
  <1>i. /\ BaseType /\ FileType /\ JobType /\ JobPhases /\ EntryFiles
    BY TypeParts DEF FileInv
  <1>d. /\ NewestStored /\ Covered /\ FlushStored /\ QueueStored /\ HeldStored
    BY DEF DataInv
  <1>u. UNCHANGED <<levelMerge, put, seq, entry, flushed, content, disk, nextFile, building,
                  finished, flushPc, sealed, flushFile, gcInputs, gcTodo, gcQueue, gcOut,
                  gcHold, abandoned>>
    BY DEF GCInstall, baseVars, fileVars, builderVars, flushVars, gcVars, histVars
  <1>k. FlushStored'
    BY <1>d, <1>u, DataFrame
  <1>p. meta' = IF gcOut[j] = NoFile THEN meta ELSE [meta EXCEPT ![gcOut[j]] = "kPendingGC"]
    BY Transits DEF GCInstall, LogAndApply
  <1>o. gcOut[j] # NoFile => gcOut[j] \in File
    BY <1>i, ConstantFacts DEF JobType
  <1>m. \A f \in File : meta[f] # "kAbsent" => meta'[f] # "kAbsent"
    BY <1>i, <1>p, <1>o DEF FileType
  <1>l. \A f \in File : InUse(f) => InUse(f)'
    BY <1>i, <1>u, <1>p, <1>o DEF FileType, InUse, IsLive, BuildingFiles
  <1>q. \A i \in GCJob : \A x : InQueue(gcQueue[i], x) => gcOut[i] \in File
    <2>1. \A i \in GCJob : \A x : InQueue(gcQueue[i], x) => gcQueue[i] # <<>>
      BY QueueFacts
    <2> QED  BY <1>i, <2>1, ConstantFacts DEF JobPhases, JobType
  <1>g. /\ \A i \in GCJob \ {j} : gcPc'[i] = gcPc[i]
        /\ gcPc[j] = "install" /\ gcPc'[j] = "rewrite"
    BY <1>i DEF GCInstall, JobType
  <1>1. NewestStored'
    BY <1>i, <1>d, <1>u, <1>l, NewestStoredKept
  <1>2. Covered'
    <2>1. \A i \in GCJob, s \in 1..seq : StillHas(i, s) => StillHas(i, s)'
      BY <1>u, <1>g DEF StillHas
    <2> QED  BY <1>d, <1>u, <2>1, CoveredKept
  <1>3. QueueStored'
    <2>1. \A i \in GCJob : \A x : InQueue(gcQueue[i], x) /\ meta[gcOut[i]] # "kAbsent"
                                => meta'[gcOut[i]] # "kAbsent"
      BY <1>q, <1>m
    <2>2. \A x : InQueue(gcQueue[j], x) => meta'[gcOut[j]] # "kAbsent"
      BY <1>i, <1>p, <1>q, ConstantFacts DEF FileType
    <2> QED  BY <1>d, <1>u, <1>g, <2>1, <2>2 DEF QueueStored, Stored
  <1>4. HeldStored'
    BY <1>d, <1>u, <1>g DEF HeldStored, Stored, BuildingFiles
  <1> QED
    BY <1>k, <1>1, <1>2, <1>3, <1>4 DEF DataInv

LEMMA GCInstallFaultData ==
  ASSUME FileInv, DataInv, NEW j \in GCJob, GCInstallFault(j), UNCHANGED levelMerge
  PROVE  DataInv'
  <1>i. /\ BaseType /\ FileType /\ FlushType /\ JobType /\ Numbers /\ Owners /\ JobPhases
        /\ FlushPhases /\ EntryFiles
    BY TypeParts DEF FileInv
  <1>d. /\ NewestStored /\ Covered /\ FlushStored /\ QueueStored /\ HeldStored
    BY DEF DataInv
  <1>u. UNCHANGED <<levelMerge, put, seq, entry, flushed, meta, nextFile, building,
                  finished, flushPc, sealed, flushFile, gcInputs, gcTodo, gcQueue, gcOut,
                  gcHold>>
    BY DEF GCInstallFault, baseVars, fileVars, builderVars, flushVars, gcVars
  <1>o. gcOut[j] \in File /\ gcPc[j] = "install" /\ ~InUse(gcOut[j])
    BY <1>i, ConstantFacts DEF GCInstallFault, JobType, Owners, InUse, IsLive
  <1>s. /\ disk' = disk \ {gcOut[j]} /\ abandoned' = abandoned \cup content[gcOut[j]]
        /\ \A f \in File : f # gcOut[j] => content'[f] = content[f]
    BY <1>i DEF GCInstallFault, FileType
  <1>g. /\ \A i \in GCJob \ {j} : gcPc'[i] = gcPc[i]
        /\ gcPc[j] = "install" /\ gcPc'[j] = "rewrite"
    BY <1>i DEF GCInstallFault, JobType
  <1>q. \A i \in GCJob : \A x : InQueue(gcQueue[i], x) => gcOut[i] \in File
    <2>1. \A i \in GCJob : \A x : InQueue(gcQueue[i], x) => gcQueue[i] # <<>>
      BY QueueFacts
    <2> QED  BY <1>i, <2>1, ConstantFacts DEF JobPhases, JobType
  <1>1. NewestStored'
    <2>1. \A f \in File : InUse(f) => InUse(f)' /\ f # gcOut[j]
      BY <1>u, <1>o DEF InUse, BuildingFiles
    <2> QED  BY <1>i, <1>d, <1>u, <1>s, <2>1, NewestStoredKept
  <1>2. Covered'
    <2>1. \A i \in GCJob, s \in 1..seq : StillHas(i, s) => StillHas(i, s)'
      BY <1>u, <1>g DEF StillHas
    <2> QED  BY <1>d, <1>u, <1>s, <2>1, CoveredKept
  <1>3. FlushStored'
    <2>1. ToSeparate # {} /\ flushPc \in {"built", "logged"} => flushFile \in File /\ flushFile # gcOut[j]
      BY <1>i, ConstantFacts DEF FlushPhases, FlushType, Owners
    <2> QED  BY <1>d, <1>u, <1>s, <2>1 DEF FlushStored, Stored, ToSeparate
  <1>4. QueueStored'
    <2>1. \A i \in GCJob \ {j} : gcOut[i] # gcOut[j]
      BY <1>i, <1>o, ConstantFacts DEF Owners
    <2>2. \A k \in Key, v \in Val : InQueue(gcQueue[j], <<k, v>>) => <<k, v>> \in abandoned'
      BY <1>d, <1>s DEF QueueStored, Stored
    <2>3. \A i \in GCJob \ {j}, k \in Key, v \in Val :
             InQueue(gcQueue[i], <<k, v>>) /\ Stored(gcOut[i], k, v) => Stored(gcOut[i], k, v)'
      BY <1>u, <1>s, <1>q, <2>1 DEF Stored
    <2> QED  BY <1>d, <1>u, <1>s, <1>g, <2>2, <2>3 DEF QueueStored
  <1>5. HeldStored'
    <2>1. BuildingFiles' = BuildingFiles /\ \A f \in BuildingFiles : f \in File /\ f # gcOut[j]
      BY <1>i, <1>u DEF BuildingFiles, Numbers, Owners
    <2> QED  BY <1>d, <1>u, <1>s, <1>g, <2>1 DEF HeldStored, Stored
  <1> QED
    BY <1>1, <1>2, <1>3, <1>4, <1>5 DEF DataInv

LEMMA GCRewriteData ==
  ASSUME FileInv, DataInv, NEW j \in GCJob, GCRewrite(j), UNCHANGED levelMerge
  PROVE  DataInv'
  <1>i. /\ BaseType /\ JobType /\ Owners /\ Inputs /\ JobPhases
    BY TypeParts DEF FileInv
  <1>d. /\ NewestStored /\ Covered /\ FlushStored /\ QueueStored /\ HeldStored
    BY DEF DataInv
  <1>u. UNCHANGED <<levelMerge, put, flushed, content, disk, meta, nextFile, building,
                  finished, flushPc, sealed, flushFile, gcPc, gcInputs, gcTodo, gcOut,
                  gcHold, abandoned>>
    BY DEF GCRewrite, baseVars, fileVars, builderVars, flushVars, gcVars, histVars
  <1>k. HeldStored'
    BY <1>d, <1>u, DataFrame
  <1>q. gcPc[j] = "rewrite" /\ gcQueue[j] # <<>> /\ gcQueue[j] \in Seq(Record) /\ gcOut[j] \in File
    BY <1>i, ConstantFacts DEF GCRewrite, JobType, JobPhases
  <1>v. /\ Head(gcQueue[j]) \in Record /\ Head(gcQueue[j])[1] \in Key /\ Head(gcQueue[j])[2] \in Val
        /\ Head(gcQueue[j]) = <<Head(gcQueue[j])[1], Head(gcQueue[j])[2]>>
    <2>1. Head(gcQueue[j]) \in Record
      BY <1>q
    <2> QED  BY <2>1 DEF Record
  <1>e. PICK e \in Entry :
          /\ Write(e) /\ e.key = Head(gcQueue[j])[1] /\ e.val = Head(gcQueue[j])[2]
          /\ e.file = gcOut[j]
    <2> DEFINE k == Head(gcQueue[j])[1]
               v == Head(gcQueue[j])[2]
               late == FALSE
               e == BlobEntry(k, v, gcOut[j], late)
    <2>1. k \in Key /\ v \in Val /\ late \in BOOLEAN /\ gcOut[j] \in File
      BY <1>q, <1>v
    <2>2. Write(e)
      BY DEF GCRewrite
    <2> HIDE DEF k, v, late
    <2>3. e \in Entry /\ e.key = k /\ e.val = v /\ e.file = gcOut[j]
      BY <2>1, EntryFacts
    <2> HIDE DEF e
    <2>4. k = Head(gcQueue[j])[1] /\ v = Head(gcQueue[j])[2]
      BY DEF k, v
    <2> QED  BY <2>2, <2>3, <2>4
  <1>w. /\ \A s \in 1..seq : entry'[s] = entry[s]
        /\ ToSeparate' = ToSeparate /\ ToSeparate \subseteq 1..seq
    <2>1. /\ \A s \in 1..seq : entry'[s] = entry[s]
          /\ ToSeparate' = ToSeparate
      BY <1>i, <1>u, <1>e, WriteFacts
    <2> QED  BY <1>i, <2>1 DEF ToSeparate, BaseType
  <1>t. /\ gcQueue'[j] = Tail(gcQueue[j]) /\ \A i \in GCJob \ {j} : gcQueue'[i] = gcQueue[i]
        /\ \A x \in Record : InQueue(gcQueue[j], x) <=> x = Head(gcQueue[j]) \/ InQueue(gcQueue'[j], x)
    <2>1. gcQueue'[j] = Tail(gcQueue[j]) /\ \A i \in GCJob \ {j} : gcQueue'[i] = gcQueue[i]
      BY <1>i DEF GCRewrite, JobType
    <2> QED  BY <1>q, <2>1, QueueFacts
  <1>o. <<e.key, e.val>> \notin abandoned => Stored(gcOut[j], e.key, e.val) /\ meta[gcOut[j]] = "kPendingGC"
    <2>1. e.key \in Key /\ e.val \in Val /\ InQueue(gcQueue[j], <<e.key, e.val>>)
      BY <1>e, <1>v, <1>t
    <2> QED  BY <1>i, <1>d, <1>q, <2>1, ConstantFacts DEF QueueStored, Owners
  <1>1. NewestStored'
    <2>1. <<e.key, e.val>> \notin abandoned => Stored(e.file, e.key, e.val) /\ InUse(e.file)
      BY <1>e, <1>o DEF InUse, IsLive
    <2> QED  BY <1>i, <1>d, <1>u, <1>e, <2>1, NewestStoredWrite
  <1>2. Covered'
    <2>1. <<e.key, e.val>> \notin abandoned => \A i \in GCJob : e.file \notin gcInputs[i]
      BY <1>i, <1>e, <1>o DEF Inputs
    <2>2. ASSUME NEW i \in GCJob, NEW k \in Key, NEW v \in Val, k # e.key, InQueue(gcQueue[i], <<k, v>>)
          PROVE  InQueue(gcQueue'[i], <<k, v>>)
      <3>1. <<k, v>> \in Record /\ <<k, v>> # Head(gcQueue[j])
        BY <1>e, <1>v, <2>2 DEF Record
      <3> QED  BY <1>t, <2>2, <3>1
    <2>3. UNCHANGED <<gcPc, gcHold, gcInputs, gcTodo, abandoned, flushed, sealed>>
      BY <1>u
    <2> QED  BY <1>i, <1>d, <1>e, <2>1, <2>2, <2>3, CoveredWrite
  <1>3. FlushStored'
    BY <1>d, <1>u, <1>w DEF FlushStored, Stored
  <1>4. QueueStored'
    <2>1. \A i \in GCJob, k \in Key, v \in Val :
            InQueue(gcQueue'[i], <<k, v>>) => InQueue(gcQueue[i], <<k, v>>)
      BY <1>t DEF Record
    <2> QED  BY <1>d, <1>u, <2>1 DEF QueueStored, Stored
  <1> QED
    BY <1>k, <1>1, <1>2, <1>3, <1>4 DEF DataInv

(* When a job retires its inputs it has looked at all their records and    *)
(* indexed again those that were newest: none is left there.               *)
LEMMA GCFinishData ==
  ASSUME FileInv, DataInv, NEW j \in GCJob, GCFinish(j), UNCHANGED levelMerge
  PROVE  DataInv'
  <1>i. /\ JobType /\ JobPhases /\ EntryFiles
    BY TypeParts DEF FileInv
  <1>d. /\ NewestStored /\ Covered /\ FlushStored /\ QueueStored /\ HeldStored
    BY DEF DataInv
  <1>u. UNCHANGED <<levelMerge, put, seq, entry, flushed, content, disk, nextFile, building,
                  finished, flushPc, sealed, flushFile, abandoned>>
    BY DEF GCFinish, baseVars, fileVars, builderVars, flushVars, histVars
  <1>k. FlushStored'
    BY <1>d, <1>u, DataFrame
  <1>g. /\ \A i \in GCJob \ {j} : /\ gcPc'[i] = gcPc[i] /\ gcInputs'[i] = gcInputs[i]
                                  /\ gcTodo'[i] = gcTodo[i] /\ gcQueue'[i] = gcQueue[i]
                                  /\ gcOut'[i] = gcOut[i] /\ gcHold'[i] = gcHold[i]
        /\ gcPc'[j] = "idle" /\ gcInputs'[j] = {} /\ gcQueue'[j] = <<>>
    BY <1>i DEF GCFinish, GCJobEnd, JobType
  <1>q. \A i \in GCJob : \A x : InQueue(gcQueue[i], x) => gcOut[i] \in File
    <2>1. \A i \in GCJob : \A x : InQueue(gcQueue[i], x) => gcQueue[i] # <<>>
      BY QueueFacts
    <2> QED  BY <1>i, <2>1, ConstantFacts DEF JobPhases, JobType
  <1>p. gcTodo[j] = {} /\ gcQueue[j] = <<>> /\ gcPc[j] # "write"
    BY <1>i DEF GCFinish, JobPhases
  <1>m. \A f \in File : /\ meta[f] # "kAbsent" => meta'[f] # "kAbsent"
                        /\ f \notin gcInputs[j] /\ IsLive(meta[f]) => IsLive(meta'[f])
    BY Transits DEF GCFinish, ReleaseGcFiles, DeleteInputBlobFiles, IsLive
  <1>n. \A s \in 1..seq : Newest(s) /\ Reliable(s) => entry[s].file \notin gcInputs[j]
    BY <1>d, <1>p, QueueFacts DEF Covered, StillHas
  <1>1. NewestStored'
    <2>1. ASSUME NEW s \in 1..seq, Newest(s)', Reliable(s)'
          PROVE  Stored(entry[s].file, entry[s].key, entry[s].val)' /\ InUse(entry[s].file)'
      <3>1. Newest(s) /\ Reliable(s) /\ entry[s].file \in File
        BY <1>i, <1>u, <2>1 DEF Newest, Reliable, EntryFiles
      <3>2. Stored(entry[s].file, entry[s].key, entry[s].val) /\ InUse(entry[s].file)
        BY <1>d, <3>1 DEF NewestStored
      <3>3. IsLive(meta[entry[s].file]) => IsLive(meta'[entry[s].file])
        BY <1>m, <1>n, <3>1
      <3> QED  BY <1>u, <3>2, <3>3 DEF Stored, InUse, BuildingFiles
    <2> QED  BY <1>u, <2>1 DEF NewestStored
  <1>2. Covered'
    <2>1. \A i \in GCJob, s \in 1..seq : i # j /\ StillHas(i, s) => StillHas(i, s)'
      BY <1>u, <1>g DEF StillHas
    <2>2. \A i \in GCJob, s \in 1..seq : entry[s].file \in gcInputs'[i]
                                          => i # j /\ entry[s].file \in gcInputs[i]
      BY <1>g
    <2> QED  BY <1>d, <1>u, <2>1, <2>2, CoveredKept
  <1>3. QueueStored'
    <2>1. ASSUME NEW i \in GCJob, NEW k \in Key, NEW v \in Val, InQueue(gcQueue'[i], <<k, v>>)
          PROVE  \/ <<k, v>> \in abandoned'
                 \/ /\ Stored(gcOut[i], k, v)'
                    /\ gcPc'[i] = "rewrite" => meta'[gcOut'[i]] # "kAbsent"
      <3>1. i # j
        BY <1>g, <2>1, QueueFacts
      <3>2. gcQueue'[i] = gcQueue[i] /\ gcOut'[i] = gcOut[i] /\ gcPc'[i] = gcPc[i] /\ gcOut[i] \in File
        BY <1>g, <1>q, <2>1, <3>1
      <3>3. meta[gcOut[i]] # "kAbsent" => meta'[gcOut'[i]] # "kAbsent"
        BY <1>m, <3>2
      <3> QED  BY <1>d, <1>u, <2>1, <3>2, <3>3 DEF QueueStored, Stored
    <2> QED  BY <2>1 DEF QueueStored
  <1>4. HeldStored'
    BY <1>d, <1>u, <1>g DEF HeldStored, Stored, BuildingFiles
  <1> QED
    BY <1>k, <1>1, <1>2, <1>3, <1>4 DEF DataInv

LEMMA GCFailData ==
  ASSUME FileInv, DataInv, NEW j \in GCJob, GCFail(j), UNCHANGED levelMerge
  PROVE  DataInv'
  <1>i. /\ BaseType /\ JobType /\ JobPhases /\ EntryFiles
    BY TypeParts DEF FileInv
  <1>d. /\ NewestStored /\ Covered /\ FlushStored /\ QueueStored /\ HeldStored
    BY DEF DataInv
  <1>u. UNCHANGED <<levelMerge, put, seq, entry, flushed, content, disk, nextFile, building,
                  finished, flushPc, sealed, flushFile, abandoned>>
    BY DEF GCFail, baseVars, fileVars, builderVars, flushVars, histVars
  <1>k. FlushStored'
    BY <1>d, <1>u, DataFrame
  <1>g. /\ \A i \in GCJob \ {j} : /\ gcPc'[i] = gcPc[i] /\ gcInputs'[i] = gcInputs[i]
                                  /\ gcTodo'[i] = gcTodo[i] /\ gcQueue'[i] = gcQueue[i]
                                  /\ gcOut'[i] = gcOut[i] /\ gcHold'[i] = gcHold[i]
        /\ gcPc'[j] = "idle" /\ gcInputs'[j] = {} /\ gcQueue'[j] = <<>>
    BY <1>i DEF GCFail, GCJobEnd, JobType
  <1>q. \A i \in GCJob : \A x : InQueue(gcQueue[i], x) => gcOut[i] \in File
    <2>1. \A i \in GCJob : \A x : InQueue(gcQueue[i], x) => gcQueue[i] # <<>>
      BY QueueFacts
    <2> QED  BY <1>i, <2>1, ConstantFacts DEF JobPhases, JobType
  <1>m. \A f \in File : meta[f] # "kAbsent" => meta'[f] # "kAbsent"
    BY Transits DEF GCFail, ReleaseGcFiles
  <1>l. \A f \in File : InUse(f) => InUse(f)'
    BY <1>u, Transits DEF GCFail, ReleaseGcFiles, InUse, IsLive, BuildingFiles
  <1>1. NewestStored'
    BY <1>i, <1>d, <1>u, <1>l, NewestStoredKept
  <1>2. Covered'
    <2>1. \A i \in GCJob, s \in 1..seq : i # j /\ StillHas(i, s) => StillHas(i, s)'
      BY <1>u, <1>g DEF StillHas
    <2>2. \A i \in GCJob, s \in 1..seq : entry[s].file \in gcInputs'[i]
                                          => i # j /\ entry[s].file \in gcInputs[i]
      BY <1>g
    <2> QED  BY <1>d, <1>u, <2>1, <2>2, CoveredKept
  <1>3. QueueStored'
    <2>1. ASSUME NEW i \in GCJob, NEW k \in Key, NEW v \in Val, InQueue(gcQueue'[i], <<k, v>>)
          PROVE  \/ <<k, v>> \in abandoned'
                 \/ /\ Stored(gcOut[i], k, v)'
                    /\ gcPc'[i] = "rewrite" => meta'[gcOut'[i]] # "kAbsent"
      <3>1. i # j
        BY <1>g, <2>1, QueueFacts
      <3>2. gcQueue'[i] = gcQueue[i] /\ gcOut'[i] = gcOut[i] /\ gcPc'[i] = gcPc[i] /\ gcOut[i] \in File
        BY <1>g, <1>q, <2>1, <3>1
      <3>3. meta[gcOut[i]] # "kAbsent" => meta'[gcOut'[i]] # "kAbsent"
        BY <1>m, <3>2
      <3> QED  BY <1>d, <1>u, <2>1, <3>2, <3>3 DEF QueueStored, Stored
    <2> QED  BY <2>1 DEF QueueStored
  <1>4. HeldStored'
    BY <1>d, <1>u, <1>g DEF HeldStored, Stored, BuildingFiles
  <1> QED
    BY <1>k, <1>1, <1>2, <1>3, <1>4 DEF DataInv

LEMMA RecomputeGCScoreData ==
  ASSUME FileInv, DataInv, RecomputeGCScore, UNCHANGED levelMerge
  PROVE  DataInv'
  <1>d. /\ NewestStored /\ Covered /\ FlushStored /\ QueueStored /\ HeldStored
    BY DEF DataInv
  <1>u. UNCHANGED <<levelMerge, put, seq, entry, flushed, content, disk, meta, nextFile,
                  building, finished, flushPc, sealed, flushFile, gcPc, gcInputs, gcTodo,
                  gcQueue, gcOut, gcHold, abandoned>>
    BY DEF RecomputeGCScore, baseVars, fileVars, builderVars, flushVars, gcVars, histVars
  <1>k. /\ NewestStored' /\ Covered' /\ FlushStored' /\ QueueStored' /\ HeldStored'
    BY <1>d, <1>u, DataFrame
  <1> QED
    BY <1>k DEF DataInv

LEMMA PurgeReadOldestData ==
  ASSUME FileInv, DataInv, PurgeReadOldest, UNCHANGED levelMerge
  PROVE  DataInv'
  <1>d. /\ NewestStored /\ Covered /\ FlushStored /\ QueueStored /\ HeldStored
    BY DEF DataInv
  <1>u. UNCHANGED <<levelMerge, put, seq, entry, flushed, content, disk, meta, nextFile,
                  building, finished, flushPc, sealed, flushFile, gcPc, gcInputs, gcTodo,
                  gcQueue, gcOut, gcHold, abandoned>>
    BY DEF PurgeReadOldest, baseVars, fileVars, builderVars, flushVars, gcVars, histVars
  <1>k. /\ NewestStored' /\ Covered' /\ FlushStored' /\ QueueStored' /\ HeldStored'
    BY <1>d, <1>u, DataFrame
  <1> QED
    BY <1>k DEF DataInv

LEMMA PurgeCollectData ==
  ASSUME FileInv, DataInv, PurgeCollect, UNCHANGED levelMerge
  PROVE  DataInv'
  <1>i. /\ BaseType /\ JobType /\ Owners /\ States /\ JobPhases /\ EntryFiles
    BY TypeParts DEF FileInv
  <1>d. /\ NewestStored /\ Covered /\ FlushStored /\ QueueStored /\ HeldStored
    BY DEF DataInv
  <1>u. UNCHANGED <<levelMerge, put, seq, entry, flushed, content, disk, nextFile, building,
                  finished, flushPc, sealed, flushFile, gcPc, gcInputs, gcTodo, gcQueue,
                  gcOut, gcHold, abandoned>>
    BY DEF PurgeCollect, baseVars, fileVars, builderVars, flushVars, gcVars, histVars
  <1>k. /\ Covered' /\ FlushStored' /\ HeldStored'
    BY <1>d, <1>u, DataFrame
  <1>m. \A f \in File : meta[f] # "kObsolete" => meta'[f] = meta[f]
    BY <1>i DEF PurgeCollect, States
  <1>l. \A f \in File : InUse(f) => InUse(f)'
    BY <1>u, <1>m DEF InUse, IsLive, BuildingFiles
  <1>q. \A i \in GCJob : \A x : InQueue(gcQueue[i], x) => gcOut[i] \in File
    <2>1. \A i \in GCJob : \A x : InQueue(gcQueue[i], x) => gcQueue[i] # <<>>
      BY QueueFacts
    <2> QED  BY <1>i, <2>1, ConstantFacts DEF JobPhases, JobType
  <1>1. NewestStored'
    BY <1>i, <1>d, <1>u, <1>l, NewestStoredKept
  <1>2. QueueStored'
    <2>1. \A i \in GCJob : \A x : InQueue(gcQueue[i], x) => meta'[gcOut[i]] = meta[gcOut[i]]
      BY <1>i, <1>m, <1>q, ConstantFacts DEF Owners
    <2> QED  BY <1>d, <1>u, <2>1 DEF QueueStored, Stored
  <1> QED
    BY <1>k, <1>1, <1>2 DEF DataInv

LEMMA PurgeDeleteData ==
  ASSUME FileInv, DataInv, PurgeDelete, UNCHANGED levelMerge
  PROVE  DataInv'
  <1>i. /\ BaseType /\ FlushType /\ JobType /\ Numbers /\ Owners /\ JobPhases /\ FlushPhases
        /\ EntryFiles
    BY TypeParts DEF FileInv
  <1>d. /\ NewestStored /\ Covered /\ FlushStored /\ QueueStored /\ HeldStored
    BY DEF DataInv
  <1>u. UNCHANGED <<levelMerge, put, seq, entry, flushed, meta, nextFile, building,
                  finished, flushPc, sealed, flushFile, gcPc, gcInputs, gcTodo, gcQueue,
                  gcOut, gcHold, abandoned>>
    BY DEF PurgeDelete, baseVars, fileVars, builderVars, flushVars, gcVars, histVars
  <1>k. Covered'
    BY <1>d, <1>u, DataFrame
  <1>s. /\ \A f \in File : f \notin purgeCand => content'[f] = content[f]
        /\ disk' = disk \ purgeCand
    BY DEF PurgeDelete
  <1>c. \A f \in purgeCand : ~InUse(f)
    BY <1>i DEF Owners, InUse, IsLive
  <1>q. \A i \in GCJob : \A x : InQueue(gcQueue[i], x) => gcOut[i] \in File
    <2>1. \A i \in GCJob : \A x : InQueue(gcQueue[i], x) => gcQueue[i] # <<>>
      BY QueueFacts
    <2> QED  BY <1>i, <2>1, ConstantFacts DEF JobPhases, JobType
  <1>1. NewestStored'
    <2>1. \A f \in File : InUse(f) => InUse(f)' /\ f \notin purgeCand
      BY <1>u, <1>c DEF InUse, BuildingFiles
    <2> QED  BY <1>i, <1>d, <1>u, <1>s, <2>1, NewestStoredKept
  <1>2. FlushStored'
    <2>1. ToSeparate # {} /\ flushPc \in {"built", "logged"} =>
            flushFile \in File /\ flushFile \notin purgeCand
      BY <1>i, ConstantFacts DEF FlushPhases, FlushType, Owners
    <2> QED  BY <1>d, <1>u, <1>s, <2>1 DEF FlushStored, Stored, ToSeparate
  <1>3. QueueStored'
    <2>1. \A i \in GCJob : \A x : InQueue(gcQueue[i], x) => gcOut[i] \notin purgeCand
      BY <1>i, <1>q, ConstantFacts DEF Owners
    <2> QED  BY <1>d, <1>u, <1>s, <1>q, <2>1 DEF QueueStored, Stored
  <1>4. HeldStored'
    <2>1. BuildingFiles' = BuildingFiles /\ \A f \in BuildingFiles : f \in File /\ f \notin purgeCand
      BY <1>i, <1>u DEF BuildingFiles, Numbers, Owners
    <2> QED  BY <1>d, <1>u, <1>s, <2>1 DEF HeldStored, Stored
  <1> QED
    BY <1>k, <1>1, <1>2, <1>3, <1>4 DEF DataInv

LEMMA CrashData ==
  ASSUME FileInv, DataInv, CrashesKeepWrites, CrashAndRecover, UNCHANGED levelMerge
  PROVE  DataInv'
  <1>i. /\ BaseType /\ UserType /\ BuilderType /\ FlushPhases /\ EntryFiles /\ NewestStored
    BY TypeParts DEF FileInv, DataInv
  <1>c. ~SepBeforeFlush /\ ~WalLoss
    BY <1>i, ConstantFacts DEF CrashesKeepWrites, CrashAndRecover, UserType
  <1>e. seq' = seq /\ UNCHANGED abandoned /\ \A s \in 1..seq : entry'[s] = entry[s]
    BY <1>i, <1>c DEF CrashAndRecover, BaseType
  <1>p. /\ flushPc' = "idle" /\ \A j \in GCJob : gcPc'[j] = "idle" /\ gcInputs'[j] = {} /\ gcQueue'[j] = <<>>
        /\ \A w \in Writer : put'[w] = NoPut
    BY DEF CrashAndRecover
  <1>1. NewestStored'
    <2>1. SUFFICES ASSUME NEW s \in 1..seq, Newest(s)', Reliable(s)'
                   PROVE  Stored(entry[s].file, entry[s].key, entry[s].val)' /\ InUse(entry[s].file)'
      BY <1>e DEF NewestStored
    <2>2. \A t \in (s + 1)..seq : t \in 1..seq
      BY <1>i DEF BaseType
    <2>3. Newest(s) /\ Reliable(s) /\ entry[s].file \in File /\ entry'[s] = entry[s]
      BY <1>i, <1>e, <2>1, <2>2 DEF Newest, Reliable, EntryFiles
    <2>4. Stored(entry[s].file, entry[s].key, entry[s].val) /\ IsLive(meta[entry[s].file])
      BY <1>i, <1>c, <2>3 DEF NewestStored, InUse, FlushPhases
    <2>5. entry[s].file \in disk' /\ content'[entry[s].file] = content[entry[s].file]
      BY <2>3, <2>4 DEF CrashAndRecover, LiveFiles, Stored
    <2>6. IsLive(meta'[entry[s].file])
      BY <2>3, <2>4, Transits DEF CrashAndRecover, IsLive
    <2> QED  BY <2>3, <2>4, <2>5, <2>6 DEF Stored, InUse
  <1>2. Covered'
    BY <1>p DEF Covered
  <1>3. FlushStored'
    BY <1>p DEF FlushStored
  <1>4. QueueStored'
    BY <1>p, QueueFacts DEF QueueStored
  <1>5. HeldStored'
    BY <1>p DEF HeldStored
  <1> QED  BY <1>1, <1>2, <1>3, <1>4, <1>5 DEF DataInv

LEMMA InitData == Init => DataInv
  BY QueueFacts DEF Init, DataInv, NewestStored, Covered, FlushStored, QueueStored, HeldStored

LEMMA NextData == FileInv /\ DataInv /\ CrashesKeepWrites /\ [Next]_vars => DataInv'
  <1>1. DataInv /\ UNCHANGED vars => DataInv'
    BY DataFrame DEF DataInv, vars, baseVars, fileVars, builderVars, flushVars, gcVars, purgeVars,
           histVars
  <1> SUFFICES ASSUME FileInv, DataInv, CrashesKeepWrites, Next PROVE DataInv'
    BY <1>1
  <1>l. UNCHANGED levelMerge
    BY DEF Next
  <1>2. CASE UserStep
    BY <1>2, <1>l, WriteInlineData, PutAddData, PutWriteData, TakeSnapshotData,
       ReleaseSnapshotData DEF UserStep
  <1>3. CASE FlushStep
    BY <1>3, <1>l, SealMemTableData, FlushBuildData, FlushFinishData, FlushInstallData,
       OnFlushCompletedData DEF FlushStep
  <1>4. ASSUME NEW j \in GCJob, GCStep(j) PROVE DataInv'
    BY <1>4, <1>l, PickBlobGCData, GCDiscardData, GCKeepData, GCBuilderAddData,
       GCBuilderWriteData, GCBuilderRejectData, GCBuilderWriteFaultData, GCRunDoneData,
       GCInstallData, GCInstallFaultData, GCRewriteData, GCFinishData, GCFailData DEF GCStep
  <1>5. CASE RecomputeGCScore \/ PurgeStep
    BY <1>5, <1>l, RecomputeGCScoreData, PurgeReadOldestData, PurgeCollectData, PurgeDeleteData
       DEF PurgeStep
  <1>6. CASE CrashAndRecover
    BY <1>6, <1>l, CrashData
  <1> QED
    BY <1>2, <1>3, <1>4, <1>5, <1>6 DEF Next

(* What readers rely on holds at every moment: the newest separated version of
   a key is stored in the blob file its index names, that file is in use, and
   no GC job that has read past the version (blob_gc_job.cc, DoRunGC) has
   dropped it without a rewrite for it in its queue.  An indexed file has left
   the builder before a flush exposes it (table_builder.cc), and a job deletes
   its inputs only when none of them holds a newest version any more
   (DeleteInputBlobFiles).  A crash must not take a write away that a blob file
   was given up for: CrashesKeepWrites.                                       *)
THEOREM DataInvariant ==
  ASSUME CrashesKeepWrites
  PROVE  Spec => []DataInv
  <1>1. FileInv /\ DataInv /\ [Next]_vars => DataInv'
    BY NextData
  <1> QED  BY <1>1, InitData, FilesInvariant, PTL DEF Spec

(* TitanDBImpl::Get finds the value of the latest version of a key, whatever
   flushes, GC jobs and purges do at the same time and wherever a job fails,
   unless its index was written after its file was finished (late), its record
   is still in the builder's buffer, or a job gave it up after a failure.     *)
THEOREM SettledVersionsReadable ==
  ASSUME CrashesKeepWrites
  PROVE  Spec => []SettledReadable
  <1>1. FileInv /\ DataInv => SettledReadable
    <2> SUFFICES ASSUME FileInv, DataInv, NEW k \in Key, NEW s \in 1..seq,
                        Visible(s, k, seq), entry[s].kind = "blob", ~entry[s].late,
                        <<k, entry[s].val>> \notin abandoned,
                        entry[s].file = building => <<k, entry[s].val>> \notin buffered
                 PROVE  GetImplOK(s)
      BY DEF SettledReadable
    <2>i. BaseType /\ FlushPhases /\ Owners /\ NewestStored
      BY TypeParts DEF FileInv, DataInv
    <2>1. entry[s].key = k /\ Newest(s) /\ Reliable(s)
      BY <2>i, NewestIsVisible DEF Visible, Reliable
    <2>2. Stored(entry[s].file, k, entry[s].val) /\ InUse(entry[s].file)
      BY <2>i, <2>1 DEF NewestStored
    <2>3. CASE IsLive(meta[entry[s].file])
      BY <2>1, <2>2, <2>3 DEF GetImplOK, Readable, Stored, IsLive
    <2>4. CASE entry[s].file \in BuildingFiles
      <3>1. SepBeforeFlush
        BY <2>i, <2>4, SwitchesAssumption DEF FlushPhases
      <3> QED  BY <2>1, <2>2, <2>4, <3>1 DEF GetImplOK, Readable, Stored
    <2> QED  BY <2>2, <2>3, <2>4 DEF InUse
  <1> QED  BY <1>1, FilesInvariant, DataInvariant, PTL
-----------------------------------------------------------------------------
(***************************************************************************)
(* Snapshots, with values separated at flush: the inductive invariant      *)
(***************************************************************************)

\* Values are separated at flush, no failure is passed over, and a crash keeps
\* the base database's log: then no version is late and no record given up.
SeparatedAtFlush == ~SepBeforeFlush /\ ~GCFaults /\ (MaxCrash = 0 \/ ~WalLoss)

\* Write s is what a snapshot of sequence number at sees of its key.
Seen(s, at) == s <= at /\ \A t \in (s + 1)..seq : t <= at => entry[t].key # entry[s].key

AllReliable == abandoned = {} /\ \A s \in 1..seq : ~entry[s].late

\* What the purge thread has found is no newer than a snapshot taken in time.
PurgeBound ==
  /\ \A r \in Reader : snap[r] <= seq
  /\ purgePc = "oldest" =>
       /\ purgeOldest <= seq \/ purgeOldest = kMaxSequenceNumber
       /\ \A r \in Reader \ lateSnap : snap[r] # NoSnap => purgeOldest <= snap[r]

\* What such a snapshot sees is in a file that files_ holds; if that is obsolete
\* it became so after the snapshot.
SnapshotStored ==
  \A r \in Reader \ lateSnap, s \in 1..seq :
    snap[r] # NoSnap /\ Seen(s, snap[r]) /\ entry[s].kind = "blob" =>
      /\ Stored(entry[s].file, entry[s].key, entry[s].val)
      /\ meta[entry[s].file] # "kAbsent"
      /\ \A o \in obsolete : o[1] = entry[s].file => snap[r] <= o[2]

SnapInv == AllReliable /\ PurgeBound /\ SnapshotStored

LEMMA SeenIsVisible ==
  ASSUME BaseType, NEW s \in 1..seq, NEW at
  PROVE  Visible(s, entry[s].key, at) <=> Seen(s, at)
  BY DEF Visible, Seen, BaseType

LEMMA SeenNow ==
  ASSUME BaseType, NEW s \in 1..seq, Seen(s, seq)
  PROVE  Newest(s)
  BY DEF Seen, Newest, BaseType

LEMMA SnapFrame ==
  /\ AllReliable /\ UNCHANGED <<abandoned, seq, entry>> => AllReliable'
  /\ PurgeBound /\ UNCHANGED <<snap, seq, purgePc, purgeOldest, lateSnap>> => PurgeBound'
  /\ SnapshotStored /\ UNCHANGED <<lateSnap, seq, entry, snap, disk, content, meta, obsolete>>
       => SnapshotStored'
  <1>1. AllReliable /\ UNCHANGED <<abandoned, seq, entry>> => AllReliable'
    BY DEF AllReliable
  <1>2. PurgeBound /\ UNCHANGED <<snap, seq, purgePc, purgeOldest, lateSnap>> => PurgeBound'
    BY DEF PurgeBound
  <1>3. SnapshotStored /\ UNCHANGED <<lateSnap, seq, entry, snap, disk, content, meta, obsolete>>
          => SnapshotStored'
    BY DEF SnapshotStored, Seen, Stored
  <1> QED  BY <1>1, <1>2, <1>3

(* A snapshot sees nothing of a later write.                               *)
LEMMA SnapshotsWrite ==
  ASSUME BaseType, UserType, PurgeType, SnapInv, NEW e \in Entry, Write(e), ~e.late,
         UNCHANGED <<flushed, sealed, snap, lateSnap, purgePc, purgeOldest, abandoned>>,
         UNCHANGED <<content, disk, meta, obsolete>>
  PROVE  SnapInv'
  <1>d. AllReliable /\ PurgeBound /\ SnapshotStored
    BY DEF SnapInv
  <1>w. /\ seq' = seq + 1 /\ seq \in Nat /\ entry'[seq'] = e
        /\ \A s \in 1..seq : entry'[s] = entry[s]
        /\ \A s \in 1..seq' : s = seq' \/ s \in 1..seq
    BY WriteFacts DEF BaseType
  <1>1. AllReliable'
    BY <1>d, <1>w DEF AllReliable
  <1>2. PurgeBound'
    <2>1. \A r \in Reader : snap[r] \in Int
      BY ConstantFacts DEF UserType, NoSnap
    <2>2. purgeOldest \in Int
      BY ConstantFacts DEF PurgeType
    <2> QED  BY <1>d, <1>w, <2>1, <2>2 DEF PurgeBound
  <1>3. SnapshotStored'
    <2>1. SUFFICES ASSUME NEW r \in Reader \ lateSnap, NEW s \in 1..seq',
                          snap[r] # NoSnap, Seen(s, snap[r])', entry'[s].kind = "blob"
                   PROVE  /\ Stored(entry'[s].file, entry'[s].key, entry'[s].val)
                          /\ meta[entry'[s].file] # "kAbsent"
                          /\ \A o \in obsolete : o[1] = entry'[s].file => snap[r] <= o[2]
      BY DEF SnapshotStored, Stored
    <2>2. s \in 1..seq /\ entry'[s] = entry[s]
      <3>1. snap[r] \in Int /\ snap[r] <= seq /\ s <= snap[r]
        BY <1>d, <2>1, ConstantFacts DEF PurgeBound, UserType, NoSnap, Seen
      <3> QED  BY <1>w, <3>1
    <2>3. \A t \in (s + 1)..seq : t \in 1..seq /\ t \in (s + 1)..seq'
      BY <1>w, <2>2
    <2>4. Seen(s, snap[r])
      BY <1>w, <2>1, <2>2, <2>3 DEF Seen
    <2> QED  BY <1>d, <2>1, <2>2, <2>4 DEF SnapshotStored
  <1> QED  BY <1>1, <1>2, <1>3 DEF SnapInv

(* Nor does it lose anything in a step that keeps files_ and the records   *)
(* and retires files as of now.                                            *)
LEMMA SnapshotsKept ==
  ASSUME BaseType, UserType, EntryFiles, PurgeBound, SnapshotStored,
         UNCHANGED <<seq, entry, snap, lateSnap>>,
         \A f \in File : meta[f] # "kAbsent" =>
           /\ meta'[f] # "kAbsent" /\ (f \in disk => f \in disk') /\ content[f] \subseteq content'[f],
         \A o \in obsolete' : o \in obsolete \/ o[2] = seq
  PROVE  SnapshotStored'
  <1>1. SUFFICES ASSUME NEW r \in Reader \ lateSnap, NEW s \in 1..seq,
                        snap[r] # NoSnap, Seen(s, snap[r]), entry[s].kind = "blob"
                 PROVE  /\ Stored(entry[s].file, entry[s].key, entry[s].val)'
                        /\ meta'[entry[s].file] # "kAbsent"
                        /\ \A o \in obsolete' : o[1] = entry[s].file => snap[r] <= o[2]
    BY DEF SnapshotStored, Seen, Stored
  <1>2. /\ entry[s].file \in File /\ meta[entry[s].file] # "kAbsent"
        /\ Stored(entry[s].file, entry[s].key, entry[s].val)
        /\ \A o \in obsolete : o[1] = entry[s].file => snap[r] <= o[2]
    BY <1>1 DEF SnapshotStored, EntryFiles
  <1>3. snap[r] <= seq
    BY <1>1 DEF PurgeBound
  <1> QED  BY <1>2, <1>3 DEF Stored

LEMMA WriteInlineSnap ==
  ASSUME FileInv, DataInv, SnapInv, SeparatedAtFlush, NEW k \in Key,
         NEW kind \in {"inline", "large"}, WriteInline(k, kind)
  PROVE  SnapInv'
  <1>i. BaseType /\ UserType /\ PurgeType /\ JobType /\ JobPhases
    BY TypeParts DEF FileInv
  <1>u. UNCHANGED <<flushed, sealed, snap, lateSnap, purgePc, purgeOldest, abandoned, content, disk,
                    meta, obsolete>>
    BY DEF WriteInline, baseVars, fileVars, flushVars, purgeVars, histVars
  <1>e. PICK e \in Entry : Write(e) /\ ~e.late
    <2>1. nextVal \in Val
      BY <1>i, ConstantFacts DEF WriteInline, UserType, Val
    <2> DEFINE e == [key |-> k, kind |-> kind, val |-> nextVal, file |-> NoFile, late |-> FALSE]
    <2>2. e \in Entry /\ ~e.late
      BY <2>1, EntryFacts
    <2>3. Write(e)
      BY DEF WriteInline
    <2> HIDE DEF e
    <2> QED  BY <2>2, <2>3
  <1> QED  BY <1>i, <1>u, <1>e, SnapshotsWrite

LEMMA GCRewriteSnap ==
  ASSUME FileInv, DataInv, SnapInv, SeparatedAtFlush, NEW j \in GCJob, GCRewrite(j)
  PROVE  SnapInv'
  <1>i. BaseType /\ UserType /\ PurgeType /\ JobType /\ JobPhases
    BY TypeParts DEF FileInv
  <1>u. UNCHANGED <<flushed, sealed, snap, lateSnap, purgePc, purgeOldest, abandoned, content, disk,
                    meta, obsolete>>
    BY DEF GCRewrite, baseVars, fileVars, flushVars, purgeVars, histVars
  <1>e. PICK e \in Entry : Write(e) /\ ~e.late
    <2> DEFINE k == Head(gcQueue[j])[1]
               v == Head(gcQueue[j])[2]
               late == FALSE
               e == BlobEntry(k, v, gcOut[j], late)
    <2>1. k \in Key /\ v \in Val /\ gcOut[j] \in File
      <3>1. gcQueue[j] # <<>> /\ gcQueue[j] \in Seq(Record) /\ gcOut[j] \in File
        BY <1>i, ConstantFacts DEF GCRewrite, JobType, JobPhases
      <3>2. Head(gcQueue[j]) \in Record
        BY <3>1
      <3> QED  BY <3>1, <3>2 DEF Record
    <2>2. Write(e) /\ ~late /\ late \in BOOLEAN
      BY DEF GCRewrite
    <2> HIDE DEF k, v, late
    <2>3. e \in Entry /\ e.late = late
      BY <2>1, <2>2, EntryFacts
    <2> HIDE DEF e
    <2> QED  BY <2>2, <2>3
  <1> QED  BY <1>i, <1>u, <1>e, SnapshotsWrite

LEMMA TakeSnapshotSnap ==
  ASSUME FileInv, SnapInv, DataInv, SeparatedAtFlush, NEW r \in Reader, TakeSnapshot(r),
         UNCHANGED levelMerge
  PROVE  SnapInv'
  <1>i. /\ BaseType /\ UserType /\ States /\ FlushPhases
    BY TypeParts DEF FileInv
  <1>n. NewestStored /\ FlushStored
    BY DEF DataInv
  <1>d. /\ AllReliable /\ PurgeBound /\ SnapshotStored
    BY DEF SnapInv
  <1>u. UNCHANGED <<levelMerge, seq, entry, flushed, content, disk, meta, obsolete, sealed,
                  purgePc, purgeOldest, abandoned>>
    BY DEF TakeSnapshot, baseVars, fileVars, flushVars, purgeVars, histVars
  <1>k. AllReliable'
    BY <1>d, <1>u, SnapFrame
  <1>g. /\ snap'[r] = seq /\ \A q \in Reader \ {r} : snap'[q] = snap[q]
        /\ lateSnap \subseteq lateSnap' /\ seq \in Nat
        /\ r \notin lateSnap' => ~(purgePc = "oldest" /\ purgeOldest = kMaxSequenceNumber)
    BY <1>i DEF TakeSnapshot, UserType, BaseType
  <1>1. PurgeBound'
    <2>1. seq \in 0..MaxSeq /\ kMaxSequenceNumber > seq
      BY <1>i, ConstantFacts DEF BaseType, kMaxSequenceNumber
    <2> QED  BY <1>d, <1>u, <1>g, <2>1 DEF PurgeBound
  <1>2. SnapshotStored'
    <2>1. ASSUME NEW s \in 1..seq, Seen(s, seq), entry[s].kind = "blob"
          PROVE  /\ Stored(entry[s].file, entry[s].key, entry[s].val)
                 /\ IsLive(meta[entry[s].file])
      <3>1. Newest(s) /\ Reliable(s)
        BY <1>i, <1>d, <2>1, SeenNow DEF AllReliable, Reliable
      <3>2. BuildingFiles = {}
        BY <1>i DEF FlushPhases, SeparatedAtFlush
      <3> QED  BY <1>n, <3>1, <3>2 DEF NewestStored, InUse
    <2>2. \A s \in 1..seq : IsLive(meta[entry[s].file]) =>
             /\ meta[entry[s].file] # "kAbsent" /\ \A o \in obsolete : o[1] # entry[s].file
      BY <1>i DEF States, IsLive
    <2>3. SUFFICES ASSUME NEW q \in Reader \ lateSnap', NEW s \in 1..seq,
                          snap'[q] # NoSnap, Seen(s, snap'[q]), entry[s].kind = "blob"
                   PROVE  /\ Stored(entry[s].file, entry[s].key, entry[s].val)
                          /\ meta[entry[s].file] # "kAbsent"
                          /\ \A o \in obsolete : o[1] = entry[s].file => snap'[q] <= o[2]
      BY <1>u DEF SnapshotStored, Stored, Seen
    <2>4. CASE q = r
      BY <1>g, <2>1, <2>2, <2>3, <2>4
    <2>5. CASE q # r
      BY <1>d, <1>g, <2>3, <2>5 DEF SnapshotStored
    <2> QED  BY <2>4, <2>5
  <1> QED
    BY <1>k, <1>1, <1>2 DEF SnapInv

LEMMA ReleaseSnapshotSnap ==
  ASSUME FileInv, SnapInv, SeparatedAtFlush, NEW r \in Reader, ReleaseSnapshot(r),
         UNCHANGED levelMerge
  PROVE  SnapInv'
  <1>i. /\ BaseType /\ UserType
    BY TypeParts DEF FileInv
  <1>d. /\ AllReliable /\ PurgeBound /\ SnapshotStored
    BY DEF SnapInv
  <1>u. UNCHANGED <<levelMerge, seq, entry, flushed, content, disk, meta, obsolete, sealed,
                  purgePc, purgeOldest, abandoned>>
    BY DEF ReleaseSnapshot, baseVars, fileVars, flushVars, purgeVars, histVars
  <1>k. AllReliable'
    BY <1>d, <1>u, SnapFrame
  <1>g. /\ snap'[r] = NoSnap /\ \A q \in Reader \ {r} : snap'[q] = snap[q]
        /\ \A q \in Reader \ lateSnap' : q = r \/ q \in Reader \ lateSnap
    BY <1>i DEF ReleaseSnapshot, UserType
  <1>1. PurgeBound'
    <2>1. NoSnap <= seq
      BY <1>i DEF BaseType, NoSnap
    <2> QED  BY <1>d, <1>u, <1>g, <2>1 DEF PurgeBound
  <1>2. SnapshotStored'
    BY <1>d, <1>u, <1>g DEF SnapshotStored, Stored, Seen
  <1> QED
    BY <1>k, <1>1, <1>2 DEF SnapInv

LEMMA SealMemTableSnap ==
  ASSUME FileInv, SnapInv, SeparatedAtFlush, SealMemTable, UNCHANGED levelMerge
  PROVE  SnapInv'
  <1>i. /\ BaseType /\ UserType /\ EntryFiles
    BY TypeParts DEF FileInv
  <1>d. /\ AllReliable /\ PurgeBound /\ SnapshotStored
    BY DEF SnapInv
  <1>u. UNCHANGED <<levelMerge, seq, entry, flushed, snap, content, disk, obsolete, purgePc,
                  purgeOldest, lateSnap, abandoned>>
    BY DEF SealMemTable, baseVars, fileVars, purgeVars, histVars
  <1>k. /\ AllReliable' /\ PurgeBound'
    BY <1>d, <1>u, SnapFrame
  <1>m. \A f \in File : meta[f] # "kAbsent" => meta'[f] # "kAbsent"
    BY Transits DEF SealMemTable, LogAndApply
  <1>1. SnapshotStored'
    BY <1>i, <1>d, <1>u, <1>m, SnapshotsKept
  <1> QED
    BY <1>k, <1>1 DEF SnapInv

LEMMA FlushBuildSnap ==
  ASSUME FileInv, SnapInv, SeparatedAtFlush, FlushBuild, UNCHANGED levelMerge
  PROVE  SnapInv'
  <1>i. /\ BaseType /\ FileType /\ UserType /\ EntryFiles
    BY TypeParts DEF FileInv
  <1>d. /\ AllReliable /\ PurgeBound /\ SnapshotStored
    BY DEF SnapInv
  <1>u. UNCHANGED <<levelMerge, seq, entry, flushed, snap, meta, obsolete, sealed, purgePc,
                  purgeOldest, lateSnap, abandoned>>
    BY DEF FlushBuild, baseVars, fileVars, flushVars, purgeVars, histVars
  <1>k. /\ AllReliable' /\ PurgeBound'
    BY <1>d, <1>u, SnapFrame
  <1>m. /\ \A f \in File : meta[f] # "kAbsent" => content[f] \subseteq content'[f]
        /\ disk \subseteq disk'
    <2>1. nextFile \in File => meta[nextFile] = "kAbsent"
      BY FreshNumber
    <2> QED  BY <1>i, <2>1 DEF FlushBuild, FileType
  <1>1. SnapshotStored'
    BY <1>i, <1>d, <1>u, <1>m, SnapshotsKept
  <1> QED
    BY <1>k, <1>1 DEF SnapInv

LEMMA FlushFinishSnap ==
  ASSUME FileInv, SnapInv, SeparatedAtFlush, FlushFinish, UNCHANGED levelMerge
  PROVE  SnapInv'
  <1>i. /\ BaseType /\ FileType /\ FlushType /\ UserType /\ EntryFiles
    BY TypeParts DEF FileInv
  <1>d. /\ AllReliable /\ PurgeBound /\ SnapshotStored
    BY DEF SnapInv
  <1>u. UNCHANGED <<levelMerge, seq, entry, flushed, snap, content, disk, obsolete, sealed,
                  purgePc, purgeOldest, lateSnap, abandoned>>
    BY DEF FlushFinish, baseVars, fileVars, flushVars, purgeVars, histVars
  <1>k. /\ AllReliable' /\ PurgeBound'
    BY <1>d, <1>u, SnapFrame
  <1>m. \A f \in File : meta[f] # "kAbsent" => meta'[f] # "kAbsent"
    BY <1>i, Transits, ConstantFacts DEF FlushFinish, LogAndApply, FileType, FlushType
  <1>1. SnapshotStored'
    BY <1>i, <1>d, <1>u, <1>m, SnapshotsKept
  <1> QED
    BY <1>k, <1>1 DEF SnapInv

LEMMA FlushInstallSnap ==
  ASSUME FileInv, SnapInv, DataInv, SeparatedAtFlush, FlushInstall, UNCHANGED levelMerge
  PROVE  SnapInv'
  <1>i. /\ BaseType /\ FlushType /\ Owners /\ States /\ FlushPhases
    BY TypeParts DEF FileInv
  <1>n. NewestStored /\ FlushStored
    BY DEF DataInv
  <1>d. /\ AllReliable /\ PurgeBound /\ SnapshotStored
    BY DEF SnapInv
  <1>u. UNCHANGED <<levelMerge, seq, flushed, snap, content, disk, meta, obsolete, sealed,
                  flushFile, purgePc, purgeOldest, lateSnap, abandoned>>
    BY DEF FlushInstall, baseVars, fileVars, flushVars, purgeVars, histVars
  <1>k. PurgeBound'
    BY <1>d, <1>u, SnapFrame
  <1>e. \A s \in 1..seq : /\ entry[s] \in Entry
                          /\ s \notin ToSeparate => entry'[s] = entry[s]
                          /\ s \in ToSeparate =>
                               entry'[s] = [entry[s] EXCEPT !.kind = "blob", !.file = flushFile]
    BY <1>i DEF FlushInstall, BaseType
  <1>f. ASSUME NEW s \in 1..seq
        PROVE  /\ entry'[s].key = entry[s].key /\ entry'[s].val = entry[s].val
               /\ entry'[s].late = entry[s].late
               /\ s \in ToSeparate => entry'[s].file = flushFile
    <2>1. CASE s \in ToSeparate
      <3>1. entry[s] \in Entry /\ entry'[s] = [entry[s] EXCEPT !.kind = "blob", !.file = flushFile]
        BY <1>e, <2>1
      <3> QED  BY <3>1 DEF Entry
    <2>2. CASE s \notin ToSeparate
      BY <1>e, <2>2
    <2> QED  BY <2>1, <2>2
  <1>h. /\ flushPc = "logged"
        /\ ToSeparate # {} => flushFile \in File /\ meta[flushFile] = "kPendingLSM"
    BY <1>i, ConstantFacts DEF FlushInstall, FlushPhases, FlushType, Owners
  <1>1. AllReliable'
    BY <1>d, <1>u, <1>f DEF AllReliable
  <1>2. SnapshotStored'
    <2>1. SUFFICES ASSUME NEW r \in Reader \ lateSnap, NEW s \in 1..seq,
                          snap[r] # NoSnap, Seen(s, snap[r])', entry'[s].kind = "blob"
                   PROVE  /\ Stored(entry'[s].file, entry'[s].key, entry'[s].val)
                          /\ meta[entry'[s].file] # "kAbsent"
                          /\ \A o \in obsolete : o[1] = entry'[s].file => snap[r] <= o[2]
      BY <1>u DEF SnapshotStored, Stored
    <2>2. \A t \in (s + 1)..seq : t \in 1..seq
      BY <1>i DEF BaseType
    <2>3. Seen(s, snap[r])
      BY <1>u, <1>f, <2>1, <2>2 DEF Seen
    <2>4. CASE s \in ToSeparate
      <3>1. Stored(flushFile, entry[s].key, entry[s].val) /\ meta[flushFile] = "kPendingLSM"
        BY <1>n, <1>h, <2>4 DEF FlushStored
      <3> QED  BY <1>i, <1>f, <2>4, <3>1 DEF States
    <2>5. CASE s \notin ToSeparate
      BY <1>d, <1>e, <2>1, <2>3, <2>5 DEF SnapshotStored
    <2> QED  BY <2>4, <2>5
  <1> QED
    BY <1>k, <1>1, <1>2 DEF SnapInv

LEMMA OnFlushCompletedSnap ==
  ASSUME FileInv, SnapInv, SeparatedAtFlush, OnFlushCompleted, UNCHANGED levelMerge
  PROVE  SnapInv'
  <1>i. /\ BaseType /\ UserType /\ EntryFiles
    BY TypeParts DEF FileInv
  <1>d. /\ AllReliable /\ PurgeBound /\ SnapshotStored
    BY DEF SnapInv
  <1>u. UNCHANGED <<levelMerge, seq, entry, snap, content, disk, obsolete, sealed, purgePc,
                  purgeOldest, lateSnap, abandoned>>
    BY DEF OnFlushCompleted, baseVars, fileVars, flushVars, purgeVars, histVars
  <1>k. /\ AllReliable' /\ PurgeBound'
    BY <1>d, <1>u, SnapFrame
  <1>m. \A f \in File : meta[f] # "kAbsent" => meta'[f] # "kAbsent"
    BY Transits DEF OnFlushCompleted
  <1>1. SnapshotStored'
    BY <1>i, <1>d, <1>u, <1>m, SnapshotsKept
  <1> QED
    BY <1>k, <1>1 DEF SnapInv

LEMMA PickBlobGCSnap ==
  ASSUME FileInv, SnapInv, SeparatedAtFlush, NEW j \in GCJob, PickBlobGC(j),
         UNCHANGED levelMerge
  PROVE  SnapInv'
  <1>i. /\ BaseType /\ UserType /\ EntryFiles
    BY TypeParts DEF FileInv
  <1>d. /\ AllReliable /\ PurgeBound /\ SnapshotStored
    BY DEF SnapInv
  <1>u. UNCHANGED <<levelMerge, seq, entry, flushed, snap, content, disk, obsolete, sealed,
                  purgePc, purgeOldest, lateSnap, abandoned>>
    BY DEF PickBlobGC, baseVars, fileVars, flushVars, purgeVars, histVars
  <1>k. /\ AllReliable' /\ PurgeBound'
    BY <1>d, <1>u, SnapFrame
  <1>m. \A f \in File : meta[f] # "kAbsent" => meta'[f] # "kAbsent"
    BY Transits DEF PickBlobGC
  <1>1. SnapshotStored'
    BY <1>i, <1>d, <1>u, <1>m, SnapshotsKept
  <1> QED
    BY <1>k, <1>1 DEF SnapInv

LEMMA GCDiscardSnap ==
  ASSUME FileInv, SnapInv, SeparatedAtFlush, NEW j \in GCJob, GCDiscard(j),
         UNCHANGED levelMerge
  PROVE  SnapInv'
  <1>d. /\ AllReliable /\ PurgeBound /\ SnapshotStored
    BY DEF SnapInv
  <1>u. UNCHANGED <<levelMerge, seq, entry, flushed, snap, content, disk, meta, obsolete,
                  sealed, purgePc, purgeOldest, lateSnap, abandoned>>
    BY DEF GCDiscard, baseVars, fileVars, flushVars, purgeVars, histVars
  <1>k. /\ AllReliable' /\ PurgeBound' /\ SnapshotStored'
    BY <1>d, <1>u, SnapFrame
  <1> QED
    BY <1>k DEF SnapInv

LEMMA GCKeepSnap ==
  ASSUME FileInv, SnapInv, SeparatedAtFlush, NEW j \in GCJob, GCKeep(j),
         UNCHANGED levelMerge
  PROVE  SnapInv'
  <1>i. /\ BaseType /\ FileType /\ JobType /\ UserType /\ EntryFiles
    BY TypeParts DEF FileInv
  <1>d. /\ AllReliable /\ PurgeBound /\ SnapshotStored
    BY DEF SnapInv
  <1>u. UNCHANGED <<levelMerge, seq, entry, flushed, snap, meta, obsolete, sealed, purgePc,
                  purgeOldest, lateSnap, abandoned>>
    BY DEF GCKeep, baseVars, fileVars, flushVars, purgeVars, histVars
  <1>k. /\ AllReliable' /\ PurgeBound'
    BY <1>d, <1>u, SnapFrame
  <1>m. /\ \A f \in File : meta[f] # "kAbsent" => content[f] \subseteq content'[f]
        /\ disk \subseteq disk'
    <2>1. nextFile \in File => meta[nextFile] = "kAbsent"
      BY FreshNumber
    <2>2. gcOut[j] # NoFile => gcOut[j] \in File
      BY <1>i, ConstantFacts DEF JobType
    <2> QED  BY <1>i, <2>1, <2>2 DEF GCKeep, FileType
  <1>1. SnapshotStored'
    BY <1>i, <1>d, <1>u, <1>m, SnapshotsKept
  <1> QED
    BY <1>k, <1>1 DEF SnapInv

LEMMA GCRunDoneSnap ==
  ASSUME FileInv, SnapInv, SeparatedAtFlush, NEW j \in GCJob, GCRunDone(j),
         UNCHANGED levelMerge
  PROVE  SnapInv'
  <1>d. /\ AllReliable /\ PurgeBound /\ SnapshotStored
    BY DEF SnapInv
  <1>u. UNCHANGED <<levelMerge, seq, entry, flushed, snap, content, disk, meta, obsolete,
                  sealed, purgePc, purgeOldest, lateSnap, abandoned>>
    BY DEF GCRunDone, baseVars, fileVars, flushVars, purgeVars, histVars
  <1>k. /\ AllReliable' /\ PurgeBound' /\ SnapshotStored'
    BY <1>d, <1>u, SnapFrame
  <1> QED
    BY <1>k DEF SnapInv

LEMMA GCInstallSnap ==
  ASSUME FileInv, SnapInv, SeparatedAtFlush, NEW j \in GCJob, GCInstall(j),
         UNCHANGED levelMerge
  PROVE  SnapInv'
  <1>i. /\ BaseType /\ FileType /\ JobType /\ UserType /\ EntryFiles
    BY TypeParts DEF FileInv
  <1>d. /\ AllReliable /\ PurgeBound /\ SnapshotStored
    BY DEF SnapInv
  <1>u. UNCHANGED <<levelMerge, seq, entry, flushed, snap, content, disk, obsolete, sealed,
                  purgePc, purgeOldest, lateSnap, abandoned>>
    BY DEF GCInstall, baseVars, fileVars, flushVars, purgeVars, histVars
  <1>k. /\ AllReliable' /\ PurgeBound'
    BY <1>d, <1>u, SnapFrame
  <1>m. \A f \in File : meta[f] # "kAbsent" => meta'[f] # "kAbsent"
    BY <1>i, Transits, ConstantFacts DEF GCInstall, LogAndApply, FileType, JobType
  <1>1. SnapshotStored'
    BY <1>i, <1>d, <1>u, <1>m, SnapshotsKept
  <1> QED
    BY <1>k, <1>1 DEF SnapInv

LEMMA GCFinishSnap ==
  ASSUME FileInv, SnapInv, SeparatedAtFlush, NEW j \in GCJob, GCFinish(j),
         UNCHANGED levelMerge
  PROVE  SnapInv'
  <1>i. /\ BaseType /\ UserType /\ EntryFiles
    BY TypeParts DEF FileInv
  <1>d. /\ AllReliable /\ PurgeBound /\ SnapshotStored
    BY DEF SnapInv
  <1>u. UNCHANGED <<levelMerge, put, seq, entry, flushed, snap, content, disk, sealed,
                  purgePc, purgeOldest, lateSnap, abandoned>>
    BY DEF GCFinish, baseVars, fileVars, flushVars, purgeVars, histVars
  <1>k. /\ AllReliable' /\ PurgeBound'
    BY <1>d, <1>u, SnapFrame
  <1>m. /\ \A f \in File : meta[f] # "kAbsent" => meta'[f] # "kAbsent"
        /\ \A o \in obsolete' : o \in obsolete \/ o[2] = seq
    BY Transits DEF GCFinish, ReleaseGcFiles, DeleteInputBlobFiles, ObsoleteSequence
  <1>1. SnapshotStored'
    BY <1>i, <1>d, <1>u, <1>m, SnapshotsKept
  <1> QED
    BY <1>k, <1>1 DEF SnapInv

LEMMA GCFailSnap ==
  ASSUME FileInv, SnapInv, SeparatedAtFlush, NEW j \in GCJob, GCFail(j),
         UNCHANGED levelMerge
  PROVE  SnapInv'
  <1>i. /\ BaseType /\ UserType /\ EntryFiles
    BY TypeParts DEF FileInv
  <1>d. /\ AllReliable /\ PurgeBound /\ SnapshotStored
    BY DEF SnapInv
  <1>u. UNCHANGED <<levelMerge, seq, entry, flushed, snap, content, disk, obsolete, sealed,
                  purgePc, purgeOldest, lateSnap, abandoned>>
    BY DEF GCFail, baseVars, fileVars, flushVars, purgeVars, histVars
  <1>k. /\ AllReliable' /\ PurgeBound'
    BY <1>d, <1>u, SnapFrame
  <1>m. \A f \in File : meta[f] # "kAbsent" => meta'[f] # "kAbsent"
    BY Transits DEF GCFail, ReleaseGcFiles
  <1>1. SnapshotStored'
    BY <1>i, <1>d, <1>u, <1>m, SnapshotsKept
  <1> QED
    BY <1>k, <1>1 DEF SnapInv

LEMMA RecomputeGCScoreSnap ==
  ASSUME FileInv, SnapInv, SeparatedAtFlush, RecomputeGCScore, UNCHANGED levelMerge
  PROVE  SnapInv'
  <1>d. /\ AllReliable /\ PurgeBound /\ SnapshotStored
    BY DEF SnapInv
  <1>u. UNCHANGED <<levelMerge, seq, entry, flushed, snap, content, disk, meta, obsolete,
                  sealed, purgePc, purgeOldest, lateSnap, abandoned>>
    BY DEF RecomputeGCScore, baseVars, fileVars, flushVars, purgeVars, histVars
  <1>k. /\ AllReliable' /\ PurgeBound' /\ SnapshotStored'
    BY <1>d, <1>u, SnapFrame
  <1> QED
    BY <1>k DEF SnapInv

LEMMA PurgeReadOldestSnap ==
  ASSUME FileInv, SnapInv, SeparatedAtFlush, PurgeReadOldest, UNCHANGED levelMerge
  PROVE  SnapInv'
  <1>d. /\ AllReliable /\ PurgeBound /\ SnapshotStored
    BY DEF SnapInv
  <1>u. UNCHANGED <<levelMerge, seq, entry, flushed, snap, content, disk, meta, obsolete,
                  sealed, lateSnap, abandoned>>
    BY DEF PurgeReadOldest, baseVars, fileVars, flushVars, histVars
  <1>k. /\ AllReliable' /\ SnapshotStored'
    BY <1>d, <1>u, SnapFrame
  <1>1. PurgeBound'
    <2>1. CASE Snapshots = {}
      <3>1. \A r \in Reader : snap[r] = NoSnap
        BY <2>1 DEF Snapshots
      <3> QED  BY <1>d, <1>u, <2>1, <3>1 DEF PurgeReadOldest, PurgeBound
    <2>2. CASE Snapshots # {}
      <3>1. purgeOldest' \in Snapshots /\ \A t \in Snapshots : purgeOldest' <= t
        BY <2>2 DEF PurgeReadOldest
      <3>2. \A r \in Reader : snap[r] # NoSnap => snap[r] \in Snapshots
        BY DEF Snapshots
      <3>3. \E r \in Reader : purgeOldest' = snap[r]
        BY <3>1 DEF Snapshots
      <3> QED  BY <1>d, <1>u, <3>1, <3>2, <3>3 DEF PurgeBound
    <2> QED  BY <2>1, <2>2
  <1> QED
    BY <1>k, <1>1 DEF SnapInv

(* The files that a purge forgets became obsolete before the oldest        *)
(* snapshot: none of them is one that a snapshot taken in time sees.       *)
LEMMA PurgeCollectSnap ==
  ASSUME FileInv, SnapInv, SeparatedAtFlush, PurgeCollect, UNCHANGED levelMerge
  PROVE  SnapInv'
  <1>i. /\ FileType /\ UserType /\ PurgeType /\ EntryFiles
    BY TypeParts DEF FileInv
  <1>d. /\ AllReliable /\ PurgeBound /\ SnapshotStored
    BY DEF SnapInv
  <1>u. UNCHANGED <<levelMerge, seq, entry, flushed, snap, content, disk, sealed,
                  purgeOldest, lateSnap, abandoned>>
    BY DEF PurgeCollect, baseVars, fileVars, flushVars, purgeVars, histVars
  <1>k. AllReliable'
    BY <1>d, <1>u, SnapFrame
  <1>c. /\ purgePc = "oldest" /\ purgePc' = "delete" /\ obsolete' \subseteq obsolete
        /\ \A f \in File : meta'[f] = meta[f] \/ \E o \in obsolete : o[1] = f /\ purgeOldest > o[2]
    BY DEF PurgeCollect, NotVisible
  <1>1. PurgeBound'
    BY <1>d, <1>u, <1>c DEF PurgeBound
  <1>2. SnapshotStored'
    <2>1. SUFFICES ASSUME NEW r \in Reader \ lateSnap, NEW s \in 1..seq,
                          snap[r] # NoSnap, Seen(s, snap[r]), entry[s].kind = "blob"
                   PROVE  meta'[entry[s].file] # "kAbsent"
      BY <1>d, <1>u, <1>c DEF SnapshotStored, Stored, Seen
    <2>2. /\ entry[s].file \in File /\ meta[entry[s].file] # "kAbsent"
          /\ \A o \in obsolete : o[1] = entry[s].file => snap[r] <= o[2]
      BY <1>i, <1>d, <2>1 DEF SnapshotStored, EntryFiles
    <2>3. purgeOldest <= snap[r] /\ purgeOldest \in Int /\ snap[r] \in Int
      BY <1>i, <1>d, <1>c, <2>1, ConstantFacts DEF PurgeBound, PurgeType, UserType, NoSnap
    <2>4. \A o \in obsolete : o[2] \in Int
      BY <1>i DEF FileType
    <2>5. \A o \in obsolete : ~(o[1] = entry[s].file /\ purgeOldest > o[2])
      BY <2>2, <2>3, <2>4
    <2> QED  BY <1>c, <2>2, <2>5
  <1> QED
    BY <1>k, <1>1, <1>2 DEF SnapInv

LEMMA PurgeDeleteSnap ==
  ASSUME FileInv, SnapInv, SeparatedAtFlush, PurgeDelete, UNCHANGED levelMerge
  PROVE  SnapInv'
  <1>i. /\ BaseType /\ UserType /\ Owners /\ EntryFiles
    BY TypeParts DEF FileInv
  <1>d. /\ AllReliable /\ PurgeBound /\ SnapshotStored
    BY DEF SnapInv
  <1>u. UNCHANGED <<levelMerge, seq, entry, flushed, snap, meta, obsolete, sealed, lateSnap,
                  abandoned>>
    BY DEF PurgeDelete, baseVars, fileVars, flushVars, histVars
  <1>k. AllReliable'
    BY <1>d, <1>u, SnapFrame
  <1>c. \A f \in purgeCand : meta[f] = "kAbsent"
    BY <1>i DEF Owners
  <1>m. \A f \in File : meta[f] # "kAbsent" => content'[f] = content[f] /\ (f \in disk => f \in disk')
    BY <1>c DEF PurgeDelete
  <1>1. PurgeBound'
    BY <1>d, <1>u DEF PurgeDelete, PurgeBound
  <1>2. SnapshotStored'
    BY <1>i, <1>d, <1>u, <1>m, SnapshotsKept
  <1> QED
    BY <1>k, <1>1, <1>2 DEF SnapInv

LEMMA CrashSnap ==
  ASSUME FileInv, SnapInv, SeparatedAtFlush, CrashAndRecover
  PROVE  SnapInv'
  <1>i. BaseType /\ UserType /\ AllReliable
    BY TypeParts DEF FileInv, SnapInv
  <1>c. ~WalLoss
    BY <1>i, ConstantFacts DEF SeparatedAtFlush, CrashAndRecover, UserType
  <1>e. seq' = seq /\ seq \in Nat /\ UNCHANGED abandoned /\ \A s \in 1..seq : entry'[s] = entry[s]
    BY <1>i, <1>c DEF CrashAndRecover, BaseType
  <1>p. purgePc' = "idle" /\ \A r \in Reader : snap'[r] = NoSnap
    BY DEF CrashAndRecover
  <1>1. AllReliable'
    BY <1>i, <1>e DEF AllReliable
  <1>2. PurgeBound'
    BY <1>e, <1>p DEF PurgeBound, NoSnap
  <1>3. SnapshotStored'
    BY <1>p DEF SnapshotStored
  <1> QED  BY <1>1, <1>2, <1>3 DEF SnapInv

(* The foreground builder takes no part, and no fault happens.             *)
LEMMA UnusedSteps ==
  ASSUME FileInv, SeparatedAtFlush
  PROVE  /\ \A w \in Writer, k \in Key : ~PutAdd(w, k)
         /\ \A w \in Writer : ~PutWrite(w)
         /\ \A j \in GCJob : /\ ~GCBuilderAdd(j) /\ ~GCBuilderWrite(j) /\ ~GCBuilderReject(j)
                             /\ ~GCBuilderWriteFault(j) /\ ~GCInstallFault(j)
  <1>i. FlushPhases /\ ~SepBeforeFlush /\ ~GCFaults
    BY DEF FileInv, SeparatedAtFlush
  <1>1. \A w \in Writer, k \in Key : ~PutAdd(w, k)
    BY <1>i DEF PutAdd
  <1>2. \A w \in Writer : ~PutWrite(w)
    BY <1>i DEF PutWrite, FlushPhases
  <1>3. \A j \in GCJob : ~GCBuilderAdd(j) /\ ~GCBuilderWrite(j)
    BY <1>i DEF GCBuilderAdd, GCThroughBuilder, GCBuilderWrite, FlushPhases
  <1>4. \A j \in GCJob : ~GCBuilderReject(j) /\ ~GCBuilderWriteFault(j) /\ ~GCInstallFault(j)
    BY <1>i DEF GCBuilderReject, GCBuilderWriteFault, GCInstallFault
  <1> QED  BY <1>1, <1>2, <1>3, <1>4

LEMMA InitSnap == Init => SnapInv
  BY DEF Init, SnapInv, AllReliable, PurgeBound, SnapshotStored, NoSnap

LEMMA NextSnap == FileInv /\ DataInv /\ SnapInv /\ SeparatedAtFlush /\ [Next]_vars => SnapInv'
  <1>1. SnapInv /\ UNCHANGED vars => SnapInv'
    BY SnapFrame DEF SnapInv, vars, baseVars, fileVars, builderVars, flushVars, gcVars, purgeVars,
           histVars
  <1> SUFFICES ASSUME FileInv, DataInv, SnapInv, SeparatedAtFlush, Next PROVE SnapInv'
    BY <1>1
  <1>l. UNCHANGED levelMerge
    BY DEF Next
  <1>2. CASE UserStep
    BY <1>2, <1>l, UnusedSteps, WriteInlineSnap, TakeSnapshotSnap, ReleaseSnapshotSnap DEF UserStep
  <1>3. CASE FlushStep
    BY <1>3, <1>l, SealMemTableSnap, FlushBuildSnap, FlushFinishSnap, FlushInstallSnap,
       OnFlushCompletedSnap DEF FlushStep
  <1>4. ASSUME NEW j \in GCJob, GCStep(j) PROVE SnapInv'
    BY <1>4, <1>l, UnusedSteps, PickBlobGCSnap, GCDiscardSnap, GCKeepSnap, GCRunDoneSnap,
       GCInstallSnap, GCRewriteSnap, GCFinishSnap, GCFailSnap DEF GCStep
  <1>5. CASE RecomputeGCScore \/ PurgeStep
    BY <1>5, <1>l, RecomputeGCScoreSnap, PurgeReadOldestSnap, PurgeCollectSnap, PurgeDeleteSnap
       DEF PurgeStep
  <1>6. CASE CrashAndRecover
    BY <1>6, CrashSnap
  <1> QED
    BY <1>2, <1>3, <1>4, <1>5, <1>6 DEF Next

(* With values separated at flush the data invariant holds, no index is    *)
(* late, and what a snapshot taken in time sees is kept.                   *)
THEOREM SnapshotInvariant ==
  ASSUME SeparatedAtFlush
  PROVE  Spec => [](FileInv /\ DataInv /\ SnapInv)
  <1>1. CrashesKeepWrites
    BY DEF SeparatedAtFlush, CrashesKeepWrites
  <1>2. FileInv /\ DataInv /\ SnapInv /\ [Next]_vars => FileInv' /\ DataInv' /\ SnapInv'
    BY <1>1, NextInv, NextData, NextSnap
  <1>3. Init => FileInv /\ DataInv /\ SnapInv
    BY InitInv, InitData, InitSnap
  <1> QED  BY <1>2, <1>3, PTL DEF Spec

(* The newest version of every key can be read at any time: GetImpl never  *)
(* ends in "Missing blob file".  GC jobs, flushes and purges may stand at  *)
(* any step, and crashes lie before.                                       *)
THEOREM LatestVersionsReadable ==
  ASSUME SeparatedAtFlush
  PROVE  Spec => []LatestReadable
  <1>1. FileInv /\ DataInv /\ SnapInv => LatestReadable
    <2> SUFFICES ASSUME FileInv, DataInv, SnapInv, NEW k \in Key, NEW s \in 1..seq,
                        Visible(s, k, seq), entry[s].kind = "blob"
                 PROVE  Readable(entry[s].file, entry[s].key, entry[s].val)
      BY DEF LatestReadable, GetImplOK
    <2>i. BaseType /\ FlushPhases /\ NewestStored /\ AllReliable
      BY TypeParts DEF FileInv, DataInv, SnapInv
    <2>1. Newest(s) /\ Reliable(s)
      BY <2>i, NewestIsVisible DEF Visible, Reliable, AllReliable
    <2>2. BuildingFiles = {}
      BY <2>i DEF FlushPhases, SeparatedAtFlush
    <2> QED  BY <2>i, <2>1, <2>2 DEF NewestStored, InUse, Stored, Readable, IsLive
  <1> QED  BY <1>1, SnapshotInvariant, PTL

(* What a snapshot sees can be read as long as it is held, whatever was    *)
(* written, flushed, collected and purged since it was taken, unless it    *)
(* was taken while the purge thread held on to an empty snapshot list.     *)
THEOREM TimelySnapshotsReadable ==
  ASSUME SeparatedAtFlush
  PROVE  Spec => []TimelySnapshotReadable
  <1>1. FileInv /\ SnapInv => TimelySnapshotReadable
    <2> SUFFICES ASSUME FileInv, SnapInv, NEW r \in Reader \ lateSnap, NEW k \in Key,
                        NEW s \in 1..seq, snap[r] # NoSnap, Visible(s, k, snap[r]),
                        entry[s].kind = "blob"
                 PROVE  Readable(entry[s].file, entry[s].key, entry[s].val)
      BY DEF TimelySnapshotReadable, GetImplOK
    <2>i. BaseType /\ SnapshotStored
      BY TypeParts DEF FileInv, SnapInv
    <2>1. Seen(s, snap[r])
      BY <2>i, SeenIsVisible DEF Visible
    <2> QED  BY <2>i, <2>1 DEF SnapshotStored, Stored, Readable
  <1> QED  BY <1>1, SnapshotInvariant, PTL
=============================================================================
