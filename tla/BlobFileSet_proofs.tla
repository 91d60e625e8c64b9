------------------------- MODULE BlobFileSet_proofs -------------------------
(***************************************************************************)
(* The safety properties of BlobFileSet, for any column families, any      *)
(* number of files and crashes, and that it implements FileSet.            *)
(***************************************************************************)
EXTENDS BlobFileSet, TLAPS

-----------------------------------------------------------------------------
(***************************************************************************)
(* The inductive invariant.                                                *)
(***************************************************************************)

\* Whatever a crash leaves, the next file number is beyond the files it names,
\* and no file belongs to two column families.
LogNumbers ==
  /\ written \in possible
  /\ \A m \in possible :
       /\ m.next <= nextFile
       /\ \A c \in CF : \A f \in m.added[c] : f < m.next
       /\ \A c, d \in CF : c # d => m.added[c] \cap m.added[d] = {}

\* A file that is not logged yet exists, belongs to one column family, and no
\* manifest names it.
PendingUnlogged ==
  \A c \in CF, f \in File : <<c, f>> \in pending =>
    /\ f < nextFile /\ f \in disk
    /\ \A m \in possible, d \in CF : f \notin m.added[d]
    /\ \A d \in CF : <<d, f>> \in pending => d = c

LiveLogged == \A m \in possible, c \in CF : live[c] \subseteq m.added[c]

\* ManifestFilesExist, for the column families that were dropped too.
FilesExist == \A m \in possible, c \in CF : Recovered(m, c) \subseteq disk

\* Nobody looks for f any more.
Retired(f) == /\ f < nextFile
              /\ \A m \in possible, c \in CF : f \notin Recovered(m, c)
              /\ \A c \in CF : <<c, f>> \notin pending

ObsoleteRetired == /\ \A f \in purging : Retired(f)
                   /\ \A c \in CF : \A f \in obs[c] : Retired(f)

\* What a crash clears, and how far a recovery has come.
RecoveryProgress ==
  /\ pc # "running" => /\ obs = NoFiles /\ purging = {} /\ pending = {}
                       /\ possible = {written}
  /\ pc \in {"down", "corrupt"} => live = NoFiles
  /\ pc \in {"read", "purge"} =>
       /\ \A c \in CF \ opened : live[c] = {}
       /\ \A c \in CF : live[c] \subseteq Recovered(written, c)
  /\ pc = "purge" => written.added = live

FileInv == /\ LogNumbers /\ PendingUnlogged /\ LiveLogged /\ FilesExist
           /\ ObsoleteRetired /\ RecoveryProgress

Inv == TypeOK /\ FileInv

-----------------------------------------------------------------------------
(***************************************************************************)
(* Edits                                                                   *)
(***************************************************************************)

\* An edit, whether it is applied, refused or lost half way, keeps the
\* invariant.  The files it adds leave pending.
LEMMA EditInv ==
  ASSUME Inv, pc = "running", NEW c \in CF, NEW add \in SUBSET PendingOf(c),
         NEW del \in SUBSET File, add = {} \/ del = {},
         LogAndApply(c, add, del) \/ LogFails(c, add, del),
         UNCHANGED <<pc, nextFile, disk, purging>>,
         pending' = pending \ {<<c, f>> : f \in add}
  PROVE  /\ live' \in PerCF /\ obs' \in PerCF
         /\ written' \in Manifest /\ possible' \in SUBSET Manifest
         /\ everLive' \in SUBSET File
         /\ FileInv'
  <1> DEFINE e == AddEdit(written, c, add, del)
  <1>1. /\ nextFile \in 1..(MaxFile + 1) /\ written \in Manifest
        /\ possible \in SUBSET Manifest /\ live \in PerCF /\ obs \in PerCF
        /\ everLive \in SUBSET File /\ add \in SUBSET File
    BY DEF Inv, TypeOK, PendingOf
  <1>2. /\ e \in Manifest /\ e.next = nextFile
        /\ \A d \in CF :
             /\ e.added[d] = IF d = c THEN written.added[d] \cup add
                                      ELSE written.added[d]
             /\ e.deleted[d] = IF d = c THEN written.deleted[d] \cup del
                                        ELSE written.deleted[d]
    <2> DEFINE a == [written.added EXCEPT ![c] = @ \cup add]
               b == [written.deleted EXCEPT ![c] = @ \cup del]
               k == /\ written.ok /\ add \cap written.added[c] = {}
                    /\ del \cap written.deleted[c] = {}
                    /\ nextFile >= written.next
    <2>1. a \in PerCF /\ b \in PerCF  BY <1>1 DEF Manifest, PerCF
    <2>2. \A d \in CF :
            /\ a[d] = IF d = c THEN written.added[d] \cup add
                               ELSE written.added[d]
            /\ b[d] = IF d = c THEN written.deleted[d] \cup del
                               ELSE written.deleted[d]
      BY <1>1 DEF Manifest, PerCF
    <2>3. e = [added |-> a, deleted |-> b, next |-> nextFile, ok |-> k]
      BY DEF AddEdit
    <2>4. k \in BOOLEAN  OBVIOUS
    <2> HIDE DEF a, b, k, e
    <2>5. e \in Manifest  BY <1>1, <2>1, <2>3, <2>4 DEF Manifest
    <2>6. e.next = nextFile /\ e.added = a /\ e.deleted = b  BY <2>3
    <2> QED  BY <2>2, <2>5, <2>6
  <1> HIDE DEF e
  <1>3. \/ possible' = {e} /\ written' = e
        \/ possible' = possible /\ written' = written /\ live' = live /\ obs' = obs
        \/ /\ possible' = possible \cup {e} /\ written' = e
           /\ live' = live /\ obs' = obs
    BY DEF LogAndApply, LogFails, logVars, e
  <1>4. /\ written' \in possible'
        /\ \A m \in possible' : m = e \/ m \in possible
    BY <1>3 DEF Inv, FileInv, LogNumbers
  <1>5. /\ live' \in PerCF /\ obs' \in PerCF
        /\ \A d \in CF : live'[d] \subseteq live[d] \cup (IF d = c THEN add ELSE {})
        /\ \A d \in CF : obs'[d] \subseteq obs[d] \cup (IF d = c THEN del ELSE {})
        /\ live' # live \/ obs' # obs
             => possible' = {e} /\ del \subseteq live[c] \cup add
    <2>1. CASE LogFails(c, add, del)  BY <1>1, <2>1 DEF LogFails
    <2>2. CASE LogAndApply(c, add, del) /\ c \notin opened
      BY <1>1, <2>2 DEF LogAndApply, Apply
    <2>3. CASE LogAndApply(c, add, del) /\ c \in opened
      <3>1. /\ live' = [live EXCEPT ![c] = (@ \cup add) \ del]
            /\ obs' = [obs EXCEPT ![c] = @ \cup (del \ add)]
            /\ del \ add \subseteq live[c] /\ possible' = {written'}
            /\ written' = e
        BY <2>3 DEF LogAndApply, Apply, Sealable, e
      <3> QED  BY <1>1, <3>1 DEF PerCF
    <2> QED  BY <2>1, <2>2, <2>3
  <1>6. written' \in Manifest /\ possible' \in SUBSET Manifest
    BY <1>1, <1>2, <1>3
  <1>7. everLive' \in SUBSET File  BY <1>1 DEF LogAndApply, LogFails
  <1>8. \A f \in add : /\ <<c, f>> \in pending /\ f \in File
                       /\ f < nextFile /\ f \in disk
                       /\ \A m \in possible, d \in CF : f \notin m.added[d]
    BY DEF Inv, FileInv, PendingUnlogged, PendingOf
  <1>9. LogNumbers'
    <2>1. /\ e.next <= nextFile
          /\ \A d \in CF : \A f \in e.added[d] : f < e.next
          /\ \A d1, d2 \in CF : d1 # d2 => e.added[d1] \cap e.added[d2] = {}
      <3>1. \A d \in CF : \A f \in written.added[d] : f < nextFile
        <4> SUFFICES ASSUME NEW d \in CF, NEW f \in written.added[d]
                     PROVE  f < nextFile
          OBVIOUS
        <4>1. f < written.next /\ written.next <= nextFile
          BY DEF Inv, FileInv, LogNumbers
        <4>2. f \in Int /\ written.next \in Int /\ nextFile \in Int
          BY <1>1, FileSetAssumption DEF Manifest, PerCF, File
        <4> QED  BY <4>1, <4>2
      <3>2. \A d \in CF : \A f \in e.added[d] : f < e.next
        BY <1>2, <1>8, <3>1
      <3>3. \A d1, d2 \in CF : d1 # d2 => e.added[d1] \cap e.added[d2] = {}
        <4> SUFFICES ASSUME NEW d1 \in CF, NEW d2 \in CF, d1 # d2, NEW f,
                            f \in e.added[d1], f \in e.added[d2]
                     PROVE  FALSE
          OBVIOUS
        <4>1. written.added[d1] \cap written.added[d2] = {}
          BY DEF Inv, FileInv, LogNumbers
        <4>2. f \in add => f \notin written.added[d1] /\ f \notin written.added[d2]
          BY <1>8 DEF Inv, FileInv, LogNumbers
        <4>3. CASE d1 = c  BY <1>2, <4>1, <4>2, <4>3
        <4>4. CASE d1 # c  BY <1>2, <4>1, <4>2, <4>4
        <4> QED  BY <4>3, <4>4
      <3> QED  BY <1>1, <1>2, <3>2, <3>3, FileSetAssumption
    <2> QED  BY <1>4, <2>1 DEF LogNumbers, Inv, FileInv
  <1>10. PendingUnlogged'
    <2> SUFFICES ASSUME NEW d \in CF, NEW f \in File, <<d, f>> \in pending'
                 PROVE  /\ f < nextFile /\ f \in disk
                        /\ \A m \in possible', g \in CF : f \notin m.added[g]
                        /\ \A g \in CF : <<g, f>> \in pending' => g = d
      BY DEF PendingUnlogged
    <2>1. <<d, f>> \in pending  OBVIOUS
    <2>2. /\ f < nextFile /\ f \in disk
          /\ \A m \in possible, g \in CF : f \notin m.added[g]
          /\ \A g \in CF : <<g, f>> \in pending => g = d
      BY <2>1 DEF Inv, FileInv, PendingUnlogged
    <2>3. f \notin add  BY <1>8, <2>2
    <2>4. \A g \in CF : f \notin e.added[g]
      BY <1>2, <2>2, <2>3 DEF Inv, FileInv, LogNumbers
    <2> QED  BY <1>4, <2>2, <2>4
  <1>11. LiveLogged'
    <2> SUFFICES ASSUME NEW m \in possible', NEW d \in CF, NEW f \in live'[d]
                 PROVE  f \in m.added[d]
      BY DEF LiveLogged
    <2>1. CASE live' = live
      <3>1. \A q \in possible : live[d] \subseteq q.added[d]
        BY DEF Inv, FileInv, LiveLogged
      <3>2. written \in possible  BY DEF Inv, FileInv, LogNumbers
      <3>3. written.added[d] \subseteq e.added[d]  BY <1>2
      <3>4. f \in live[d]  BY <2>1
      <3>5. m \in possible \/ m = e  BY <1>4
      <3> HIDE DEF e
      <3> QED  BY <3>1, <3>2, <3>3, <3>4, <3>5
    <2>2. CASE live' # live
      <3>1. m = e  BY <1>5, <2>2
      <3>2. f \in live[d] \/ (d = c /\ f \in add)  BY <1>5
      <3>3. live[d] \subseteq written.added[d]  BY DEF Inv, FileInv, LiveLogged, LogNumbers
      <3> QED  BY <1>2, <3>1, <3>2, <3>3
    <2> QED  BY <2>1, <2>2
  <1>12. \A d \in CF : Recovered(e, d) \subseteq
                         Recovered(written, d) \cup (IF d = c THEN add ELSE {})
    BY <1>2 DEF Recovered
  <1>13. FilesExist'
    <2> SUFFICES ASSUME NEW m \in possible', NEW d \in CF
                 PROVE  Recovered(m, d) \subseteq disk
      BY DEF FilesExist, Recovered
    <2>1. CASE m = e  BY <1>8, <1>12, <2>1 DEF Inv, FileInv, FilesExist, LogNumbers
    <2>2. CASE m \in possible  BY <2>2 DEF Inv, FileInv, FilesExist
    <2> QED  BY <1>4, <2>1, <2>2
  <1>14. \A f \in File : Retired(f) => Retired(f)'
    <2> SUFFICES ASSUME NEW f \in File, Retired(f)
                 PROVE  /\ f < nextFile
                        /\ \A m \in possible', d \in CF : f \notin Recovered(m, d)
                        /\ \A d \in CF : <<d, f>> \notin pending'
      BY DEF Retired, Recovered
    <2>1. f < nextFile /\ \A d \in CF : <<d, f>> \notin pending  BY DEF Retired
    <2>2. f \notin add  BY <1>8, <2>1
    <2>3. \A m \in possible, d \in CF : f \notin Recovered(m, d)  BY DEF Retired
    <2>4. \A d \in CF : f \notin Recovered(e, d)
      BY <1>12, <2>2, <2>3 DEF Inv, FileInv, LogNumbers
    <2> QED  BY <1>4, <2>1, <2>3, <2>4
  <1>15. ObsoleteRetired'
    <2>1. purging \in SUBSET File  BY DEF Inv, TypeOK
    <2>2. \A f \in purging' : Retired(f)'
      BY <1>14, <2>1 DEF Inv, FileInv, ObsoleteRetired
    <2>3. ASSUME NEW d \in CF, NEW f \in obs'[d] PROVE Retired(f)'
      <3>1. CASE f \in obs[d]
        BY <1>1, <1>14, <3>1 DEF Inv, FileInv, ObsoleteRetired, PerCF
      <3>2. CASE f \notin obs[d]
        <4>1. d = c /\ f \in del /\ possible' = {e} /\ add = {} /\ f \in live[c]
          BY <1>5, <3>2
        <4>2. f \in written.added[c] /\ f < nextFile
          <5>1. f \in written.added[c]  BY <4>1 DEF Inv, FileInv, LiveLogged, LogNumbers
          <5>2. f < written.next /\ written.next <= nextFile
            BY <5>1 DEF Inv, FileInv, LogNumbers
          <5>3. f \in Int /\ written.next \in Int /\ nextFile \in Int
            BY <1>1, <5>1, FileSetAssumption DEF Manifest, PerCF, File
          <5> QED  BY <5>1, <5>2, <5>3
        <4>3. \A g \in CF : f \notin Recovered(e, g)
          <5> SUFFICES ASSUME NEW g \in CF PROVE f \notin Recovered(e, g)
            OBVIOUS
          <5>1. CASE g = c  BY <1>2, <4>1, <5>1 DEF Recovered
          <5>2. CASE g # c
            BY <1>2, <4>2, <5>2 DEF Recovered, Inv, FileInv, LogNumbers
          <5> QED  BY <5>1, <5>2
        <4>4. \A g \in CF : <<g, f>> \notin pending'
          BY <4>1, <4>2 DEF Inv, FileInv, PendingUnlogged, LogNumbers
        <4>5. \A m \in possible', g \in CF : f \notin Recovered(m, g)
          BY <4>1, <4>3
        <4> QED  BY <4>2, <4>4, <4>5 DEF Retired, Recovered
      <3> QED  BY <3>1, <3>2
    <2> QED  BY <2>2, <2>3 DEF ObsoleteRetired
  <1>16. RecoveryProgress'  BY DEF RecoveryProgress
  <1> QED  BY <1>5, <1>6, <1>7, <1>9, <1>10, <1>11, <1>13, <1>15, <1>16 DEF FileInv

\* The variables FileInv reads stay as they are while the database runs.
LEMMA FrameInv ==
  ASSUME Inv, pc = "running",
         UNCHANGED <<pc, live, obs, nextFile, logVars, pending, disk, purging>>
  PROVE  FileInv'
  <1>1. LogNumbers' /\ LiveLogged'
    BY DEF Inv, FileInv, LogNumbers, LiveLogged, logVars
  <1>2. PendingUnlogged'
    BY DEF Inv, FileInv, PendingUnlogged, logVars
  <1>3. FilesExist'
    BY DEF Inv, FileInv, FilesExist, Recovered, logVars
  <1>4. ObsoleteRetired'
    BY DEF Inv, FileInv, ObsoleteRetired, Retired, Recovered, logVars
  <1>5. RecoveryProgress'  BY DEF RecoveryProgress
  <1> QED  BY <1>1, <1>2, <1>3, <1>4, <1>5 DEF FileInv

-----------------------------------------------------------------------------
(***************************************************************************)
(* Init and each action                                                    *)
(***************************************************************************)

LEMMA InitInv == Init => Inv
  <1> SUFFICES ASSUME Init PROVE Inv
    OBVIOUS
  <1> USE FileSetAssumption DEF Init, NoFiles
  <1>1. written \in Manifest  BY DEF Manifest, PerCF, File
  <1>2. TypeOK  BY <1>1 DEF TypeOK, PerCF, File
  <1>3. LogNumbers /\ LiveLogged  BY DEF LogNumbers, LiveLogged
  <1>4. PendingUnlogged /\ FilesExist /\ ObsoleteRetired /\ RecoveryProgress
    BY DEF PendingUnlogged, FilesExist, ObsoleteRetired, RecoveryProgress,
           Recovered
  <1> QED  BY <1>2, <1>3, <1>4 DEF Inv, FileInv

LEMMA NewFileInv == ASSUME Inv, NEW c \in CF, NewFile(c) PROVE Inv'
  <1> USE DEF NewFile, logVars, memVars, cfVars
  <1>1. TypeOK'
    <2>1. nextFile' \in 1..(MaxFile + 1)
      BY FileSetAssumption DEF Inv, TypeOK, File
    <2>2. disk' \in SUBSET File /\ pending' \in SUBSET (CF \X File)
      BY DEF Inv, TypeOK
    <2> QED  BY <2>1, <2>2 DEF Inv, TypeOK
  <1>2. nextFile \in Int /\ nextFile < nextFile' /\ nextFile' \in Int
    BY FileSetAssumption DEF Inv, TypeOK
  <1>3. \A f \in File : f \in Int  BY FileSetAssumption DEF File
  <1>4. \A m \in possible, d \in CF : nextFile \notin m.added[d]
    <2> SUFFICES ASSUME NEW m \in possible, NEW d \in CF, nextFile \in m.added[d]
                 PROVE  FALSE
      OBVIOUS
    <2>1. nextFile < m.next /\ m.next <= nextFile
      BY DEF Inv, FileInv, LogNumbers
    <2>2. m.next \in Int
      BY FileSetAssumption DEF Inv, TypeOK, Manifest
    <2> QED  BY <1>2, <2>1, <2>2
  <1>5. \A d \in CF : <<d, nextFile>> \notin pending
    BY <1>2 DEF Inv, FileInv, PendingUnlogged
  <1>6. LogNumbers' /\ LiveLogged'
    <2>1. \A m \in possible : m.next <= nextFile'
      <3> SUFFICES ASSUME NEW m \in possible PROVE m.next <= nextFile'
        OBVIOUS
      <3>1. m.next <= nextFile  BY DEF Inv, FileInv, LogNumbers
      <3>2. m.next \in Int  BY FileSetAssumption DEF Inv, TypeOK, Manifest
      <3> QED  BY <1>2, <3>1, <3>2
    <2> QED  BY <2>1 DEF Inv, FileInv, LogNumbers, LiveLogged
  <1>7. PendingUnlogged'
    <2> SUFFICES ASSUME NEW d \in CF, NEW f \in File, <<d, f>> \in pending'
                 PROVE  /\ f < nextFile' /\ f \in disk'
                        /\ \A m \in possible, g \in CF : f \notin m.added[g]
                        /\ \A g \in CF : <<g, f>> \in pending' => g = d
      BY DEF PendingUnlogged
    <2>1. CASE <<d, f>> \in pending
      <3>1. f < nextFile /\ f \in disk
        BY <2>1 DEF Inv, FileInv, PendingUnlogged
      <3>2. /\ \A m \in possible, g \in CF : f \notin m.added[g]
            /\ \A g \in CF : <<g, f>> \in pending => g = d
        BY <2>1 DEF Inv, FileInv, PendingUnlogged
      <3>3. f # nextFile  BY <1>5, <2>1
      <3>4. \A g \in CF : <<g, f>> \in pending' => <<g, f>> \in pending
        BY <3>3
      <3>5. f < nextFile' /\ f \in disk'
        <4>1. f \in Int  BY <1>3
        <4> QED  BY <1>2, <3>1, <4>1
      <3> QED  BY <3>2, <3>4, <3>5
    <2>2. CASE d = c /\ f = nextFile
      BY <1>2, <1>4, <1>5, <2>2
    <2> QED  BY <2>1, <2>2
  <1>8. FilesExist'  BY DEF Inv, FileInv, FilesExist, Recovered
  <1>9. \A f \in File : Retired(f) => Retired(f)'
    BY <1>2, <1>3 DEF Retired, Recovered
  <1>10. ObsoleteRetired'
    BY <1>9 DEF Inv, TypeOK, PerCF, FileInv, ObsoleteRetired
  <1>11. RecoveryProgress'  BY DEF RecoveryProgress
  <1> QED  BY <1>1, <1>6, <1>7, <1>8, <1>10, <1>11 DEF Inv, FileInv

LEMMA BatchFinishFilesInv ==
  ASSUME Inv, NEW c \in CF, NEW fs \in SUBSET File, BatchFinishFiles(c, fs)
  PROVE  Inv'
  <1>1. /\ pc = "running" /\ fs \in SUBSET PendingOf(c)
        /\ LogAndApply(c, fs, {}) \/ LogFails(c, fs, {})
        /\ UNCHANGED <<pc, nextFile, disk, purging>>
        /\ pending' = pending \ {<<c, f>> : f \in fs}
    BY DEF BatchFinishFiles
  <1>2. {} \in SUBSET File  OBVIOUS
  <1>3. /\ live' \in PerCF /\ obs' \in PerCF
        /\ written' \in Manifest /\ possible' \in SUBSET Manifest
        /\ everLive' \in SUBSET File /\ FileInv'
    BY <1>1, <1>2, EditInv
  <1>4. TypeOK'  BY <1>3 DEF BatchFinishFiles, Inv, TypeOK, cfVars
  <1> QED  BY <1>3, <1>4 DEF Inv

\* The actions that only delete files.
LEMMA DeletionInv ==
  ASSUME Inv, pc = "running", NEW c \in CF, NEW del \in SUBSET File,
         LogAndApply(c, {}, del) \/ LogFails(c, {}, del),
         UNCHANGED <<pc, nextFile, disk, purging, pending>>
  PROVE  /\ live' \in PerCF /\ obs' \in PerCF
         /\ written' \in Manifest /\ possible' \in SUBSET Manifest
         /\ everLive' \in SUBSET File /\ FileInv'
  <1>1. {} \in SUBSET PendingOf(c)  OBVIOUS
  <1>2. pending' = pending \ {<<c, f>> : f \in {}}  OBVIOUS
  <1> QED  BY <1>1, <1>2, EditInv

LEMMA FinishGCInv ==
  ASSUME Inv, NEW c \in CF, NEW fs \in SUBSET File, FinishGC(c, fs) PROVE Inv'
  <1>1. CASE LogAndApply(c, {}, fs) \/ LogFails(c, {}, fs)
    <2>1. /\ live' \in PerCF /\ obs' \in PerCF
          /\ written' \in Manifest /\ possible' \in SUBSET Manifest
          /\ everLive' \in SUBSET File /\ FileInv'
      BY <1>1, DeletionInv DEF FinishGC
    <2>2. TypeOK'  BY <2>1 DEF FinishGC, Inv, TypeOK, cfVars
    <2> QED  BY <2>1, <2>2 DEF Inv
  <1>2. CASE UNCHANGED <<memVars, logVars, everLive>>
    <2>1. FileInv'  BY <1>2, FrameInv DEF FinishGC, memVars
    <2>2. TypeOK'
      BY <1>2 DEF FinishGC, Inv, TypeOK, cfVars, memVars, logVars
    <2> QED  BY <2>1, <2>2 DEF Inv
  <1> QED  BY <1>1, <1>2 DEF FinishGC

LEMMA DeleteFilesInRangesInv ==
  ASSUME Inv, NEW c \in CF, DeleteFilesInRanges(c) PROVE Inv'
  <1>1. PICK fs \in SUBSET File : DeleteBlobFilesInRanges(c, fs)
    BY DEF DeleteFilesInRanges
  <1> USE <1>1 DEF DeleteBlobFilesInRanges, jobVars
  <1>2. /\ live' \in PerCF /\ obs' \in PerCF
        /\ written' \in Manifest /\ possible' \in SUBSET Manifest
        /\ everLive' \in SUBSET File /\ FileInv'
    BY DeletionInv DEF DeleteFilesInRanges
  <1>3. TypeOK'  BY <1>2 DEF Inv, TypeOK, cfVars
  <1> QED  BY <1>2, <1>3 DEF Inv

LEMMA DeleteMergedFilesInv ==
  ASSUME Inv, NEW c \in CF, NEW fs \in SUBSET File, DeleteMergedFiles(c, fs)
  PROVE  Inv'
  <1> USE DEF DeleteMergedFiles, jobVars
  <1>1. /\ live' \in PerCF /\ obs' \in PerCF
        /\ written' \in Manifest /\ possible' \in SUBSET Manifest
        /\ everLive' \in SUBSET File /\ FileInv'
    BY FileSetAssumption, DeletionInv
  <1>2. TypeOK'  BY <1>1 DEF Inv, TypeOK, cfVars
  <1> QED  BY <1>1, <1>2 DEF Inv

LEMMA DropColumnFamilyInv ==
  ASSUME Inv, NEW c \in CF, DropColumnFamily(c) PROVE Inv'
  <1> USE DEF DropColumnFamily
  <1>1. /\ live' \in PerCF /\ obs' \in PerCF
        /\ written' \in Manifest /\ possible' \in SUBSET Manifest
        /\ everLive' \in SUBSET File /\ FileInv'
    <2>1. live[c] \in SUBSET File  BY DEF Inv, TypeOK, PerCF
    <2> QED  BY <2>1, DeletionInv
  <1>2. obsoleteCols' \in SUBSET CF /\ dropping' \in SUBSET CF
    BY DEF Inv, TypeOK
  <1>3. TypeOK'  BY <1>1, <1>2 DEF Inv, TypeOK
  <1> QED  BY <1>1, <1>3 DEF Inv

\* The actions that touch neither files nor manifest.
LEMMA ColumnFamilyInv ==
  ASSUME Inv, NEW c \in CF,
         \/ \E fs \in SUBSET File : PickGC(c, fs)
         \/ CreateColumnFamily(c) \/ DropBase(c)
         \/ DestroyColumnFamilyHandle(c)
  PROVE  Inv'
  <1>1. ASSUME NEW fs \in SUBSET File, PickGC(c, fs) PROVE Inv'
    <2>1. FileInv'  BY <1>1, FrameInv DEF PickGC, memVars, logVars
    <2>2. gc' \in SUBSET (CF \X SUBSET File)  BY <1>1 DEF PickGC, Inv, TypeOK
    <2>3. TypeOK'
      BY <1>1, <2>2 DEF PickGC, Inv, TypeOK, cfVars, memVars, logVars
    <2> QED  BY <2>1, <2>3 DEF Inv
  <1>2. CASE CreateColumnFamily(c)
    <2>1. FileInv'
      BY <1>2, FrameInv DEF CreateColumnFamily, memVars, logVars, jobVars
    <2>2. TypeOK'
      BY <1>2 DEF CreateColumnFamily, Inv, TypeOK, memVars, logVars, jobVars
    <2> QED  BY <2>1, <2>2 DEF Inv
  <1>3. CASE DropBase(c)
    <2>1. FileInv'  BY <1>3, FrameInv DEF DropBase, memVars, logVars
    <2>2. TypeOK'  BY <1>3 DEF DropBase, Inv, TypeOK, memVars, logVars
    <2> QED  BY <2>1, <2>2 DEF Inv
  <1>4. CASE DestroyColumnFamilyHandle(c)
    <2> USE <1>4 DEF DestroyColumnFamilyHandle, MaybeDestroyColumnFamily,
                     memVars, logVars, jobVars
    <2>1. FileInv'  BY FrameInv
    <2>2. TypeOK'  BY DEF Inv, TypeOK
    <2> QED  BY <2>1, <2>2 DEF Inv
  <1> QED  BY <1>1, <1>2, <1>3, <1>4

LEMMA GetObsoleteFilesInv ==
  ASSUME Inv, NEW gone \in SUBSET File, GetObsoleteFiles(gone) PROVE Inv'
  <1> USE DEF GetObsoleteFiles, logVars
  <1>1. \A c \in CF : obs'[c] \subseteq obs[c]  OBVIOUS
  <1>2. \A f \in gone : Retired(f)
    <2> SUFFICES ASSUME NEW f \in gone PROVE Retired(f)
      OBVIOUS
    <2>1. opened \in SUBSET CF  BY DEF Inv, TypeOK
    <2>2. PICK c \in opened \ obsoleteCols : f \in obs[c]  OBVIOUS
    <2> QED  BY <2>1, <2>2 DEF Inv, FileInv, ObsoleteRetired
  <1>3. TypeOK'
    <2>1. obs' \in PerCF  BY DEF Inv, TypeOK, PerCF
    <2>2. opened' \in SUBSET CF  BY DEF Inv, TypeOK
    <2> QED  BY <2>1, <2>2 DEF Inv, TypeOK
  <1>4. LogNumbers' /\ LiveLogged'
    BY DEF Inv, FileInv, LogNumbers, LiveLogged
  <1>5. PendingUnlogged' /\ FilesExist'
    BY DEF Inv, FileInv, PendingUnlogged, FilesExist, Recovered
  <1>6. \A f : Retired(f) => Retired(f)'  BY DEF Retired, Recovered
  <1>7. ObsoleteRetired'
    BY <1>1, <1>2, <1>6 DEF Inv, FileInv, ObsoleteRetired
  <1>8. RecoveryProgress'  BY DEF RecoveryProgress
  <1> QED  BY <1>3, <1>4, <1>5, <1>7, <1>8 DEF Inv, FileInv

\* No file that is purged is one that a recovery would look for.
LEMMA PurgeObsoleteFilesInv == ASSUME Inv, PurgeObsoleteFiles PROVE Inv'
  <1> USE DEF PurgeObsoleteFiles, logVars, memVars, cfVars
  <1>1. TypeOK'  BY DEF Inv, TypeOK
  <1>2. LogNumbers' /\ LiveLogged'
    BY DEF Inv, FileInv, LogNumbers, LiveLogged
  <1>3. \A f \in purging : Retired(f)  BY DEF Inv, FileInv, ObsoleteRetired
  <1>4. PendingUnlogged'
    BY <1>3 DEF Inv, FileInv, PendingUnlogged, Retired
  <1>5. FilesExist'
    BY <1>3 DEF Inv, FileInv, FilesExist, Recovered, Retired
  <1>6. \A f : Retired(f) => Retired(f)'  BY DEF Retired, Recovered
  <1>7. ObsoleteRetired'  BY <1>6 DEF Inv, FileInv, ObsoleteRetired
  <1>8. RecoveryProgress'  BY DEF RecoveryProgress
  <1> QED  BY <1>1, <1>2, <1>4, <1>5, <1>7, <1>8 DEF Inv, FileInv

LEMMA CrashInv == ASSUME Inv, Crash PROVE Inv'
  <1> USE DEF Crash
  <1>1. /\ written' \in possible /\ possible' = {written'}
        /\ \A c \in CF : live'[c] = {} /\ obs'[c] = {}
    BY DEF NoFiles
  <1>2. TypeOK'
    <2>1. live' \in PerCF /\ obs' \in PerCF  BY DEF NoFiles, PerCF
    <2>2. crashes' \in 0..MaxCrash  BY FileSetAssumption DEF Inv, TypeOK
    <2> QED  BY <1>1, <2>1, <2>2 DEF Inv, TypeOK
  <1>3. LogNumbers' /\ LiveLogged'
    BY <1>1 DEF Inv, FileInv, LogNumbers, LiveLogged
  <1>4. PendingUnlogged' /\ FilesExist' /\ ObsoleteRetired'
    BY <1>1 DEF Inv, FileInv, PendingUnlogged, FilesExist, ObsoleteRetired,
                Recovered
  <1>5. RecoveryProgress'  BY DEF RecoveryProgress
  <1> QED  BY <1>2, <1>3, <1>4, <1>5 DEF Inv, FileInv

LEMMA RecoverReadInv == ASSUME Inv, RecoverRead PROVE Inv'
  <1> USE DEF RecoverRead, logVars, jobVars
  <1>1. /\ written \in Manifest /\ written \in possible
        /\ pending = {} /\ purging = {} /\ obs = NoFiles /\ live = NoFiles
        /\ possible = {written}
    BY DEF Inv, TypeOK, FileInv, LogNumbers, RecoveryProgress
  <1>2. \A c \in CF : /\ Recovered(written, c) \subseteq written.added[c]
                      /\ Recovered(written, c) \subseteq File
    BY <1>1 DEF Recovered, Manifest, PerCF
  <1>3. CASE ~RecoverOK(written, baseCF)
    <2>1. UNCHANGED <<opened, live, nextFile>> /\ pc' = "corrupt"  BY <1>3
    <2>2. TypeOK'  BY <2>1 DEF Inv, TypeOK
    <2>3. LogNumbers' /\ LiveLogged'
      BY <2>1 DEF Inv, FileInv, LogNumbers, LiveLogged
    <2>4. PendingUnlogged' /\ FilesExist'
      BY <2>1 DEF Inv, FileInv, PendingUnlogged, FilesExist, Recovered
    <2>5. ObsoleteRetired' /\ RecoveryProgress'
      BY <1>1, <2>1 DEF ObsoleteRetired, RecoveryProgress, NoFiles
    <2> QED  BY <2>2, <2>3, <2>4, <2>5 DEF Inv, FileInv
  <1>4. CASE RecoverOK(written, baseCF)
    <2>1. /\ pc' = "read" /\ opened' = baseCF /\ nextFile' = written.next
          /\ live' = [c \in CF |-> IF c \in baseCF THEN Recovered(written, c)
                                                   ELSE {}]
      BY <1>4
    <2>2. possible = {written}  BY <1>1
    <2>3. TypeOK'
      <3>1. live' \in PerCF  BY <1>2, <2>1 DEF PerCF
      <3>2. nextFile' \in 1..(MaxFile + 1)  BY <1>1, <2>1 DEF Manifest
      <3> QED  BY <2>1, <3>1, <3>2 DEF Inv, TypeOK
    <2>4. LogNumbers'
      <3>1. written.next \in Int  BY <1>1, FileSetAssumption DEF Manifest
      <3> QED  BY <2>1, <2>2, <3>1 DEF Inv, FileInv, LogNumbers
    <2>5. LiveLogged'  BY <1>2, <2>1, <2>2 DEF LiveLogged
    <2>6. PendingUnlogged' /\ FilesExist'
      BY <1>1 DEF Inv, FileInv, PendingUnlogged, FilesExist, Recovered
    <2>7. ObsoleteRetired'  BY <1>1 DEF ObsoleteRetired, NoFiles
    <2>8. RecoveryProgress'
      <3>1. /\ \A c \in CF \ opened' : live'[c] = {}
            /\ \A c \in CF : live'[c] \subseteq Recovered(written, c)
        BY <2>1
      <3> QED  BY <1>1, <2>1, <2>2, <3>1 DEF RecoveryProgress, Recovered
    <2> QED  BY <2>3, <2>4, <2>5, <2>6, <2>7, <2>8 DEF Inv, FileInv
  <1> QED  BY <1>3, <1>4

LEMMA RecoverManifestInv == ASSUME Inv, RecoverManifest PROVE Inv'
  <1> USE DEF RecoverManifest, memVars, cfVars, jobVars
  <1>1. /\ written \in Manifest /\ written \in possible /\ possible = {written}
        /\ pending = {} /\ purging = {} /\ obs = NoFiles
        /\ \A c \in CF \ opened : live[c] = {}
        /\ \A c \in CF : live[c] \subseteq Recovered(written, c)
    BY DEF Inv, TypeOK, FileInv, LogNumbers, RecoveryProgress
  <1>2. /\ written'.added = live /\ written'.deleted = NoFiles
        /\ written'.next = nextFile + 1 /\ possible' = {written'}
    OBVIOUS
  <1>3. nextFile \in Int /\ nextFile + 1 \in 1..(MaxFile + 1)
    BY FileSetAssumption DEF File
  <1>4. TypeOK'
    <2>1. written' \in Manifest
      <3>1. live \in PerCF /\ NoFiles \in PerCF
        BY DEF Inv, TypeOK, NoFiles, PerCF
      <3> QED  BY <1>3, <3>1 DEF Manifest
    <2> QED  BY <1>2, <1>3, <2>1 DEF Inv, TypeOK
  <1>5. \A c \in CF : Recovered(written', c) = live[c]
    BY <1>2 DEF Recovered, NoFiles
  <1>6. LogNumbers'
    <2>1. \A c \in CF : live[c] \subseteq written.added[c]
      BY <1>1 DEF Recovered
    <2>2. \A c \in CF : \A f \in live[c] : f < nextFile + 1
      <3> SUFFICES ASSUME NEW c \in CF, NEW f \in live[c] PROVE f < nextFile + 1
        OBVIOUS
      <3>1. f < written.next /\ written.next <= nextFile
        BY <1>1, <2>1 DEF Inv, FileInv, LogNumbers
      <3>2. f \in Int /\ written.next \in Int
        BY <1>1, FileSetAssumption DEF Inv, TypeOK, PerCF, Manifest, File
      <3> QED  BY <1>3, <3>1, <3>2
    <2>3. \A c, d \in CF : c # d => live[c] \cap live[d] = {}
      BY <1>1, <2>1 DEF Inv, FileInv, LogNumbers
    <2> QED  BY <1>2, <1>3, <2>2, <2>3 DEF LogNumbers
  <1>7. LiveLogged'  BY <1>2 DEF LiveLogged
  <1>8. FilesExist'
    BY <1>1, <1>2, <1>5 DEF Inv, FileInv, FilesExist, Recovered
  <1>9. PendingUnlogged' /\ ObsoleteRetired'
    BY <1>1 DEF PendingUnlogged, ObsoleteRetired, NoFiles
  <1>10. RecoveryProgress'
    <2>1. pc' = "purge"  OBVIOUS
    <2>2. \A c \in CF : live'[c] \subseteq Recovered(written, c)'
      BY <1>5 DEF Recovered
    <2> QED  BY <1>1, <1>2, <2>1, <2>2 DEF RecoveryProgress
  <1> QED  BY <1>4, <1>6, <1>7, <1>8, <1>9, <1>10 DEF Inv, FileInv

LEMMA RecoverPurgeInv == ASSUME Inv, RecoverPurge PROVE Inv'
  <1> USE DEF RecoverPurge, memVars, logVars, cfVars, jobVars
  <1>1. /\ possible = {written} /\ written.added = live
        /\ pending = {} /\ purging = {} /\ obs = NoFiles
        /\ \A c \in CF \ opened : live[c] = {}
    BY DEF Inv, FileInv, RecoveryProgress
  <1>2. TypeOK'  BY DEF Inv, TypeOK
  <1>3. LogNumbers' /\ LiveLogged'
    BY DEF Inv, FileInv, LogNumbers, LiveLogged
  <1>4. \A c \in CF : Recovered(written, c) \subseteq disk'
    <2> SUFFICES ASSUME NEW c \in CF, NEW f \in Recovered(written, c)
                 PROVE  f \in disk'
      OBVIOUS
    <2>1. f \in live[c] /\ c \in opened  BY <1>1 DEF Recovered
    <2>2. f \in disk  BY <1>1 DEF Inv, FileInv, FilesExist
    <2> QED  BY <2>1, <2>2
  <1>5. FilesExist'  BY <1>1, <1>4 DEF FilesExist, Recovered
  <1>6. PendingUnlogged' /\ ObsoleteRetired' /\ RecoveryProgress'
    BY <1>1 DEF PendingUnlogged, ObsoleteRetired, RecoveryProgress, NoFiles
  <1> QED  BY <1>2, <1>3, <1>5, <1>6 DEF Inv, FileInv

-----------------------------------------------------------------------------
LEMMA StutterInv == ASSUME Inv, UNCHANGED vars PROVE Inv'
  <1> USE DEF vars, cfVars, memVars, logVars, jobVars
  <1>1. TypeOK'  BY DEF Inv, TypeOK
  <1>2. LogNumbers' /\ LiveLogged'
    BY DEF Inv, FileInv, LogNumbers, LiveLogged
  <1>3. PendingUnlogged' /\ FilesExist'
    BY DEF Inv, FileInv, PendingUnlogged, FilesExist, Recovered
  <1>4. ObsoleteRetired'
    BY DEF Inv, FileInv, ObsoleteRetired, Retired, Recovered
  <1>5. RecoveryProgress'
    BY DEF Inv, FileInv, RecoveryProgress, Recovered
  <1> QED  BY <1>1, <1>2, <1>3, <1>4, <1>5 DEF Inv, FileInv

LEMMA NextInv == ASSUME Inv, [Next]_vars PROVE Inv'
  <1>1. ASSUME NEW c \in CF, FileStep(c) PROVE Inv'
    BY <1>1, NewFileInv, FinishGCInv, BatchFinishFilesInv, ColumnFamilyInv,
       DeleteFilesInRangesInv, DeleteMergedFilesInv DEF FileStep
  <1>2. ASSUME NEW c \in CF, ColumnFamilyStep(c) PROVE Inv'
    BY <1>2, ColumnFamilyInv, DropColumnFamilyInv DEF ColumnFamilyStep
  <1>3. ASSUME NEW gone \in SUBSET File, GetObsoleteFiles(gone) PROVE Inv'
    BY <1>3, GetObsoleteFilesInv
  <1>4. CASE PurgeObsoleteFiles  BY <1>4, PurgeObsoleteFilesInv
  <1>5. CASE RecoveryStep
    BY <1>5, CrashInv, RecoverReadInv, RecoverManifestInv, RecoverPurgeInv
       DEF RecoveryStep
  <1>6. CASE UNCHANGED vars  BY <1>6, StutterInv
  <1> QED  BY <1>1, <1>2, <1>3, <1>4, <1>5, <1>6 DEF Next

\* Every edit, drop, purge, failure, crash and recovery of BlobFileSet keeps the
\* inductive invariant.
THEOREM InvHolds == Spec => []Inv
  <1>1. Init => Inv  BY InitInv
  <1>2. Inv /\ [Next]_vars => Inv'  BY NextInv
  <1> QED  BY <1>1, <1>2, PTL DEF Spec

\* Types, for every operation, failure and crash of BlobFileSet.
THEOREM TypeCorrect == Spec => []TypeOK
  <1>1. Inv => TypeOK  BY DEF Inv
  <1> QED  BY <1>1, InvHolds, PTL

\* Whatever fails and whenever the process dies, every file that a recovery
\* would find in the manifest exists: neither PurgeObsoleteFilesImpl nor the
\* purge of a recovery deletes it.
THEOREM FilesOfManifestExist == Spec => []ManifestFilesExist
  <1>1. Inv => ManifestFilesExist
    <2>1. TypeOK => baseCF \subseteq CF  BY DEF TypeOK
    <2> QED  BY <2>1 DEF Inv, FileInv, FilesExist, ManifestFilesExist
  <1> QED  BY <1>1, InvHolds, PTL

-----------------------------------------------------------------------------
(***************************************************************************)
(* BlobFileSet implements FileSet, and its manifest can always be          *)
(* recovered, as long as manifest writes succeed and nobody deletes files  *)
(* behind the back of a GC job.                                            *)
(***************************************************************************)

\* No manifest write fails, no DeleteFilesInRanges, no level merge.
Quiet == ~LevelMerge /\ ~RangeDeletes /\ ~ManifestFaults

-----------------------------------------------------------------------------
(***************************************************************************)
(* The inductive invariant, on top of Inv.                                 *)
(***************************************************************************)

\* The records of the manifest are consistent, and memory agrees with them.
LogConsistent ==
  /\ pc # "corrupt" /\ possible = {written} /\ written.ok
  /\ \A c \in CF : written.deleted[c] \subseteq written.added[c]
  /\ \A c \in opened : live[c] = Recovered(written, c)

\* A column family id that the base database has not given has left no trace.
IdsFresh ==
  /\ baseCF \subseteq created /\ opened \subseteq created
  /\ dropping \subseteq created
  /\ \A c \in CF, f \in File : <<c, f>> \in pending => c \in created
  /\ \A c \in CF \ created : live[c] = {} /\ written.added[c] = {}

\* GC jobs and drops exclude each other, and GC jobs share no inputs, so that
\* the inputs stay.
JobsExclusive ==
  /\ gc = {} \/ dropping = {}
  /\ dropping \cap baseCF = {}
  /\ \A job \in gc : /\ job[2] \subseteq live[job[1]]
                     /\ job[2] \subseteq Recovered(written, job[1])
  /\ \A job, other \in gc :
       job # other /\ job[1] = other[1] => job[2] \cap other[2] = {}
  /\ pc # "running" => gc = {} /\ dropping = {}
  /\ pc \in {"read", "purge"} => opened = baseCF
  /\ pc = "down" => opened = {}

\* Numbers of files that were part of the database are not given again.
NumbersUsed ==
  /\ \A f \in everLive : f < written.next
  /\ \A c \in CF, f \in File : <<c, f>> \in pending => f \notin everLive

QuietInv == LogConsistent /\ IdsFresh /\ JobsExclusive /\ NumbersUsed

-----------------------------------------------------------------------------
(***************************************************************************)
(* Edits                                                                   *)
(***************************************************************************)

\* What one more record makes of the manifest.
EditResult(c, add, del) ==
  /\ written'.next = nextFile
  /\ written'.ok <=> /\ written.ok
                     /\ add \cap written.added[c] = {}
                     /\ del \cap written.deleted[c] = {}
                     /\ nextFile >= written.next
  /\ \A d \in CF :
       /\ written'.added[d] = IF d = c THEN written.added[d] \cup add
                                       ELSE written.added[d]
       /\ written'.deleted[d] = IF d = c THEN written.deleted[d] \cup del
                                         ELSE written.deleted[d]

LEMMA EditFields ==
  ASSUME TypeOK, NEW c \in CF, NEW add \in SUBSET File, NEW del \in SUBSET File,
         written' = AddEdit(written, c, add, del)
  PROVE  EditResult(c, add, del)
  <1> DEFINE a == [written.added EXCEPT ![c] = @ \cup add]
             b == [written.deleted EXCEPT ![c] = @ \cup del]
             k == /\ written.ok /\ add \cap written.added[c] = {}
                  /\ del \cap written.deleted[c] = {}
                  /\ nextFile >= written.next
  <1>1. \A d \in CF : /\ a[d] = IF d = c THEN written.added[d] \cup add
                                         ELSE written.added[d]
                      /\ b[d] = IF d = c THEN written.deleted[d] \cup del
                                         ELSE written.deleted[d]
    BY DEF TypeOK, Manifest, PerCF
  <1>2. written' = [added |-> a, deleted |-> b, next |-> nextFile, ok |-> k]
    BY DEF AddEdit
  <1> HIDE DEF a, b
  <1>3. written'.next = nextFile /\ written'.added = a /\ written'.deleted = b
    BY <1>2
  <1>4. written'.ok <=> k  BY <1>2
  <1> QED  BY <1>1, <1>3, <1>4 DEF EditResult

\* An edit that adds pending files or deletes files of the manifest keeps the
\* records consistent, and memory in step with them.
LEMMA QuietEdit ==
  ASSUME Inv, QuietInv, NEW c \in CF, NEW add \in SUBSET PendingOf(c),
         NEW del \in SUBSET File, add = {} \/ del = {},
         del \subseteq Recovered(written, c), LogAndApply(c, add, del),
         UNCHANGED <<pc, opened>>
  PROVE  /\ LogConsistent'
         /\ written'.next = nextFile
         /\ \A d \in CF :
              /\ written'.added[d] = IF d = c THEN written.added[d] \cup add
                                              ELSE written.added[d]
              /\ Recovered(written', d) =
                   IF d = c THEN (Recovered(written, d) \cup add) \ del
                            ELSE Recovered(written, d)
              /\ d \in opened => live'[d] = Recovered(written', d)
              /\ d \notin opened \/ d # c => live'[d] = live[d]
  <1>1. /\ TypeOK /\ add \in SUBSET File /\ live \in PerCF
        /\ \A f \in add : \A d \in CF : f \notin written.added[d]
    BY DEF Inv, TypeOK, FileInv, LogNumbers, PendingUnlogged, PendingOf
  <1>2. /\ written' = AddEdit(written, c, add, del) /\ possible' = {written'}
        /\ live' = IF c \in opened
                     THEN [live EXCEPT ![c] = (@ \cup add) \ del] ELSE live
    BY DEF LogAndApply, Apply
  <1>3. /\ written'.next = nextFile
        /\ written'.ok <=> /\ written.ok
                           /\ add \cap written.added[c] = {}
                           /\ del \cap written.deleted[c] = {}
                           /\ nextFile >= written.next
        /\ \A d \in CF :
             /\ written'.added[d] = IF d = c THEN written.added[d] \cup add
                                             ELSE written.added[d]
             /\ written'.deleted[d] = IF d = c THEN written.deleted[d] \cup del
                                               ELSE written.deleted[d]
    <2>1. TypeOK /\ add \in SUBSET File  BY <1>1
    <2>2. written' = AddEdit(written, c, add, del)  BY <1>2
    <2>3. EditResult(c, add, del)  BY <2>1, <2>2, EditFields
    <2> QED  BY <2>3 DEF EditResult
  <1>4. /\ written.ok /\ add \cap written.added[c] = {}
        /\ del \cap written.deleted[c] = {}
    <2>1. written.ok  BY DEF QuietInv, LogConsistent
    <2>2. add \cap written.added[c] = {}  BY <1>1
    <2>3. del \cap written.deleted[c] = {}  BY DEF Recovered
    <2> QED  BY <2>1, <2>2, <2>3
  <1>5. nextFile >= written.next
    <2>1. written.next <= nextFile  BY DEF Inv, FileInv, LogNumbers
    <2>2. written.next \in Int /\ nextFile \in Int
      BY <1>1, FileSetAssumption DEF TypeOK, Manifest
    <2> QED  BY <2>1, <2>2
  <1>6. written'.ok  BY <1>3, <1>4, <1>5
  <1>7. \A d \in CF : written.deleted[d] \subseteq written.added[d]
    BY DEF QuietInv, LogConsistent
  <1>8. \A d \in CF : written'.deleted[d] \subseteq written'.added[d]
    BY <1>3, <1>7 DEF Recovered
  <1>9. \A d \in CF :
          Recovered(written', d) =
            IF d = c THEN (Recovered(written, d) \cup add) \ del
                     ELSE Recovered(written, d)
    <2> SUFFICES ASSUME NEW d \in CF
                 PROVE  Recovered(written', d) =
                          IF d = c THEN (Recovered(written, d) \cup add) \ del
                                   ELSE Recovered(written, d)
      OBVIOUS
    <2>1. CASE d # c  BY <1>3, <2>1 DEF Recovered
    <2>2. CASE d = c
      <3>1. add \cap written.deleted[c] = {}  BY <1>4, <1>7
      <3> QED  BY <1>3, <2>2, <3>1 DEF Recovered
    <2> QED  BY <2>1, <2>2
  <1>10. \A d \in CF : /\ d \in opened => live'[d] = Recovered(written', d)
                       /\ d \notin opened \/ d # c => live'[d] = live[d]
    <2> SUFFICES ASSUME NEW d \in CF
                 PROVE  /\ d \in opened => live'[d] = Recovered(written', d)
                        /\ d \notin opened \/ d # c => live'[d] = live[d]
      OBVIOUS
    <2>1. d \in opened => live[d] = Recovered(written, d)
      BY DEF QuietInv, LogConsistent
    <2>2. CASE d # c
      <3>1. live'[d] = live[d]  BY <1>1, <1>2, <2>2 DEF PerCF
      <3> QED  BY <1>9, <2>1, <2>2, <3>1
    <2>3. CASE d = c /\ c \in opened
      <3>1. live'[d] = (live[d] \cup add) \ del
        BY <1>1, <1>2, <2>3 DEF PerCF
      <3> QED  BY <1>9, <2>1, <2>3, <3>1
    <2>4. CASE d = c /\ c \notin opened  BY <1>2, <2>4
    <2> QED  BY <2>2, <2>3, <2>4
  <1>11. LogConsistent'
    <2>1. pc' # "corrupt"  BY DEF QuietInv, LogConsistent
    <2>2. opened \subseteq CF  BY <1>1 DEF TypeOK
    <2>3. \A d \in opened' : live'[d] = Recovered(written', d)
      BY <1>10, <2>2
    <2> QED  BY <1>2, <1>6, <1>8, <2>1, <2>3 DEF LogConsistent, Recovered
  <1> QED  BY <1>3, <1>9, <1>10, <1>11

\* An edit that is refused changes nothing.
LEMMA QuietFailure ==
  ASSUME Quiet, NEW c, NEW add, NEW del, LogFails(c, add, del)
  PROVE  UNCHANGED <<written, possible, live, obs, everLive>>
  BY DEF Quiet, LogFails, logVars

-----------------------------------------------------------------------------
(***************************************************************************)
(* Steps of FileSet.                                                       *)
(***************************************************************************)
PromiseStep == [Promise!Next]_(Promise!fsVars)

\* The files of column family c, in FilesOfDatabase.
FilesOf(c) == IF c \in baseCF THEN Recovered(written, c) ELSE {}

LEMMA StepNothing ==
  ASSUME everLive' = everLive, \A c \in CF : FilesOf(c)' = FilesOf(c)
  PROVE  PromiseStep
  <1>1. FilesOfDatabase' = FilesOfDatabase
    BY DEF FilesOfDatabase, FilesOf, Recovered
  <1> QED  BY <1>1 DEF PromiseStep, Promise!fsVars

LEMMA StepAdd ==
  ASSUME NEW c \in CF, NEW fs \in SUBSET File, fs \cap everLive = {},
         everLive' = everLive \cup fs,
         \A d \in CF : FilesOf(d)' = IF d = c THEN FilesOf(d) \cup fs
                                              ELSE FilesOf(d)
  PROVE  PromiseStep
  <1>1. FilesOfDatabase' = [FilesOfDatabase EXCEPT ![c] = @ \cup fs]
    BY DEF FilesOfDatabase, FilesOf, Recovered
  <1> QED  BY <1>1 DEF PromiseStep, Promise!Next, Promise!Add

LEMMA StepRemove ==
  ASSUME NEW c \in CF, NEW fs \in SUBSET File, fs \subseteq FilesOf(c),
         everLive' = everLive,
         \A d \in CF : FilesOf(d)' = IF d = c THEN FilesOf(d) \ fs ELSE FilesOf(d)
  PROVE  PromiseStep
  <1>1. FilesOfDatabase' = [FilesOfDatabase EXCEPT ![c] = @ \ fs]
    BY DEF FilesOfDatabase, FilesOf, Recovered
  <1>2. fs \subseteq FilesOfDatabase[c]  BY DEF FilesOfDatabase, FilesOf
  <1> QED  BY <1>1, <1>2 DEF PromiseStep, Promise!Next, Promise!Remove

-----------------------------------------------------------------------------
(***************************************************************************)
(* Init and each action                                                    *)
(***************************************************************************)

LEMMA InitQuiet == Init => QuietInv /\ Promise!Init
  <1> SUFFICES ASSUME Init PROVE QuietInv /\ Promise!Init
    OBVIOUS
  <1> USE DEF Init, NoFiles
  <1>1. written.ok /\ possible = {written} /\ written.next = 2  OBVIOUS
  <1>2. \A c \in CF : /\ written.added[c] = {} /\ written.deleted[c] = {}
                      /\ live[c] = {} /\ Recovered(written, c) = {}
    BY DEF Recovered
  <1>3. LogConsistent
    BY <1>1, <1>2, FileSetAssumption DEF LogConsistent
  <1>4. IdsFresh /\ JobsExclusive /\ NumbersUsed
    BY <1>2 DEF IdsFresh, JobsExclusive, NumbersUsed
  <1>5. Promise!Init
    BY <1>2 DEF Promise!Init, FilesOfDatabase
  <1> QED  BY <1>3, <1>4, <1>5 DEF QuietInv

LEMMA NewFileQuiet ==
  ASSUME Inv, QuietInv, NEW c \in CF, NewFile(c)
  PROVE  QuietInv' /\ PromiseStep
  <1> USE DEF NewFile, cfVars, memVars, logVars
  <1>1. nextFile \notin everLive
    <2> SUFFICES ASSUME nextFile \in everLive PROVE FALSE
      OBVIOUS
    <2>1. nextFile < written.next /\ written.next <= nextFile
      BY DEF QuietInv, NumbersUsed, Inv, FileInv, LogNumbers
    <2>2. nextFile \in Int /\ written.next \in Int
      BY FileSetAssumption DEF Inv, TypeOK, Manifest
    <2> QED  BY <2>1, <2>2
  <1>2. LogConsistent'  BY DEF QuietInv, LogConsistent, Recovered
  <1>3. IdsFresh'  BY DEF QuietInv, IdsFresh
  <1>4. JobsExclusive'  BY DEF QuietInv, JobsExclusive, Recovered
  <1>5. NumbersUsed'  BY <1>1 DEF QuietInv, NumbersUsed
  <1>6. PromiseStep  BY StepNothing DEF FilesOf, Recovered
  <1> QED  BY <1>2, <1>3, <1>4, <1>5, <1>6 DEF QuietInv

LEMMA BatchFinishFilesQuiet ==
  ASSUME Quiet, Inv, QuietInv, NEW c \in CF, NEW fs \in SUBSET File,
         BatchFinishFiles(c, fs)
  PROVE  QuietInv' /\ PromiseStep
  <1> USE DEF BatchFinishFiles, cfVars
  <1>1. CASE LogFails(c, fs, {})
    <2>1. UNCHANGED <<written, possible, live, obs, everLive>>
      BY <1>1, QuietFailure
    <2>2. LogConsistent'  BY <2>1 DEF QuietInv, LogConsistent, Recovered
    <2>3. IdsFresh'  BY <2>1 DEF QuietInv, IdsFresh
    <2>4. JobsExclusive'  BY <2>1 DEF QuietInv, JobsExclusive, Recovered
    <2>5. NumbersUsed'  BY <2>1 DEF QuietInv, NumbersUsed
    <2>6. PromiseStep  BY <2>1, StepNothing DEF FilesOf, Recovered
    <2> QED  BY <2>2, <2>3, <2>4, <2>5, <2>6 DEF QuietInv
  <1>2. CASE LogAndApply(c, fs, {})
    <2>1. /\ LogConsistent'
          /\ written'.next = nextFile
          /\ \A d \in CF :
               /\ written'.added[d] = IF d = c THEN written.added[d] \cup fs
                                               ELSE written.added[d]
               /\ Recovered(written', d) =
                    IF d = c THEN (Recovered(written, d) \cup fs) \ {}
                             ELSE Recovered(written, d)
               /\ d \in opened => live'[d] = Recovered(written', d)
               /\ d \notin opened \/ d # c => live'[d] = live[d]
      BY <1>2, QuietEdit
    <2>2. /\ \A f \in fs : <<c, f>> \in pending
          /\ \A f \in fs : f < nextFile /\ f \notin everLive
          /\ c \in created
      BY DEF PendingOf, Inv, FileInv, PendingUnlogged, QuietInv, IdsFresh,
             NumbersUsed
    <2>3. IdsFresh'  BY <2>1, <2>2 DEF QuietInv, IdsFresh
    <2>4. JobsExclusive'
      <3>1. ASSUME NEW job \in gc
            PROVE  /\ job[2] \subseteq live'[job[1]]
                   /\ job[2] \subseteq Recovered(written', job[1])
        <4>0. job[1] \in CF  BY DEF Inv, TypeOK
        <4>1. job[2] \subseteq live[job[1]] /\ job[2] \subseteq Recovered(written, job[1])
          BY DEF QuietInv, JobsExclusive
        <4>2. job[2] \subseteq Recovered(written', job[1])  BY <2>1, <4>0, <4>1
        <4>3. job[1] \in opened => live'[job[1]] = Recovered(written', job[1])
          BY <2>1, <4>0
        <4>4. job[1] \notin opened => live'[job[1]] = live[job[1]]  BY <2>1, <4>0
        <4> QED  BY <4>1, <4>2, <4>3, <4>4
      <3> QED  BY <3>1 DEF QuietInv, JobsExclusive, Recovered
    <2>5. NumbersUsed'
      <3>1. everLive' \subseteq everLive \cup fs  BY <1>2 DEF LogAndApply
      <3>2. \A f \in everLive : f < nextFile
        <4> SUFFICES ASSUME NEW f \in everLive PROVE f < nextFile
          OBVIOUS
        <4>1. f < written.next /\ written.next <= nextFile
          BY DEF QuietInv, NumbersUsed, Inv, FileInv, LogNumbers
        <4>2. f \in Int /\ written.next \in Int /\ nextFile \in Int
          BY FileSetAssumption DEF Inv, TypeOK, Manifest, File
        <4> QED  BY <4>1, <4>2
      <3>3. \A d \in CF, f \in File : <<d, f>> \in pending' => f \notin fs
        BY <2>2 DEF Inv, FileInv, PendingUnlogged
      <3> QED  BY <2>1, <2>2, <3>1, <3>2, <3>3 DEF QuietInv, NumbersUsed
    <2>6. PromiseStep
      <3>1. CASE c \in baseCF
        <4>1. everLive' = everLive \cup fs  BY <1>2, <3>1 DEF LogAndApply
        <4>2. \A d \in CF : FilesOf(d)' = IF d = c THEN FilesOf(d) \cup fs
                                                   ELSE FilesOf(d)
          BY <2>1, <3>1 DEF FilesOf, Recovered
        <4> QED  BY <2>2, <4>1, <4>2, StepAdd
      <3>2. CASE c \notin baseCF
        <4>1. everLive' = everLive  BY <1>2, <3>2 DEF LogAndApply
        <4>2. \A d \in CF : FilesOf(d)' = FilesOf(d)
          BY <2>1, <3>2 DEF FilesOf, Recovered
        <4> QED  BY <4>1, <4>2, StepNothing
      <3> QED  BY <3>1, <3>2
    <2> QED  BY <2>1, <2>3, <2>4, <2>5, <2>6 DEF QuietInv
  <1> QED  BY <1>1, <1>2

\* A step that leaves manifest, memory and the history alone.
LEMMA FrameQuiet ==
  ASSUME QuietInv, pc \in {"running", "purge"}, pc' \in {"running", "purge"},
         UNCHANGED <<written, possible, live, everLive, pending, created, baseCF>>,
         opened' \subseteq opened, dropping' \subseteq dropping,
         gc' \subseteq gc, pc' = "purge" => pc = "purge" /\ opened' = opened
                                            /\ gc' = gc /\ dropping' = dropping
  PROVE  QuietInv' /\ PromiseStep
  <1>1. LogConsistent'  BY DEF QuietInv, LogConsistent, Recovered
  <1>2. IdsFresh'  BY DEF QuietInv, IdsFresh
  <1>3. JobsExclusive'  BY DEF QuietInv, JobsExclusive, Recovered
  <1>4. NumbersUsed'  BY DEF QuietInv, NumbersUsed
  <1>5. PromiseStep  BY StepNothing DEF FilesOf, Recovered
  <1> QED  BY <1>1, <1>2, <1>3, <1>4, <1>5 DEF QuietInv

LEMMA PickGCQuiet ==
  ASSUME Inv, QuietInv, NEW c \in CF, NEW fs \in SUBSET File, PickGC(c, fs)
  PROVE  QuietInv' /\ PromiseStep
  <1> USE DEF PickGC, cfVars, memVars, logVars
  <1>1. LogConsistent'  BY DEF QuietInv, LogConsistent, Recovered
  <1>2. IdsFresh'  BY DEF QuietInv, IdsFresh
  <1>3. JobsExclusive'
    <2>1. live[c] = Recovered(written, c) /\ fs \subseteq live[c]
      BY DEF QuietInv, LogConsistent
    <2>2. \A job \in gc' : /\ job[2] \subseteq live'[job[1]]
                          /\ job[2] \subseteq Recovered(written', job[1])
      BY <2>1 DEF QuietInv, JobsExclusive
    <2>3. \A job, other \in gc' :
            job # other /\ job[1] = other[1] => job[2] \cap other[2] = {}
      BY DEF QuietInv, JobsExclusive
    <2>4. dropping' = {} /\ pc' = "running"  OBVIOUS
    <2> QED  BY <2>2, <2>3, <2>4 DEF JobsExclusive
  <1>4. NumbersUsed'  BY DEF QuietInv, NumbersUsed
  <1>5. PromiseStep  BY StepNothing DEF FilesOf, Recovered
  <1> QED  BY <1>1, <1>2, <1>3, <1>4, <1>5 DEF QuietInv

\* What an edit that only deletes files of the manifest does.
LEMMA QuietDeletion ==
  ASSUME Inv, QuietInv, NEW c \in CF, c \in created, NEW del \in SUBSET File,
         del \subseteq Recovered(written, c), LogAndApply(c, {}, del),
         UNCHANGED <<pc, opened, baseCF, created, pending, nextFile>>,
         dropping' \subseteq dropping
  PROVE  /\ LogConsistent' /\ IdsFresh' /\ NumbersUsed'
         /\ everLive' = everLive
         /\ \A d \in CF : Recovered(written', d) =
                            IF d = c THEN Recovered(written, d) \ del
                                     ELSE Recovered(written, d)
  <1>1. {} \in SUBSET PendingOf(c)  OBVIOUS
  <1>2. /\ LogConsistent'
        /\ written'.next = nextFile
        /\ \A d \in CF :
             /\ written'.added[d] = IF d = c THEN written.added[d] \cup {}
                                             ELSE written.added[d]
             /\ Recovered(written', d) =
                  IF d = c THEN (Recovered(written, d) \cup {}) \ del
                           ELSE Recovered(written, d)
             /\ d \in opened => live'[d] = Recovered(written', d)
             /\ d \notin opened \/ d # c => live'[d] = live[d]
    BY <1>1, QuietEdit
  <1>3. IdsFresh'  BY <1>2 DEF QuietInv, IdsFresh
  <1>4. everLive' = everLive  BY DEF LogAndApply
  <1>5. \A f \in everLive : f < nextFile
    <2> SUFFICES ASSUME NEW f \in everLive PROVE f < nextFile
      OBVIOUS
    <2>1. f < written.next /\ written.next <= nextFile
      BY DEF QuietInv, NumbersUsed, Inv, FileInv, LogNumbers
    <2>2. f \in Int /\ written.next \in Int /\ nextFile \in Int
      BY FileSetAssumption DEF Inv, TypeOK, Manifest, File
    <2> QED  BY <2>1, <2>2
  <1>6. NumbersUsed'  BY <1>2, <1>4, <1>5 DEF QuietInv, NumbersUsed
  <1> QED  BY <1>2, <1>3, <1>4, <1>6

LEMMA FinishGCQuiet ==
  ASSUME Quiet, Inv, QuietInv, NEW c \in CF, NEW fs \in SUBSET File, FinishGC(c, fs)
  PROVE  QuietInv' /\ PromiseStep
  <1>1. /\ pc = "running" /\ pc' = pc /\ <<c, fs>> \in gc /\ gc' = gc \ {<<c, fs>>}
        /\ UNCHANGED <<opened, baseCF, created, pending, nextFile, dropping>>
    BY DEF FinishGC, cfVars
  <1>2. CASE c \in baseCF /\ LogAndApply(c, {}, fs)
    <2>1. fs \subseteq Recovered(written, c) /\ c \in created
      BY <1>1, <1>2 DEF QuietInv, JobsExclusive, IdsFresh
    <2>2. /\ LogConsistent' /\ IdsFresh' /\ NumbersUsed'
          /\ everLive' = everLive
          /\ \A d \in CF : Recovered(written', d) =
                             IF d = c THEN Recovered(written, d) \ fs
                                      ELSE Recovered(written, d)
      BY <1>1, <1>2, <2>1, QuietDeletion
    <2>3. ASSUME NEW job \in gc'
          PROVE  /\ job[2] \subseteq live'[job[1]]
                 /\ job[2] \subseteq Recovered(written', job[1])
      <3>1. /\ job \in gc /\ job # <<c, fs>> /\ job \in CF \X SUBSET File
        BY <1>1 DEF Inv, TypeOK
      <3>2. /\ job[1] \in CF /\ job = <<job[1], job[2]>>  BY <3>1
      <3>3. /\ job[2] \subseteq live[job[1]] /\ job[2] \subseteq Recovered(written, job[1])
            /\ job[1] = c => job[2] \cap fs = {}
        BY <1>1, <3>1 DEF QuietInv, JobsExclusive
      <3>4. job[2] \subseteq Recovered(written', job[1])  BY <2>2, <3>2, <3>3
      <3>5. job[2] \subseteq live'[job[1]]
        <4>1. live \in PerCF  BY DEF Inv, TypeOK
        <4>2. live'[job[1]] = IF job[1] = c /\ c \in opened THEN live[c] \ fs ELSE live[job[1]]
          BY <1>2, <3>2, <4>1 DEF LogAndApply, Apply, PerCF
        <4> QED  BY <3>3, <4>2
      <3> QED  BY <3>4, <3>5
    <2>4. JobsExclusive'
      <3>1. \A job, other \in gc' :
              job # other /\ job[1] = other[1] => job[2] \cap other[2] = {}
        BY <1>1 DEF QuietInv, JobsExclusive
      <3> QED  BY <1>1, <2>3, <3>1 DEF QuietInv, JobsExclusive
    <2>5. fs \subseteq FilesOf(c)  BY <1>2, <2>1 DEF FilesOf
    <2>6. \A d \in CF : FilesOf(d)' = IF d = c THEN FilesOf(d) \ fs ELSE FilesOf(d)
      BY <1>1, <2>2 DEF FilesOf, Recovered
    <2>7. PromiseStep  BY <2>2, <2>5, <2>6, StepRemove
    <2> QED  BY <2>2, <2>4, <2>7 DEF QuietInv
  <1>3. CASE UNCHANGED <<written, possible, live, everLive>>
    BY <1>1, <1>3, FrameQuiet
  <1>4. CASE LogFails(c, {}, fs)
    BY <1>3, <1>4, QuietFailure
  <1> QED  BY <1>2, <1>3, <1>4 DEF FinishGC, memVars, logVars

LEMMA CreateColumnFamilyQuiet ==
  ASSUME Inv, QuietInv, NEW c \in CF, CreateColumnFamily(c)
  PROVE  QuietInv' /\ PromiseStep
  <1> USE DEF CreateColumnFamily, memVars, logVars, jobVars
  <1>1. live[c] = {} /\ Recovered(written, c) = {}
    BY DEF QuietInv, IdsFresh, Recovered
  <1>2. LogConsistent'  BY <1>1 DEF QuietInv, LogConsistent, Recovered
  <1>3. IdsFresh'  BY DEF QuietInv, IdsFresh
  <1>4. JobsExclusive'  BY DEF QuietInv, JobsExclusive, IdsFresh, Recovered
  <1>5. NumbersUsed'  BY DEF QuietInv, NumbersUsed
  <1>6. PromiseStep  BY <1>1, StepNothing DEF FilesOf, Recovered
  <1> QED  BY <1>2, <1>3, <1>4, <1>5, <1>6 DEF QuietInv

LEMMA DropBaseQuiet ==
  ASSUME Inv, QuietInv, NEW c \in CF, DropBase(c)
  PROVE  QuietInv' /\ PromiseStep
  <1> USE DEF DropBase, memVars, logVars
  <1>1. LogConsistent'  BY DEF QuietInv, LogConsistent, Recovered
  <1>2. IdsFresh'  BY DEF QuietInv, IdsFresh
  <1>3. JobsExclusive'  BY DEF QuietInv, JobsExclusive, Recovered
  <1>4. NumbersUsed'  BY DEF QuietInv, NumbersUsed
  <1>5. PromiseStep
    <2>1. FilesOf(c) \in SUBSET File
      BY DEF FilesOf, Recovered, Inv, TypeOK, Manifest, PerCF
    <2>2. \A d \in CF : FilesOf(d)' = IF d = c THEN FilesOf(d) \ FilesOf(c)
                                               ELSE FilesOf(d)
      BY DEF FilesOf, Recovered
    <2> QED  BY <2>1, <2>2, StepRemove
  <1> QED  BY <1>1, <1>2, <1>3, <1>4, <1>5 DEF QuietInv

LEMMA DropColumnFamilyQuiet ==
  ASSUME Quiet, Inv, QuietInv, NEW c \in CF, DropColumnFamily(c)
  PROVE  QuietInv' /\ PromiseStep
  <1>1. /\ pc = "running" /\ pc' = pc /\ c \in dropping /\ gc' = gc
        /\ dropping' = dropping \ {c} /\ c \in opened
        /\ UNCHANGED <<opened, baseCF, created, pending, nextFile>>
    BY DEF DropColumnFamily
  <1>2. /\ gc = {} /\ c \notin baseCF /\ c \in created
        /\ live[c] = Recovered(written, c) /\ live[c] \in SUBSET File
    BY <1>1 DEF QuietInv, JobsExclusive, IdsFresh, LogConsistent, Inv, TypeOK,
                PerCF
  <1>3. CASE LogAndApply(c, {}, live[c])
    <2>1. /\ LogConsistent' /\ IdsFresh' /\ NumbersUsed'
          /\ everLive' = everLive
          /\ \A d \in CF : Recovered(written', d) =
                             IF d = c THEN Recovered(written, d) \ live[c]
                                      ELSE Recovered(written, d)
      BY <1>1, <1>2, <1>3, QuietDeletion
    <2>2. JobsExclusive'  BY <1>1, <1>2 DEF QuietInv, JobsExclusive
    <2>3. PromiseStep
      BY <1>1, <1>2, <2>1, StepNothing DEF FilesOf, Recovered
    <2> QED  BY <2>1, <2>2, <2>3 DEF QuietInv
  <1>4. CASE LogFails(c, {}, live[c])
    <2>1. UNCHANGED <<written, possible, live, everLive>>
      BY <1>4, QuietFailure
    <2> QED  BY <1>1, <2>1, FrameQuiet
  <1> QED  BY <1>3, <1>4 DEF DropColumnFamily

LEMMA DestroyColumnFamilyHandleQuiet ==
  ASSUME QuietInv, NEW c \in CF, DestroyColumnFamilyHandle(c)
  PROVE  QuietInv' /\ PromiseStep
  BY FrameQuiet DEF DestroyColumnFamilyHandle, MaybeDestroyColumnFamily,
                    memVars, logVars, jobVars

LEMMA PurgeQuiet ==
  ASSUME QuietInv,
         \/ \E gone \in SUBSET File : GetObsoleteFiles(gone)
         \/ PurgeObsoleteFiles \/ RecoverPurge
  PROVE  QuietInv' /\ PromiseStep
  <1>1. ASSUME NEW gone \in SUBSET File, GetObsoleteFiles(gone)
        PROVE  QuietInv' /\ PromiseStep
    BY <1>1, FrameQuiet DEF GetObsoleteFiles, logVars
  <1>2. CASE PurgeObsoleteFiles
    BY <1>2, FrameQuiet DEF PurgeObsoleteFiles, cfVars, memVars, logVars
  <1>3. CASE RecoverPurge
    BY <1>3, FrameQuiet DEF RecoverPurge, cfVars, memVars, logVars, jobVars
  <1> QED  BY <1>1, <1>2, <1>3

LEMMA CrashQuiet == ASSUME Inv, QuietInv, Crash PROVE QuietInv' /\ PromiseStep
  <1> USE DEF Crash, NoFiles
  <1>1. written' = written /\ possible' = possible
    BY DEF QuietInv, LogConsistent
  <1>2. LogConsistent'
    BY <1>1 DEF QuietInv, LogConsistent
  <1>3. IdsFresh'  BY <1>1 DEF QuietInv, IdsFresh
  <1>4. JobsExclusive'  BY DEF JobsExclusive
  <1>5. NumbersUsed'  BY <1>1 DEF QuietInv, NumbersUsed
  <1>6. PromiseStep  BY <1>1, StepNothing DEF FilesOf, Recovered
  <1> QED  BY <1>2, <1>3, <1>4, <1>5, <1>6 DEF QuietInv

LEMMA RecoverReadQuiet ==
  ASSUME Inv, QuietInv, RecoverRead PROVE QuietInv' /\ PromiseStep
  <1>1. RecoverOK(written, baseCF)
    BY DEF QuietInv, LogConsistent, RecoverOK, Inv, TypeOK
  <1>2. /\ pc = "down" /\ pc' = "read" /\ opened' = baseCF
        /\ live' = [c \in CF |-> IF c \in baseCF THEN Recovered(written, c)
                                                 ELSE {}]
        /\ UNCHANGED <<written, possible, baseCF, created, pending, gc, dropping,
                       everLive>>
    BY <1>1 DEF RecoverRead, logVars, jobVars
  <1>3. baseCF \subseteq CF  BY DEF Inv, TypeOK
  <1>4. LogConsistent'
    <2>1. \A c \in opened' : live'[c] = Recovered(written, c)'
      BY <1>2, <1>3 DEF Recovered
    <2> QED  BY <1>2, <2>1 DEF QuietInv, LogConsistent
  <1>5. IdsFresh'  BY <1>2, <1>3 DEF QuietInv, IdsFresh
  <1>6. JobsExclusive'  BY <1>2 DEF QuietInv, JobsExclusive
  <1>7. NumbersUsed'  BY <1>2 DEF QuietInv, NumbersUsed
  <1>8. PromiseStep  BY <1>2, StepNothing DEF FilesOf, Recovered
  <1> QED  BY <1>4, <1>5, <1>6, <1>7, <1>8 DEF QuietInv

LEMMA RecoverManifestQuiet ==
  ASSUME Inv, QuietInv, RecoverManifest PROVE QuietInv' /\ PromiseStep
  <1>1. /\ pc = "read" /\ pc' = "purge"
        /\ written' = [added |-> live, deleted |-> NoFiles,
                       next |-> nextFile + 1, ok |-> TRUE]
        /\ possible' = {written'}
        /\ UNCHANGED <<live, opened, baseCF, created, pending, gc, dropping,
                       everLive>>
    BY DEF RecoverManifest, cfVars, memVars, jobVars
  <1>2. /\ written'.added = live /\ written'.deleted = NoFiles
        /\ written'.next = nextFile + 1 /\ written'.ok
    BY <1>1
  <1>3. \A c \in CF : /\ written'.deleted[c] = {}
                      /\ Recovered(written', c) = live[c]
    BY <1>2 DEF Recovered, NoFiles
  <1>4. /\ opened = baseCF /\ baseCF \subseteq CF
        /\ \A c \in baseCF : live[c] = Recovered(written, c)
    BY <1>1 DEF QuietInv, JobsExclusive, LogConsistent, Inv, TypeOK
  <1>5. LogConsistent'
    <2>1. \A c \in opened' : live'[c] = Recovered(written', c)
      BY <1>1, <1>3, <1>4
    <2> QED  BY <1>1, <1>2, <1>3, <2>1 DEF LogConsistent, Recovered
  <1>6. IdsFresh'  BY <1>1, <1>2 DEF QuietInv, IdsFresh
  <1>7. JobsExclusive'  BY <1>1, <1>4 DEF QuietInv, JobsExclusive
  <1>8. NumbersUsed'
    <2> SUFFICES ASSUME NEW f \in everLive PROVE f < nextFile + 1
      BY <1>1, <1>2 DEF QuietInv, NumbersUsed
    <2>1. f < written.next /\ written.next <= nextFile
      BY DEF QuietInv, NumbersUsed, Inv, FileInv, LogNumbers
    <2>2. f \in Int /\ written.next \in Int /\ nextFile \in Int
      BY FileSetAssumption DEF Inv, TypeOK, Manifest, File
    <2> QED  BY <2>1, <2>2
  <1>9. PromiseStep
    <2>1. \A c \in CF : FilesOf(c)' = FilesOf(c)
      BY <1>1, <1>3, <1>4 DEF FilesOf, Recovered
    <2> QED  BY <1>1, <2>1, StepNothing
  <1> QED  BY <1>5, <1>6, <1>7, <1>8, <1>9 DEF QuietInv

LEMMA StutterQuiet ==
  ASSUME QuietInv, UNCHANGED vars PROVE QuietInv' /\ PromiseStep
  <1> USE DEF vars, cfVars, memVars, logVars, jobVars
  <1>1. LogConsistent' /\ IdsFresh'
    BY DEF QuietInv, LogConsistent, IdsFresh, Recovered
  <1>2. JobsExclusive' /\ NumbersUsed'
    BY DEF QuietInv, JobsExclusive, NumbersUsed, Recovered
  <1>3. PromiseStep  BY StepNothing DEF FilesOf, Recovered
  <1> QED  BY <1>1, <1>2, <1>3 DEF QuietInv

\* Every step keeps the invariant and is a step of FileSet or a stutter.
LEMMA NextQuiet ==
  ASSUME Quiet, Inv, QuietInv, [Next]_vars PROVE QuietInv' /\ PromiseStep
  <1>1. ASSUME NEW c \in CF, FileStep(c) PROVE QuietInv' /\ PromiseStep
    <2>1. /\ ~DeleteFilesInRanges(c)
          /\ \A fs \in SUBSET File : ~DeleteMergedFiles(c, fs)
      BY DEF Quiet, DeleteFilesInRanges, DeleteMergedFiles
    <2> QED
      BY <1>1, <2>1, NewFileQuiet, FinishGCQuiet, BatchFinishFilesQuiet,
         PickGCQuiet DEF FileStep
  <1>2. ASSUME NEW c \in CF, ColumnFamilyStep(c) PROVE QuietInv' /\ PromiseStep
    BY <1>2, CreateColumnFamilyQuiet, DropBaseQuiet, DropColumnFamilyQuiet,
       DestroyColumnFamilyHandleQuiet DEF ColumnFamilyStep
  <1>3. CASE RecoveryStep
    BY <1>3, CrashQuiet, RecoverReadQuiet, RecoverManifestQuiet, PurgeQuiet
    DEF RecoveryStep
  <1>4. CASE UNCHANGED vars  BY <1>4, StutterQuiet
  <1> QED  BY <1>1, <1>2, <1>3, <1>4, PurgeQuiet DEF Next

-----------------------------------------------------------------------------
(***************************************************************************)
(* The theorems                                                            *)
(***************************************************************************)

\* Without failing manifest writes, range deletes and level merges, BlobFileSet
\* keeps the second invariant too.
THEOREM QuietInvHolds == ASSUME Quiet PROVE Spec => [](Inv /\ QuietInv)
  <1>1. Init => Inv /\ QuietInv  BY InitInv, InitQuiet
  <1>2. Inv /\ QuietInv /\ [Next]_vars => (Inv /\ QuietInv)'
    BY NextInv, NextQuiet
  <1> QED  BY <1>1, <1>2, PTL DEF Spec

\* Whatever a crash leaves of the manifest, BlobFileSet::Recover accepts it:
\* no file is added or deleted twice, and none is deleted that was not added.
THEOREM ManifestRecoverable == ASSUME Quiet PROVE Spec => []Recoverable
  <1>1. Inv /\ QuietInv => Recoverable
    BY DEF Inv, TypeOK, QuietInv, LogConsistent, Recoverable, RecoverOK
  <1> QED  BY <1>1, QuietInvHolds, PTL

\* The files that LogAndApply leaves in memory are the ones that Recover would
\* read from the manifest.
THEOREM MemoryIsManifest == ASSUME Quiet PROVE Spec => []MemoryMatchesManifest
  <1>1. Inv /\ QuietInv => MemoryMatchesManifest
    BY DEF QuietInv, LogConsistent, MemoryMatchesManifest
  <1> QED  BY <1>1, QuietInvHolds, PTL

\* The inputs of every GC job stay files of the database until it ends, for any
\* number of jobs that max_background_gc allows.
THEOREM InputsStayLive == ASSUME Quiet PROVE Spec => []GCInputsLive
  <1>1. Inv /\ QuietInv => GCInputsLive
    BY DEF Inv, TypeOK, QuietInv, JobsExclusive, GCInputsLive
  <1> QED  BY <1>1, QuietInvHolds, PTL

\* The manifest, over crashes and recoveries, implements the set of files that
\* FileSet promises: no file is lost, and no number of a file is given again.
THEOREM ManifestImplementsFileSet == ASSUME Quiet PROVE Spec => PromiseKept
  <1>1. Init => Promise!Init  BY InitQuiet
  <1>2. Inv /\ QuietInv /\ [Next]_vars => [Promise!Next]_(Promise!fsVars)
    BY NextQuiet DEF PromiseStep
  <1> QED
    BY <1>1, <1>2, QuietInvHolds, PTL DEF Spec, PromiseKept, Promise!Spec
=============================================================================
