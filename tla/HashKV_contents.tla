--------------------------- MODULE HashKV_contents ---------------------------
(***************************************************************************)
(* What a read of HashKV returns. ReadsLatest and FlushedSurvives, for any *)
(* number of groups, segments, records and crashes: CInv says where the    *)
(* last record of each key is, in memory and in what is durable.           *)
(***************************************************************************)
EXTENDS HashKV_fronts

----------------------------------------------------------------------------
(* The records of a group and the locations of its keys                     *)

At(q, k, loc) == q.off = loc.off /\ q.size = loc.size /\ q.key = k

\* a key of group g, unless it is in ex, has its record where index says, in
\* one of the group's segments and below the front of that segment
Found(g, segs, fronts, d, index, ex) ==
  \A k \in Key : Hash[k] = g /\ k \notin ex /\ index[k] # Nowhere =>
    /\ index[k].seg \in ToSet(segs)
    /\ index[k].off + index[k].size <= fronts[index[k].seg]
    /\ \E q \in d[index[k].seg] : At(q, k, index[k])

\* offset off of segment s is scanned no later than loc
NotAfter(segs, s, off, loc) ==
  \A i, j \in DOMAIN segs : segs[i] = s /\ segs[j] = loc.seg => i < j \/ (i = j /\ off <= loc.off)

\* below its front a segment has records of the group's keys only, side by
\* side, and none is scanned after the one that index locates
Clean(g, segs, fronts, d, index, ex) ==
  \A s \in ToSet(segs) : \A q \in d[s] : q.off < fronts[s] =>
    /\ q.off + q.size <= fronts[s]
    /\ Hash[q.key] = g /\ q.key \notin ex /\ index[q.key] # Nowhere
    /\ NotAfter(segs, s, q.off, index[q.key])
    /\ \A r \in d[s] : r.off = q.off => r = q

Indexed(g, segs, fronts, d, index, ex) ==
  Found(g, segs, fronts, d, index, ex) /\ Clean(g, segs, fronts, d, index, ex)

\* the disk with what garbage collection has placed and not yet written
Pasted(recs, us) ==
  {r \in recs : \A u \in us : ~ Overlaps(r, u.loc)} \cup
  {[off |-> u.loc.off, size |-> u.rec.size, key |-> u.rec.key, val |-> u.rec.val] : u \in us}

Image == [s \in Segment |-> Pasted(disk[s], {u \in unwritten : u.loc.seg = s})]

\* the locations once the batch is written to the LSM-tree
Where == Located(lsm, batch)

Moving == {r.key : r \in survivors}

Unflushed(k) == \E i \in pending : pool[i].key = k

----------------------------------------------------------------------------
(* The invariant                                                            *)

\* the buffer holds the newest values, and a flush takes them in order
PoolNewest ==
  /\ \A i \in DOMAIN pool : flushed[pool[i].key] <= pool[i].val
  /\ \A i \in DOMAIN pool :
       (\A j \in DOMAIN pool : j > i => pool[j].key # pool[i].key) => pool[i].val = latest[pool[i].key]
  /\ \A i \in pending : \A j \in DOMAIN pool :
       j > i /\ Hash[pool[j].key] = Hash[pool[i].key] => j \in pending
  /\ pc = "idle" => pending = DOMAIN pool

Counted ==
  /\ flushed \in [Key -> Int] /\ latest \in [Key -> Int]
  /\ \A k \in Key : flushed[k] <= puts
  /\ \A i \in DOMAIN pool : pool[i].val <= puts

\* the records that garbage collection is to place
Survive ==
  /\ pc # "rewrite" => survivors = {}
  /\ \A r \in survivors : Hash[r.key] \in Sound => Hash[r.key] = victim
  /\ victim \in Sound =>
       /\ \A r \in survivors : Hash[r.key] = victim
       /\ \A r \in survivors : r.val = latest[r.key] /\ \A i \in DOMAIN batch : batch[i].key # r.key
       /\ \A r, q \in survivors : r.key = q.key => r = q

\* unwritten records are in the batch, and a batch is logged before it counts
Logged ==
  /\ \A u \in unwritten : \E i \in DOMAIN batch : batch[i].loc = u.loc
  /\ \A u \in unwritten : victim # None /\ u.loc.seg \in ToSet(meta.segs[victim])
  /\ \A i \in DOMAIN batch : Hash[batch[i].key] \in Sound => Hash[batch[i].key] \in modified
  /\ pc \in {"keys", "meta", "ack"} /\ victim = None /\ batch # <<>> => updateLog # NoLog
  /\ pc \in {"meta", "ack"} => \A k \in Key : Hash[k] \in Sound => lsm[k] = Where[k]

MemoryIndexed ==
  \A g \in Sound :
    IF NotBegun(g) THEN \A k \in Key : Hash[k] = g => k \in Moving \/ Where[k] = Nowhere
    ELSE Indexed(g, meta.segs[g], meta.segFront, Image, Where, Moving)

\* what a read would return once the batch is committed
Values ==
  \A k \in Key : Hash[k] \in Sound =>
    /\ flushed[k] <= latest[k]
    /\ k \notin Moving =>
         /\ ReadDisk(Image, k, Where[k]) >= flushed[k]
         /\ ~ Unflushed(k) => ReadDisk(Image, k, Where[k]) = latest[k]

\* while the batch is in the LSM-tree and the metadata is not, the log has it;
\* while a group is written by garbage collection nothing has it
Committing(g) ==
  \/ pc = "meta" /\ g \in modified /\ batch # <<>>
  \/ g = victim /\ pc \in {"gcdata", "keys", "meta"}

\* records are appended behind what is persisted
Behindhand ==
  \A g \in Sound \ {victim} : \A s \in ToSet(groupMeta[g].segs) : segMeta[s] <= meta.segFront[s]

DurableIndexed ==
  \A g \in Sound : Committing(g) \/ Indexed(g, groupMeta[g].segs, segMeta, disk, lsm, {})

DurableValues ==
  \A k \in Key : Hash[k] \in Sound =>
    \/ Hash[k] = victim /\ pc \in {"gcdata", "keys"}
    \/ ReadDisk(disk, k, lsm[k]) >= flushed[k]

\* what recovery will find
RecoverableContents ==
  /\ pool = <<>> /\ pending = {} /\ survivors = {}
  /\ \A g \in Sound :
       IF g \in DOMAIN updateLog.groups
       THEN Indexed(g, updateLog.groups[g].segs, FrontsFrom(segMeta, updateLog.keys), disk,
                    Located(lsm, updateLog.keys), {})
       ELSE Indexed(g, groupMeta[g].segs, segMeta, disk, Located(lsm, updateLog.keys), {})
  /\ \A k \in Key : Hash[k] \in Sound =>
       ReadDisk(disk, k, Located(lsm, updateLog.keys)[k]) >= flushed[k]

CInv ==
  /\ Counted
  /\ IF pc = "down" THEN RecoverableContents
     ELSE /\ PoolNewest /\ Survive /\ Logged /\ MemoryIndexed /\ Values
          /\ Behindhand /\ DurableIndexed /\ DurableValues

----------------------------------------------------------------------------
(* Storing a record                                                         *)

Sane(d) == d = [s \in Segment |-> d[s]] /\ \A s \in Segment : \A q \in d[s] : q \in Kept

New(loc, r) == [off |-> loc.off, size |-> r.size, key |-> r.key, val |-> r.val]

Written(d, loc, r) == [d EXCEPT ![loc.seg] = Store(@, loc, r)]

Apart(q, loc) == q.off + q.size <= loc.off \/ loc.off + loc.size <= q.off

LEMMA KeptTypes ==
  \A q \in Kept : q.off \in Nat /\ q.size \in Nat \ {0} /\ q.key \in Key /\ q.val \in Nat
  BY HashKVAssumption DEF Kept

LEMMA LocTypes ==
  \A l \in Loc : /\ l.seg \in Segment /\ l.off \in Nat /\ l.size \in Nat \ {0} /\ l # Nowhere
                 /\ l.seg # None
  <1> SUFFICES ASSUME NEW l \in Loc
               PROVE  /\ l.seg \in Segment /\ l.off \in Nat /\ l.size \in Nat \ {0} /\ l # Nowhere
                      /\ l.seg # None
    OBVIOUS
  <1>1. l.seg \in Segment /\ l.off \in Nat /\ l.size \in 1..LogSize  BY DEF Loc
  <1>2. Nowhere.seg = None  BY DEF Nowhere
  <1>3. None \notin Segment  BY SegmentFacts, HashKVAssumption DEF Segment, Group, LogSeg, None
  <1> QED  BY <1>1, <1>2, <1>3, SizeFacts

LEMMA RecTypes ==
  \A r \in Rec : r.size \in 1..LogSize /\ r.size \in Nat \ {0} /\ r.key \in Key /\ r.val \in Nat
  BY HashKVAssumption DEF Rec, Record

\* d2 is d with record r stored at loc, and without what that destroys
Stored(d, d2, loc, r) ==
  /\ Sane(d2)
  /\ \A s \in Segment \ {loc.seg} : d2[s] = d[s]
  /\ New(loc, r) \in d2[loc.seg]
  /\ \A q \in d2[loc.seg] : q = New(loc, r) \/ (q \in d[loc.seg] /\ Apart(q, loc))
  /\ \A q \in d[loc.seg] : Apart(q, loc) => q \in d2[loc.seg]

LEMMA StoreCases ==
  ASSUME NEW d, Sane(d), NEW loc \in Loc, NEW r \in Rec, loc.size = r.size,
         NEW d2, d2 = Written(d, loc, r)
  PROVE  Stored(d, d2, loc, r)
  <1>1. loc.seg \in Segment /\ loc.off \in Nat /\ loc.size \in Nat \ {0}  BY LocTypes
  <1>2. \A q \in d[loc.seg] : q.off \in Nat /\ q.size \in Nat \ {0}
    BY <1>1, KeptTypes DEF Sane
  <1>3. \A q \in d[loc.seg] : ~ Overlaps(q, loc) <=> Apart(q, loc)
    BY <1>1, <1>2 DEF Overlaps, Apart
  <1>4. DOMAIN d = Segment  BY DEF Sane
  <1>5. d2[loc.seg] = Store(d[loc.seg], loc, r) /\ \A s \in Segment \ {loc.seg} : d2[s] = d[s]
    BY <1>1, <1>4 DEF Written
  <1>6. Store(d[loc.seg], loc, r) = {q \in d[loc.seg] : ~ Overlaps(q, loc)} \cup {New(loc, r)}
    BY DEF Store, New
  <1>7. New(loc, r) \in Kept
    BY <1>1 DEF New, Kept, Rec, Record
  <1>8. d2 = [s \in Segment |-> d2[s]]  BY <1>4 DEF Written
  <1>9. ASSUME NEW s \in Segment, NEW q \in d2[s] PROVE q \in Kept
    <2>1. CASE s = loc.seg  BY <1>5, <1>6, <1>7, <2>1 DEF Sane
    <2>2. CASE s # loc.seg  BY <1>5, <2>2 DEF Sane
    <2> QED  BY <2>1, <2>2
  <1>10. Sane(d2)  BY <1>8, <1>9 DEF Sane
  <1> QED  BY <1>3, <1>5, <1>6, <1>10 DEF Stored

(* A read of what was just stored, and of what lies before or elsewhere.    *)
LEMMA ReadStored ==
  ASSUME NEW d, Sane(d), NEW loc \in Loc, NEW r \in Rec, loc.size = r.size,
         NEW d2, d2 = Written(d, loc, r)
  PROVE  /\ ReadDisk(d2, r.key, loc) = r.val
         /\ \A k \in Key : \A l \in Loc \cup {Nowhere} :
              l.seg # loc.seg \/ l.off + l.size <= loc.off => ReadDisk(d2, k, l) = ReadDisk(d, k, l)
  <1> DEFINE new == New(loc, r)
  <1>1. /\ Sane(d2) /\ \A s \in Segment \ {loc.seg} : d2[s] = d[s]
        /\ new \in d2[loc.seg]
        /\ \A q \in d2[loc.seg] : q = new \/ (q \in d[loc.seg] /\ Apart(q, loc))
        /\ \A q \in d[loc.seg] : Apart(q, loc) => q \in d2[loc.seg]
    BY StoreCases DEF Stored
  <1>2. loc.seg \in Segment /\ loc.off \in Nat /\ loc.size \in Nat \ {0} /\ loc # Nowhere  BY LocTypes
  <1>3. \A s \in Segment : \A q \in d[s] : q.off \in Nat /\ q.size \in Nat \ {0}
    BY KeptTypes DEF Sane
  <1>4. new.off = loc.off /\ new.size = loc.size /\ new.key = r.key /\ new.val = r.val
    BY DEF New
  <1> HIDE DEF new
  <1>5. ReadDisk(d2, r.key, loc) = r.val
    <2> DEFINE hits == {q \in d2[loc.seg] : q.off = loc.off /\ q.size = loc.size /\ q.key = r.key}
    <2>1. ASSUME NEW q \in hits PROVE q = new
      <3>1. q.off = loc.off /\ q.size = loc.size /\ q \in d2[loc.seg]  OBVIOUS
      <3>2. ~ Apart(q, loc)  BY <1>2, <3>1 DEF Apart
      <3> QED  BY <1>1, <3>1, <3>2
    <2>2. new \in hits  BY <1>1, <1>4
    <2>3. ReadDisk(d2, r.key, loc) = (CHOOSE q \in hits : TRUE).val
      BY <1>2, <2>2 DEF ReadDisk
    <2>4. (CHOOSE q \in hits : TRUE) \in hits  BY <2>2
    <2> QED  BY <1>4, <2>1, <2>3, <2>4
  <1>6. ASSUME NEW k \in Key, NEW l \in Loc \cup {Nowhere}, l.seg # loc.seg \/ l.off + l.size <= loc.off
        PROVE  ReadDisk(d2, k, l) = ReadDisk(d, k, l)
    <2>1. CASE l = Nowhere  BY <2>1 DEF ReadDisk
    <2>2. CASE l # Nowhere
      <3>1. l.seg \in Segment /\ l.off \in Nat /\ l.size \in Nat \ {0}  BY <2>2, LocTypes
      <3> DEFINE H(x) == {q \in x[l.seg] : q.off = l.off /\ q.size = l.size /\ q.key = k}
      <3>2. H(d2) = H(d)
        <4>1. CASE l.seg # loc.seg  BY <1>1, <3>1, <4>1
        <4>2. CASE l.seg = loc.seg /\ l.off + l.size <= loc.off
          <5>1. ASSUME NEW q \in H(d2) PROVE q \in H(d)
            <6>1. q.off = l.off  OBVIOUS
            <6>2. q # new  BY <1>2, <1>4, <3>1, <4>2, <6>1
            <6> QED  BY <1>1, <4>2, <6>2
          <5>2. ASSUME NEW q \in H(d) PROVE q \in H(d2)
            <6>1. Apart(q, loc)  BY <4>2 DEF Apart
            <6> QED  BY <1>1, <4>2, <6>1
          <5> QED  BY <5>1, <5>2
        <4> QED  BY <1>6, <4>1, <4>2
      <3>3. ReadDisk(d2, k, l) = IF H(d2) = {} THEN None ELSE (CHOOSE q \in H(d2) : TRUE).val
        BY <2>2 DEF ReadDisk
      <3>4. ReadDisk(d, k, l) = IF H(d) = {} THEN None ELSE (CHOOSE q \in H(d) : TRUE).val
        BY <2>2 DEF ReadDisk
      <3> QED  BY <3>2, <3>3, <3>4
    <2> QED  BY <2>1, <2>2
  <1> QED  BY <1>5, <1>6

----------------------------------------------------------------------------
(* What keeps a group indexed                                               *)

(* Nothing that concerns the group has changed.                             *)
LEMMA IndexedSame ==
  ASSUME NEW g, NEW segs, ToSet(segs) \subseteq Segment, NEW d, Sane(d), NEW d2, NEW F, NEW F2,
         NEW X, NEW X2, NEW ex, NEW ex2,
         \A s \in ToSet(segs) : F2[s] = F[s] /\ d2[s] = d[s],
         \A k \in Key : Hash[k] = g => X2[k] = X[k] /\ (k \in ex2 <=> k \in ex),
         Indexed(g, segs, F, d, X, ex)
  PROVE  Indexed(g, segs, F2, d2, X2, ex2)
  <1>1. ASSUME NEW k \in Key, Hash[k] = g, k \notin ex2, X2[k] # Nowhere
        PROVE  /\ X2[k].seg \in ToSet(segs)
               /\ X2[k].off + X2[k].size <= F2[X2[k].seg]
               /\ \E q \in d2[X2[k].seg] : At(q, k, X2[k])
    <2>1. X2[k] = X[k] /\ k \notin ex  BY <1>1
    <2>2. /\ X[k].seg \in ToSet(segs)
          /\ X[k].off + X[k].size <= F[X[k].seg]
          /\ \E q \in d[X[k].seg] : At(q, k, X[k])
      BY <1>1, <2>1 DEF Indexed, Found
    <2> QED  BY <2>1, <2>2
  <1>2. ASSUME NEW s \in ToSet(segs), NEW q \in d2[s], q.off < F2[s]
        PROVE  /\ q.off + q.size <= F2[s]
               /\ Hash[q.key] = g /\ q.key \notin ex2 /\ X2[q.key] # Nowhere
               /\ NotAfter(segs, s, q.off, X2[q.key])
               /\ \A r \in d2[s] : r.off = q.off => r = q
    <2>1. q \in d[s] /\ q.off < F[s] /\ q.key \in Key  BY <1>2, KeptTypes DEF Sane
    <2>2. /\ q.off + q.size <= F[s]
          /\ Hash[q.key] = g /\ q.key \notin ex /\ X[q.key] # Nowhere
          /\ NotAfter(segs, s, q.off, X[q.key])
          /\ \A r \in d[s] : r.off = q.off => r = q
      BY <2>1 DEF Indexed, Clean
    <2>3. X2[q.key] = X[q.key] /\ q.key \notin ex2  BY <2>1, <2>2
    <2> QED  BY <2>2, <2>3
  <1> QED  BY <1>1, <1>2 DEF Indexed, Found, Clean

(* A record is stored behind the front of its segment.                      *)
LEMMA IndexedBeyond ==
  ASSUME NEW g, NEW segs, ToSet(segs) \subseteq Segment, NEW d, Sane(d),
         NEW loc \in Loc, NEW r \in Rec, loc.size = r.size, NEW d2, d2 = Written(d, loc, r),
         NEW F, \A s \in ToSet(segs) : F[s] \in Nat,
         loc.seg \in ToSet(segs) => F[loc.seg] <= loc.off,
         NEW X, X \in [Key -> Loc \cup {Nowhere}], NEW ex, Indexed(g, segs, F, d, X, ex)
  PROVE  Indexed(g, segs, F, d2, X, ex)
  <1> DEFINE new == New(loc, r)
  <1>1. /\ Sane(d2) /\ \A s \in Segment \ {loc.seg} : d2[s] = d[s]
        /\ \A q \in d2[loc.seg] : q = new \/ (q \in d[loc.seg] /\ Apart(q, loc))
        /\ \A q \in d[loc.seg] : Apart(q, loc) => q \in d2[loc.seg]
    BY StoreCases DEF Stored
  <1>2. loc.seg \in Segment /\ loc.off \in Nat /\ loc.size \in Nat \ {0}  BY LocTypes
  <1>3. new.off = loc.off  BY DEF New
  <1> HIDE DEF new
  <1>4. CASE loc.seg \notin ToSet(segs)
    <2>1. \A s \in ToSet(segs) : d2[s] = d[s]  BY <1>1, <1>4
    <2> QED  BY <2>1, IndexedSame
  <1>5. CASE loc.seg \in ToSet(segs)
    <2>0. F[loc.seg] \in Nat /\ F[loc.seg] <= loc.off  BY <1>5
    <2>1. ASSUME NEW k \in Key, Hash[k] = g, k \notin ex, X[k] # Nowhere
          PROVE  /\ X[k].seg \in ToSet(segs)
                 /\ X[k].off + X[k].size <= F[X[k].seg]
                 /\ \E q \in d2[X[k].seg] : At(q, k, X[k])
      <3>1. X[k].seg \in ToSet(segs) /\ X[k].off + X[k].size <= F[X[k].seg]
        BY <2>1 DEF Indexed, Found
      <3>2. PICK q \in d[X[k].seg] : At(q, k, X[k])  BY <2>1 DEF Indexed, Found
      <3>3. X[k].off \in Nat /\ X[k].size \in Nat  BY <2>1, LocTypes
      <3>4. q \in d2[X[k].seg]
        <4>1. CASE X[k].seg # loc.seg  BY <1>1, <3>1, <3>2, <4>1
        <4>2. CASE X[k].seg = loc.seg
          <5>1. q.off = X[k].off /\ q.size = X[k].size  BY <3>2 DEF At
          <5>2. q.off + q.size <= loc.off  BY <1>2, <2>0, <3>1, <3>3, <4>2, <5>1
          <5> QED  BY <1>1, <3>2, <4>2, <5>2 DEF Apart
        <4> QED  BY <4>1, <4>2
      <3> QED  BY <3>1, <3>2, <3>4
    <2>2. ASSUME NEW s \in ToSet(segs), NEW q \in d2[s], q.off < F[s]
          PROVE  q \in d[s] /\ q.off \in Nat
      <3>1. CASE s # loc.seg  BY <1>1, <2>2, <3>1, KeptTypes DEF Sane
      <3>2. CASE s = loc.seg
        <4>1. q # new  BY <1>2, <1>3, <2>0, <2>2, <3>2
        <4> QED  BY <1>1, <1>2, <3>2, <4>1, KeptTypes DEF Sane
      <3> QED  BY <3>1, <3>2
    <2>3. ASSUME NEW s \in ToSet(segs), NEW q \in d2[s], q.off < F[s]
          PROVE  /\ q.off + q.size <= F[s]
                 /\ Hash[q.key] = g /\ q.key \notin ex /\ X[q.key] # Nowhere
                 /\ NotAfter(segs, s, q.off, X[q.key])
                 /\ \A x \in d2[s] : x.off = q.off => x = q
      <3>1. q \in d[s]  BY <2>2, <2>3
      <3>2. /\ q.off + q.size <= F[s]
            /\ Hash[q.key] = g /\ q.key \notin ex /\ X[q.key] # Nowhere
            /\ NotAfter(segs, s, q.off, X[q.key])
            /\ \A x \in d[s] : x.off = q.off => x = q
        BY <2>3, <3>1 DEF Indexed, Clean
      <3>3. ASSUME NEW x \in d2[s], x.off = q.off PROVE x \in d[s]
        BY <2>2, <2>3, <3>3
      <3> QED  BY <3>2, <3>3
    <2> QED  BY <2>1, <2>3 DEF Indexed, Found, Clean
  <1> QED  BY <1>4, <1>5

\* a list, perhaps with one more segment at the end
ListAfter(new, old, s) ==
  /\ Distinct(new) /\ new \in Seq(Segment) /\ new # <<>> /\ Last(new) = s
  /\ new = old \/ (old \in Seq(Segment) /\ new = Append(old, s) /\ s \notin ToSet(old))

LEMMA LastPlace ==
  ASSUME NEW new, NEW old, NEW s, ListAfter(new, old, s)
  PROVE  /\ DOMAIN new = 1..Len(new) /\ Len(new) \in Nat \ {0} /\ new[Len(new)] = s
         /\ \A i \in DOMAIN new : new[i] = s => i = Len(new)
         /\ \A i \in DOMAIN new : i <= Len(new)
         /\ \A i \in DOMAIN new : new[i] \in ToSet(old) => i \in DOMAIN old /\ old[i] = new[i]
         /\ s \in ToSet(new)
  <1>1. new \in Seq(Segment) /\ new # <<>> /\ Last(new) = s /\ Distinct(new)  BY DEF ListAfter
  <1>2. DOMAIN new = 1..Len(new) /\ Len(new) \in Nat \ {0}  BY <1>1
  <1>3. new[Len(new)] = s  BY <1>1, <1>2 DEF Last
  <1>4. \A i \in DOMAIN new : new[i] = s => i = Len(new)  BY <1>1, <1>2, <1>3 DEF Distinct
  <1>5. ASSUME NEW i \in DOMAIN new, new[i] \in ToSet(old) PROVE i \in DOMAIN old /\ old[i] = new[i]
    <2>1. CASE new = old  BY <2>1
    <2>2. CASE old \in Seq(Segment) /\ new = Append(old, s) /\ s \notin ToSet(old)
      <3>1. i # Len(new)  BY <1>3, <1>5, <2>2
      <3>2. Len(new) = Len(old) + 1 /\ DOMAIN old = 1..Len(old) /\ Len(old) \in Nat  BY <2>2
      <3>3. i \in 1..Len(old)  BY <1>2, <3>1, <3>2
      <3> QED  BY <2>2, <3>2, <3>3
    <2> QED  BY <2>1, <2>2 DEF ListAfter
  <1>6. s \in ToSet(new)  BY <1>2, <1>3 DEF ToSet
  <1> QED  BY <1>2, <1>3, <1>4, <1>5, <1>6

(* A record of the group is placed behind all others of the group.          *)
LEMMA IndexedPlaced ==
  ASSUME NEW g, NEW segs, NEW segs2, NEW loc \in Loc, ListAfter(segs2, segs, loc.seg),
         ToSet(segs) \subseteq Segment, ToSet(segs2) = ToSet(segs) \cup {loc.seg},
         NEW d, Sane(d), NEW r \in Rec, loc.size = r.size, NEW d2, d2 = Written(d, loc, r),
         NEW F, NEW F2, \A s \in ToSet(segs) : F[s] \in Nat,
         F2[loc.seg] = loc.off + loc.size, \A s \in ToSet(segs) \ {loc.seg} : F2[s] = F[s],
         loc.seg \in ToSet(segs) => loc.off = F[loc.seg],
         loc.seg \notin ToSet(segs) => loc.off = 0,
         NEW X, X \in [Key -> Loc \cup {Nowhere}], NEW X2, X2[r.key] = loc,
         \A j \in Key \ {r.key} : X2[j] = X[j], Hash[r.key] = g,
         NEW ex, NEW ex2, ex2 = ex \ {r.key}, Indexed(g, segs, F, d, X, ex)
  PROVE  Indexed(g, segs2, F2, d2, X2, ex2)
  <1>0. Stored(d, d2, loc, r)  BY StoreCases
  <1> DEFINE new == New(loc, r)
             k == r.key
             t == loc.seg
  <1>1. /\ Sane(d2) /\ \A s \in Segment \ {t} : d2[s] = d[s]
        /\ new \in d2[t]
        /\ \A q \in d2[t] : q = new \/ (q \in d[t] /\ Apart(q, loc))
        /\ \A q \in d[t] : Apart(q, loc) => q \in d2[t]
    BY <1>0 DEF Stored
  <1>2. t \in Segment /\ loc.off \in Nat /\ loc.size \in Nat \ {0} /\ loc # Nowhere  BY LocTypes
  <1>3. new.off = loc.off /\ new.size = loc.size /\ new.key = k /\ k \in Key
    BY RecTypes DEF New
  <1>4. /\ DOMAIN segs2 = 1..Len(segs2) /\ Len(segs2) \in Nat \ {0} /\ segs2[Len(segs2)] = t
        /\ \A i \in DOMAIN segs2 : segs2[i] = t => i = Len(segs2)
        /\ \A i \in DOMAIN segs2 : segs2[i] \in ToSet(segs) => i \in DOMAIN segs /\ segs[i] = segs2[i]
    BY LastPlace
  <1> HIDE DEF new, k, t
  \* what lies below the front of the segment is the new record or was there before
  <1>5. ASSUME NEW q \in d2[t], q.off < F2[t], q # new
        PROVE  /\ t \in ToSet(segs) /\ q \in d[t] /\ q.off < F[t] /\ q.off + q.size <= loc.off
               /\ q.off \in Nat /\ q.size \in Nat \ {0}
    <2>1. q \in d[t] /\ Apart(q, loc)  BY <1>1, <1>5
    <2>2. q.off \in Nat /\ q.size \in Nat \ {0}  BY <1>2, <2>1, KeptTypes DEF Sane
    <2>3. F2[t] = loc.off + loc.size  BY DEF t
    <2>4. q.off + q.size <= loc.off  BY <1>2, <1>5, <2>1, <2>2, <2>3 DEF Apart
    <2>5. loc.off # 0  BY <1>2, <2>2, <2>4
    <2>6. t \in ToSet(segs) /\ loc.off = F[t]  BY <2>5 DEF t
    <2>7. q.off < F[t]  BY <1>2, <2>2, <2>4, <2>6
    <2> QED  BY <2>1, <2>2, <2>4, <2>6, <2>7
  <1>6. ASSUME NEW q \in d2[t], q.off = new.off PROVE q = new
    <2>1. q.off = loc.off  BY <1>3, <1>6
    <2>2. q.off < F2[t]  BY <1>2, <2>1 DEF t
    <2>3. ~ (q.off + q.size <= loc.off) \/ q.size \notin Nat \ {0}  BY <1>2, <2>1
    <2> QED  BY <1>5, <2>2, <2>3
  <1>7. ASSUME NEW j \in Key, Hash[j] = g, j \notin ex2, X2[j] # Nowhere
        PROVE  /\ X2[j].seg \in ToSet(segs2)
               /\ X2[j].off + X2[j].size <= F2[X2[j].seg]
               /\ \E q \in d2[X2[j].seg] : At(q, j, X2[j])
    <2>1. CASE j = k
      <3>1. X2[j] = loc /\ loc.seg = t  BY <2>1 DEF k, t
      <3>2. F2[t] = loc.off + loc.size  BY DEF t
      <3>3. At(new, j, loc)  BY <1>3, <2>1 DEF At
      <3> QED  BY <1>1, <1>2, <3>1, <3>2, <3>3
    <2>2. CASE j # k
      <3>1. X2[j] = X[j] /\ j \notin ex  BY <1>7, <2>2 DEF k
      <3>2. X[j].seg \in ToSet(segs) /\ X[j].off + X[j].size <= F[X[j].seg]
        BY <1>7, <3>1 DEF Indexed, Found
      <3>3. PICK q \in d[X[j].seg] : At(q, j, X[j])  BY <1>7, <3>1 DEF Indexed, Found
      <3>4. X[j].off \in Nat /\ X[j].size \in Nat  BY <1>7, <3>1, LocTypes
      <3>5. CASE X[j].seg # t
        <4>1. q \in d2[X[j].seg]  BY <1>1, <3>2, <3>3, <3>5
        <4>2. F2[X[j].seg] = F[X[j].seg]  BY <3>2, <3>5 DEF t
        <4> QED  BY <3>1, <3>2, <3>3, <4>1, <4>2
      <3>6. CASE X[j].seg = t
        <4>1. F[t] = loc.off /\ F2[t] = loc.off + loc.size  BY <3>2, <3>6 DEF t
        <4>2. q.off + q.size <= loc.off  BY <3>2, <3>3, <3>6, <4>1 DEF At
        <4>3. q \in d2[t]  BY <1>1, <3>3, <3>6, <4>2 DEF Apart
        <4>4. X[j].off + X[j].size <= F2[t]  BY <1>2, <3>2, <3>4, <3>6, <4>1
        <4> QED  BY <3>1, <3>2, <3>3, <3>6, <4>3, <4>4
      <3> QED  BY <3>5, <3>6
    <2> QED  BY <2>1, <2>2
  \* the records that were there before
  <1>8. ASSUME NEW s \in ToSet(segs), NEW q \in d[s], q.off < F[s], s = t => q.off + q.size <= loc.off
        PROVE  /\ q.key \in Key /\ Hash[q.key] = g /\ q.key \notin ex2 /\ X2[q.key] # Nowhere
               /\ NotAfter(segs2, s, q.off, X2[q.key])
    <2>1. /\ q.off + q.size <= F[s]
          /\ Hash[q.key] = g /\ q.key \notin ex /\ X[q.key] # Nowhere
          /\ NotAfter(segs, s, q.off, X[q.key])
      BY <1>8 DEF Indexed, Clean
    <2>2. q.key \in Key /\ q.off \in Nat /\ q.size \in Nat  BY KeptTypes DEF Sane
    <2>3. CASE q.key = k
      <3>1. X2[q.key] = loc  BY <2>3 DEF k
      <3>2. ASSUME NEW i \in DOMAIN segs2, NEW j \in DOMAIN segs2, segs2[i] = s, segs2[j] = loc.seg
            PROVE  i < j \/ (i = j /\ q.off <= loc.off)
        <4>1. j = Len(segs2) /\ i \in Nat /\ j \in Nat /\ i <= j  BY <1>4, <3>2 DEF t
        <4>2. i = j => q.off <= loc.off
          <5>1. i = j => s = t  BY <3>2 DEF t
          <5> QED  BY <1>2, <1>8, <2>2, <5>1
        <4> QED  BY <4>1, <4>2
      <3> QED  BY <1>2, <2>1, <2>2, <3>1, <3>2 DEF NotAfter
    <2>4. CASE q.key # k
      <3>1. X2[q.key] = X[q.key]  BY <2>2, <2>4 DEF k
      <3>2. X[q.key].seg \in ToSet(segs)  BY <2>1, <2>2 DEF Indexed, Found
      <3>3. ASSUME NEW i \in DOMAIN segs2, NEW j \in DOMAIN segs2, segs2[i] = s, segs2[j] = X[q.key].seg
            PROVE  i < j \/ (i = j /\ q.off <= X[q.key].off)
        <4>1. i \in DOMAIN segs /\ j \in DOMAIN segs /\ segs[i] = s /\ segs[j] = X[q.key].seg
          BY <1>4, <3>2, <3>3
        <4> QED  BY <2>1, <4>1 DEF NotAfter
      <3> QED  BY <2>1, <2>2, <3>1, <3>3 DEF NotAfter
    <2> QED  BY <2>3, <2>4
  <1>9. ASSUME NEW s \in ToSet(segs2), NEW q \in d2[s], q.off < F2[s]
        PROVE  /\ q.off + q.size <= F2[s]
               /\ Hash[q.key] = g /\ q.key \notin ex2 /\ X2[q.key] # Nowhere
               /\ NotAfter(segs2, s, q.off, X2[q.key])
               /\ \A x \in d2[s] : x.off = q.off => x = q
    <2>1. CASE s # t
      <3>1. s \in ToSet(segs) /\ F2[s] = F[s] /\ s \in Segment  BY <2>1 DEF t
      <3>2. d2[s] = d[s]  BY <1>1, <2>1, <3>1
      <3>3. q.off + q.size <= F[s] /\ \A x \in d[s] : x.off = q.off => x = q
        BY <1>9, <3>1, <3>2 DEF Indexed, Clean
      <3>4. /\ Hash[q.key] = g /\ q.key \notin ex2 /\ X2[q.key] # Nowhere
            /\ NotAfter(segs2, s, q.off, X2[q.key])
        BY <1>8, <1>9, <2>1, <3>1, <3>2
      <3> QED  BY <3>1, <3>2, <3>3, <3>4
    <2>2. CASE s = t /\ q = new
      <3>1. q.off + q.size <= F2[s]  BY <1>2, <1>3, <2>2 DEF t
      <3>2. q.key = k /\ X2[k] = loc /\ k \notin ex2 /\ Hash[k] = g  BY <1>3, <2>2 DEF k
      <3>3. ASSUME NEW i \in DOMAIN segs2, NEW j \in DOMAIN segs2, segs2[i] = s, segs2[j] = loc.seg
            PROVE  i = j /\ q.off <= loc.off
        <4>1. i = Len(segs2) /\ j = Len(segs2)  BY <1>4, <2>2, <3>3 DEF t
        <4> QED  BY <1>2, <1>3, <2>2, <4>1
      <3>4. NotAfter(segs2, s, q.off, loc)  BY <3>3 DEF NotAfter
      <3> QED  BY <1>2, <1>6, <2>2, <3>1, <3>2, <3>4
    <2>3. CASE s = t /\ q # new
      <3>1. /\ t \in ToSet(segs) /\ q \in d[t] /\ q.off < F[t] /\ q.off + q.size <= loc.off
            /\ q.off \in Nat /\ q.size \in Nat \ {0}
        BY <1>5, <1>9, <2>3
      <3>2. q.off + q.size <= F2[t]
        <4>1. F2[t] = loc.off + loc.size  BY DEF t
        <4> QED  BY <1>2, <3>1, <4>1
      <3>3. /\ Hash[q.key] = g /\ q.key \notin ex2 /\ X2[q.key] # Nowhere
            /\ NotAfter(segs2, t, q.off, X2[q.key])
        BY <1>8, <3>1
      <3>4. ASSUME NEW x \in d2[t], x.off = q.off PROVE x = q
        <4>1. x # new
          <5>1. q.off # loc.off  BY <1>2, <3>1
          <5> QED  BY <1>3, <3>4, <5>1
        <4>2. x \in d[t]  BY <1>1, <3>4, <4>1
        <4> QED  BY <3>1, <3>4, <4>2 DEF Indexed, Clean
      <3> QED  BY <2>3, <3>2, <3>3, <3>4
    <2> QED  BY <2>1, <2>2, <2>3
  <1> QED  BY <1>7, <1>9 DEF Indexed, Found, Clean

(* The first record that garbage collection places.                         *)
LEMMA IndexedFirst ==
  ASSUME NEW g \in Group, NEW loc \in Loc, loc.seg = g, loc.off = 0,
         NEW d, Sane(d), NEW r \in Rec, loc.size = r.size, NEW d2, d2 = Written(d, loc, r),
         NEW F2, F2[g] = loc.off + loc.size,
         NEW X2, X2[r.key] = loc, Hash[r.key] = g, NEW ex2, r.key \notin ex2,
         \A j \in Key \ {r.key} : Hash[j] = g => j \in ex2 \/ X2[j] = Nowhere
  PROVE  Indexed(g, <<g>>, F2, d2, X2, ex2)
  <1> DEFINE new == New(loc, r)
             k == r.key
  <1>0. Stored(d, d2, loc, r)  BY StoreCases
  <1>1. /\ Sane(d2) /\ new \in d2[g]
        /\ \A q \in d2[g] : q = new \/ (q \in d[g] /\ Apart(q, loc))
    BY <1>0 DEF Stored
  <1>2. g \in Segment /\ loc.off \in Nat /\ loc.size \in Nat \ {0} /\ loc # Nowhere  BY LocTypes
  <1>3. new.off = loc.off /\ new.size = loc.size /\ new.key = k /\ k \in Key
    BY RecTypes DEF New
  <1>4. ToSet(<<g>>) = {g} /\ DOMAIN <<g>> = {1}  BY DEF ToSet
  <1> HIDE DEF new, k
  <1>5. ASSUME NEW q \in d2[g], q.off < F2[g] PROVE q = new
    <2> SUFFICES ASSUME q # new PROVE FALSE  OBVIOUS
    <2>1. q \in d[g] /\ Apart(q, loc)  BY <1>1
    <2>2. q.off \in Nat /\ q.size \in Nat \ {0}  BY <1>2, <2>1, KeptTypes DEF Sane
    <2> QED  BY <1>2, <1>5, <2>1, <2>2 DEF Apart
  <1>6. ASSUME NEW j \in Key, Hash[j] = g, j \notin ex2, X2[j] # Nowhere
        PROVE  /\ X2[j].seg \in ToSet(<<g>>)
               /\ X2[j].off + X2[j].size <= F2[X2[j].seg]
               /\ \E q \in d2[X2[j].seg] : At(q, j, X2[j])
    <2>1. j = k
      <3> SUFFICES ASSUME j # k PROVE FALSE  OBVIOUS
      <3> QED  BY <1>6 DEF k
    <2>2. X2[j] = loc /\ At(new, j, loc)  BY <1>3, <2>1 DEF At, k
    <2> QED  BY <1>1, <1>2, <1>4, <2>2
  <1>7. ASSUME NEW s \in ToSet(<<g>>), NEW q \in d2[s], q.off < F2[s]
        PROVE  /\ q.off + q.size <= F2[s]
               /\ Hash[q.key] = g /\ q.key \notin ex2 /\ X2[q.key] # Nowhere
               /\ NotAfter(<<g>>, s, q.off, X2[q.key])
               /\ \A x \in d2[s] : x.off = q.off => x = q
    <2>1. s = g /\ q = new  BY <1>4, <1>5, <1>7
    <2>2. q.key = k /\ X2[k] = loc /\ k \notin ex2 /\ Hash[k] = g  BY <1>3, <2>1 DEF k
    <2>3. q.off + q.size <= F2[s]  BY <1>2, <1>3, <2>1
    <2>4. NotAfter(<<g>>, s, q.off, loc)  BY <1>2, <1>3, <1>4, <2>1 DEF NotAfter
    <2>5. ASSUME NEW x \in d2[s], x.off = q.off PROVE x = q
      <3>1. x \in d2[g] /\ x.off < F2[g]  BY <1>7, <2>1, <2>5
      <3> QED  BY <1>5, <2>1, <3>1
    <2> QED  BY <1>2, <2>2, <2>3, <2>4, <2>5
  <1> QED  BY <1>6, <1>7 DEF Indexed, Found, Clean

\* the one record at location l, below the front of its segment, is what a read returns
Readable(segs, F, d, k, l) ==
  \E q \in d[l.seg] :
    /\ At(q, k, l) /\ ReadDisk(d, k, l) = q.val
    /\ l.seg \in ToSet(segs) /\ q.off < F[l.seg]
    /\ \A x \in d[l.seg] : x.off = q.off => x = q

(* The value at the location of a key.                                      *)
LEMMA IndexedRead ==
  ASSUME NEW g, NEW segs, ToSet(segs) \subseteq Segment, NEW F, \A s \in ToSet(segs) : F[s] \in Nat,
         NEW d, Sane(d), NEW X, X \in [Key -> Loc \cup {Nowhere}], NEW ex,
         Indexed(g, segs, F, d, X, ex), NEW k \in Key, Hash[k] = g, k \notin ex, X[k] # Nowhere
  PROVE  Readable(segs, F, d, k, X[k])
  <1>1. X[k].seg \in ToSet(segs) /\ X[k].off + X[k].size <= F[X[k].seg]
    BY DEF Indexed, Found
  <1>2. PICK q \in d[X[k].seg] : At(q, k, X[k])  BY DEF Indexed, Found
  <1>3. X[k].off \in Nat /\ X[k].size \in Nat \ {0}  BY LocTypes
  <1>4. q.off < F[X[k].seg]  BY <1>1, <1>2, <1>3 DEF At
  <1>5. \A x \in d[X[k].seg] : x.off = q.off => x = q
    BY <1>1, <1>4 DEF Indexed, Clean
  <1> DEFINE hits == {x \in d[X[k].seg] : x.off = X[k].off /\ x.size = X[k].size /\ x.key = k}
  <1>6. q \in hits /\ \A x \in hits : x = q  BY <1>2, <1>5 DEF At
  <1>7. ReadDisk(d, k, X[k]) = (CHOOSE x \in hits : TRUE).val  BY <1>6 DEF ReadDisk
  <1>8. (CHOOSE x \in hits : TRUE) \in hits  BY <1>6
  <1>9. ReadDisk(d, k, X[k]) = q.val  BY <1>6, <1>7, <1>8
  <1> QED  BY <1>1, <1>2, <1>4, <1>5, <1>9 DEF Readable

----------------------------------------------------------------------------
(* Locations and the disk image                                             *)

LEMMA LocatedAppend ==
  ASSUME NEW index, NEW keys \in Seq(KeyLoc), NEW e \in KeyLoc, NEW k \in Key
  PROVE  Located(index, Append(keys, e))[k] =
           IF k = e.key THEN e.loc ELSE Located(index, keys)[k]
  <1> DEFINE more == Append(keys, e)
  <1>1. /\ more \in Seq(KeyLoc) /\ Len(keys) \in Nat /\ Len(more) = Len(keys) + 1
        /\ more[Len(keys) + 1] = e /\ \A i \in 1..Len(keys) : more[i] = keys[i]
    OBVIOUS
  <1>a. Len(keys) + 1 \in 1..Len(more)  BY <1>1
  <1> HIDE DEF more
  <1>2. \/ /\ \A j \in 1..Len(more) : more[j].key # k
           /\ Located(index, more)[k] = index[k]
        \/ \E i \in 1..Len(more) :
             /\ more[i].key = k /\ Located(index, more)[k] = more[i].loc
             /\ \A j \in (i + 1)..Len(more) : more[j].key # k
    BY <1>1, LocatedFacts
  <1>3. \/ /\ \A j \in 1..Len(keys) : keys[j].key # k
           /\ Located(index, keys)[k] = index[k]
        \/ \E i \in 1..Len(keys) :
             /\ keys[i].key = k /\ Located(index, keys)[k] = keys[i].loc
             /\ \A j \in (i + 1)..Len(keys) : keys[j].key # k
    BY LocatedFacts
  <1>4. CASE k = e.key
    <2>1. more[Len(keys) + 1].key = k  BY <1>1, <1>4
    <2>2. PICK i \in 1..Len(more) :
             /\ more[i].key = k /\ Located(index, more)[k] = more[i].loc
             /\ \A j \in (i + 1)..Len(more) : more[j].key # k
      BY <1>2, <1>a, <2>1
    <2>3. i = Len(keys) + 1
      <3> SUFFICES ASSUME i # Len(keys) + 1 PROVE FALSE  OBVIOUS
      <3>1. Len(keys) + 1 \in (i + 1)..Len(more)  BY <1>1
      <3> QED  BY <2>1, <2>2, <3>1
    <2>4. Located(index, more)[k] = e.loc  BY <1>1, <2>2, <2>3
    <2> QED  BY <1>4, <2>4 DEF more
  <1>5. CASE k # e.key
    <2>1. CASE \A j \in 1..Len(keys) : keys[j].key # k
      <3>1. \A j \in 1..Len(more) : more[j].key # k
        <4> SUFFICES ASSUME NEW j \in 1..Len(more) PROVE more[j].key # k  OBVIOUS
        <4>1. CASE j = Len(keys) + 1  BY <1>1, <1>5, <4>1
        <4>2. CASE j # Len(keys) + 1
          <5>1. j \in 1..Len(keys)  BY <1>1, <4>2
          <5> QED  BY <1>1, <2>1, <5>1
        <4> QED  BY <4>1, <4>2
      <3>2. Located(index, more)[k] = index[k]  BY <1>2, <3>1
      <3>3. Located(index, keys)[k] = index[k]  BY <1>3, <2>1
      <3> QED  BY <1>5, <3>2, <3>3 DEF more
    <2>2. CASE \E j \in 1..Len(keys) : keys[j].key = k
      <3>1. PICK i \in 1..Len(keys) :
             /\ keys[i].key = k /\ Located(index, keys)[k] = keys[i].loc
             /\ \A j \in (i + 1)..Len(keys) : keys[j].key # k
        BY <1>3, <2>2
      <3>2. i \in 1..Len(more) /\ more[i].key = k /\ more[i] = keys[i]  BY <1>1, <3>1
      <3>3. PICK l \in 1..Len(more) :
             /\ more[l].key = k /\ Located(index, more)[k] = more[l].loc
             /\ \A j \in (l + 1)..Len(more) : more[j].key # k
        BY <1>2, <3>2
      <3>4. l # Len(keys) + 1  BY <1>1, <1>5, <3>3
      <3>5. l \in 1..Len(keys) /\ keys[l].key = k  BY <1>1, <3>3, <3>4
      <3>6. l = i
        <4>1. ~ (l > i)
          <5> SUFFICES ASSUME l > i PROVE FALSE  OBVIOUS
          <5>1. l \in (i + 1)..Len(keys)  BY <1>1, <3>5
          <5> QED  BY <3>1, <3>5, <5>1
        <4>2. ~ (i > l)
          <5> SUFFICES ASSUME i > l PROVE FALSE  OBVIOUS
          <5>1. i \in (l + 1)..Len(more)  BY <1>1, <3>2
          <5> QED  BY <3>2, <3>3, <5>1
        <4> QED  BY <1>1, <3>5, <4>1, <4>2
      <3> QED  BY <1>5, <3>1, <3>2, <3>3, <3>6 DEF more
    <2> QED  BY <2>1, <2>2
  <1> QED  BY <1>4, <1>5

LEMMA LocatedMore ==
  ASSUME NEW index, index \in [Key -> Loc \cup {Nowhere}], NEW keys \in Seq(KeyLoc)
  PROVE  /\ Located(Located(index, keys), keys) = Located(index, keys)
         /\ keys = <<>> => Located(index, keys) = index
         /\ \A k \in Key : (\A i \in DOMAIN keys : keys[i].key # k) => Located(index, keys)[k] = index[k]
  <1> DEFINE L == Located(index, keys)
             M == Located(L, keys)
  <1>1. L = [k \in Key |-> L[k]] /\ M = [k \in Key |-> M[k]]  BY DEF Located
  <1>2. DOMAIN keys = 1..Len(keys)  OBVIOUS
  <1> HIDE DEF L, M
  <1>3. ASSUME NEW k \in Key PROVE M[k] = L[k]
    <2>1. \/ /\ \A j \in 1..Len(keys) : keys[j].key # k
             /\ M[k] = L[k]
          \/ \E i \in 1..Len(keys) :
               /\ keys[i].key = k /\ M[k] = keys[i].loc
               /\ \A j \in (i + 1)..Len(keys) : keys[j].key # k
      BY LocatedFacts DEF M
    <2>2. \/ /\ \A j \in 1..Len(keys) : keys[j].key # k
             /\ L[k] = index[k]
          \/ \E i \in 1..Len(keys) :
               /\ keys[i].key = k /\ L[k] = keys[i].loc
               /\ \A j \in (i + 1)..Len(keys) : keys[j].key # k
      BY LocatedFacts DEF L
    <2>3. ASSUME NEW i \in 1..Len(keys), NEW l \in 1..Len(keys), keys[i].key = k, keys[l].key = k,
                 \A j \in (i + 1)..Len(keys) : keys[j].key # k,
                 \A j \in (l + 1)..Len(keys) : keys[j].key # k
          PROVE  i = l
      <3>1. Len(keys) \in Nat  OBVIOUS
      <3>2. ~ (l > i)
        <4>1. l > i => l \in (i + 1)..Len(keys)  BY <3>1
        <4> QED  BY <2>3, <4>1
      <3>3. ~ (i > l)
        <4>1. i > l => i \in (l + 1)..Len(keys)  BY <3>1
        <4> QED  BY <2>3, <4>1
      <3> QED  BY <3>1, <3>2, <3>3
    <2> QED  BY <2>1, <2>2, <2>3
  <1>4. ASSUME NEW k \in Key, \A i \in DOMAIN keys : keys[i].key # k PROVE L[k] = index[k]
    BY <1>2, <1>4, LocatedFacts DEF L
  <1>5. keys = <<>> => L = index
    <2> SUFFICES ASSUME keys = <<>> PROVE L = index  OBVIOUS
    <2>1. DOMAIN keys = {}  OBVIOUS
    <2>2. \A k \in Key : L[k] = index[k]  BY <1>4, <2>1
    <2> QED  BY <1>1, <2>2
  <1>6. M = L  BY <1>1, <1>3
  <1> QED  BY <1>4, <1>5, <1>6 DEF L, M

LEMMA ImageFacts ==
  ASSUME Bounds
  PROVE  /\ Sane(disk) /\ Sane(Image)
         /\ unwritten = {} => Image = disk
         /\ \A s \in Segment : {u \in unwritten : u.loc.seg = s} = {} => Image[s] = disk[s]
         /\ Where \in [Key -> Loc \cup {Nowhere}] /\ lsm \in [Key -> Loc \cup {Nowhere}]
  <1>1. Sane(disk)  BY DEF Bounds, OnDisk, Sane
  <1>2. \A recs : Pasted(recs, {}) = recs  BY DEF Pasted
  <1>3. ASSUME NEW u \in unwritten PROVE New(u.loc, u.rec) \in Kept
    <2>1. u.rec \in Rec /\ u.loc \in Loc  BY DEF Bounds, Records
    <2>2. u.loc.off \in Nat  BY <2>1, LocTypes
    <2> QED  BY <2>1, <2>2 DEF New, Kept, Rec, Record
  <1>4. ASSUME NEW s \in Segment, NEW q \in Image[s] PROVE q \in Kept
    <2>1. q \in disk[s] \/ \E u \in unwritten : q = New(u.loc, u.rec)
      BY DEF Image, Pasted, New
    <2> QED  BY <1>1, <1>3, <2>1 DEF Sane
  <1>5. Image = [s \in Segment |-> Image[s]]  BY DEF Image
  <1>6. Sane(Image)  BY <1>4, <1>5 DEF Sane
  <1>7. ASSUME NEW s \in Segment, {u \in unwritten : u.loc.seg = s} = {} PROVE Image[s] = disk[s]
    BY <1>2, <1>7 DEF Image
  <1>8. ASSUME unwritten = {} PROVE Image = disk
    <2>1. \A s \in Segment : Image[s] = disk[s]  BY <1>7, <1>8
    <2> QED  BY <1>1, <1>5, <2>1 DEF Sane
  <1>9. lsm \in [Key -> Loc \cup {Nowhere}] /\ batch \in Seq(KeyLoc)  BY DEF Bounds, Locations
  <1>10. Where \in [Key -> Loc \cup {Nowhere}]  BY <1>9, LocatedType DEF Where
  <1> QED  BY <1>1, <1>6, <1>7, <1>8, <1>9, <1>10

(* A record placed behind the unwritten ones of its segment is stored in    *)
(* the image.                                                               *)
LEMMA ImagePlaced ==
  ASSUME Bounds, NEW r \in Rec, NEW loc \in Loc, loc.size = r.size,
         unwritten' = unwritten \cup {[rec |-> r, loc |-> loc]}, disk' = disk,
         \A u \in unwritten : u.loc.seg = loc.seg => u.loc.off + u.loc.size <= loc.off
  PROVE  Image' = Written(Image, loc, r)
  <1> DEFINE us(s) == {u \in unwritten : u.loc.seg = s}
             v == [rec |-> r, loc |-> loc]
  <1>1. loc.seg \in Segment /\ loc.off \in Nat /\ loc.size \in Nat \ {0}  BY LocTypes
  <1>2. v.rec = r /\ v.loc = loc  OBVIOUS
  <1>3. \A u \in unwritten : u.rec.size = u.loc.size /\ u.loc.off \in Nat /\ u.loc.size \in Nat \ {0}
    BY LocTypes DEF Bounds, Records
  <1> DEFINE I2 == [s \in Segment |-> Pasted(disk[s], {u \in unwritten \cup {v} : u.loc.seg = s})]
  <1>4. Image' = I2  BY DEF Image
  <1>5. ASSUME NEW s \in Segment, s # loc.seg PROVE I2[s] = Image[s]
    <2>1. {u \in unwritten \cup {v} : u.loc.seg = s} = us(s)  BY <1>2, <1>5
    <2> QED  BY <2>1 DEF Image
  <1>6. I2[loc.seg] = Store(Image[loc.seg], loc, r)
    <2>1. {u \in unwritten \cup {v} : u.loc.seg = loc.seg} = us(loc.seg) \cup {v}  BY <1>2
    <2>2. I2[loc.seg] = Pasted(disk[loc.seg], us(loc.seg) \cup {v})  BY <1>1, <2>1
    <2>3. Image[loc.seg] = Pasted(disk[loc.seg], us(loc.seg))  BY <1>1 DEF Image
    <2> DEFINE N(u) == [off |-> u.loc.off, size |-> u.rec.size, key |-> u.rec.key, val |-> u.rec.val]
               A == {q \in disk[loc.seg] : \A u \in us(loc.seg) : ~ Overlaps(q, u.loc)}
               B == {N(u) : u \in us(loc.seg)}
               C == {q \in disk[loc.seg] : \A u \in us(loc.seg) \cup {v} : ~ Overlaps(q, u.loc)}
    <2>4. Pasted(disk[loc.seg], us(loc.seg)) = A \cup B  BY DEF Pasted
    <2>5. Pasted(disk[loc.seg], us(loc.seg) \cup {v}) = C \cup B \cup {N(v)}  BY DEF Pasted
    <2>6. C = {q \in A : ~ Overlaps(q, loc)}  BY <1>2
    <2>7. \A q \in B : ~ Overlaps(q, loc)
      <3> SUFFICES ASSUME NEW u \in us(loc.seg) PROVE ~ Overlaps(N(u), loc)  OBVIOUS
      <3>1. u.loc.off + u.loc.size <= loc.off /\ u.rec.size = u.loc.size  BY <1>3
      <3>2. N(u).off = u.loc.off /\ N(u).size = u.rec.size  OBVIOUS
      <3> QED  BY <1>1, <1>3, <3>1, <3>2 DEF Overlaps
    <2>8. Store(A \cup B, loc, r) = {q \in A \cup B : ~ Overlaps(q, loc)} \cup {N(v)}
      BY <1>2 DEF Store
    <2> HIDE DEF A, B, C, N
    <2> QED  BY <2>2, <2>3, <2>4, <2>5, <2>6, <2>7, <2>8
  <1>7. Written(Image, loc, r) = [s \in Segment |->
                                    IF s = loc.seg THEN Store(Image[loc.seg], loc, r) ELSE Image[s]]
    BY DEF Written, Image
  <1>8. I2 = [s \in Segment |-> I2[s]]  OBVIOUS
  <1> HIDE DEF I2
  <1> QED  BY <1>4, <1>5, <1>6, <1>7, <1>8

(* Writing a segment leaves the image as it is.                             *)
LEMMA ImageWritten ==
  ASSUME Bounds, NEW s \in Segment, WriteSegment(s)
  PROVE  /\ Image' = Image /\ unwritten' \subseteq unwritten
         /\ \A t \in Segment \ {s} : disk'[t] = disk[t]
  <1> DEFINE mine == {u \in unwritten : u.loc.seg = s}
  <1>1. unwritten' = unwritten \ mine /\ disk' = [disk EXCEPT ![s] = Pasted(disk[s], mine)]
    BY DEF WriteSegment, Pasted
  <1>2. DOMAIN disk = Segment  BY DEF Bounds, OnDisk
  <1>3. disk'[s] = Pasted(disk[s], mine) /\ \A t \in Segment \ {s} : disk'[t] = disk[t]
    BY <1>1, <1>2
  <1>4. \A recs : Pasted(recs, {}) = recs  BY DEF Pasted
  <1>5. ASSUME NEW t \in Segment
        PROVE  Pasted(disk'[t], {u \in unwritten' : u.loc.seg = t}) =
               Pasted(disk[t], {u \in unwritten : u.loc.seg = t})
    <2>1. CASE t = s
      <3>1. {u \in unwritten' : u.loc.seg = t} = {}  BY <1>1, <2>1
      <3> QED  BY <1>3, <1>4, <2>1, <3>1
    <2>2. CASE t # s
      <3>1. {u \in unwritten' : u.loc.seg = t} = {u \in unwritten : u.loc.seg = t}  BY <1>1, <2>2
      <3> QED  BY <1>3, <2>2, <3>1
    <2> QED  BY <2>1, <2>2
  <1>6. Image' = Image  BY <1>5 DEF Image
  <1> QED  BY <1>1, <1>3, <1>6

(* The position of a key in the buffer is that of its last record.          *)
LEMMA InPoolFacts ==
  ASSUME pool \in Seq(Entry), NEW k
  PROVE  \/ /\ InPool(k) = 0 /\ \A j \in DOMAIN pool : pool[j].key # k
         \/ /\ InPool(k) \in DOMAIN pool /\ InPool(k) # 0 /\ pool[InPool(k)].key = k
            /\ \A j \in DOMAIN pool : j > InPool(k) => pool[j].key # k
  <1> DEFINE I == {i \in 1..Len(pool) : pool[i].key = k}
  <1>1. Len(pool) \in Nat /\ I \in SUBSET (0..Len(pool)) /\ DOMAIN pool = 1..Len(pool)  OBVIOUS
  <1>2. InPool(k) = IF I # {} THEN Max(I) ELSE 0  BY DEF InPool, SelectLastInSeq
  <1>3. CASE I = {}
    <2>1. \A j \in DOMAIN pool : pool[j].key # k  BY <1>1, <1>3
    <2> QED  BY <1>2, <1>3, <2>1
  <1>4. CASE I # {}
    <2>1. Max(I) \in I /\ \A y \in I : y <= Max(I)  BY <1>1, <1>4, MaxIn
    <2>2. InPool(k) = Max(I)  BY <1>2, <1>4
    <2>3. InPool(k) \in 1..Len(pool) /\ pool[InPool(k)].key = k  BY <2>1, <2>2
    <2>4. ASSUME NEW j \in DOMAIN pool, j > InPool(k), pool[j].key = k PROVE FALSE
      <3>1. j \in I  BY <1>1, <2>4
      <3>2. j <= InPool(k)  BY <2>1, <2>2, <3>1
      <3> QED  BY <1>1, <2>3, <2>4, <3>2
    <2> QED  BY <1>1, <2>3, <2>4
  <1> QED  BY <1>3, <1>4

(* A placement leaves the list of segments or appends one.                  *)
LEMMA PlaceList ==
  ASSUME NEW m, Own(m), MetaFits(m), NEW g \in Group, m.segs[g] # <<>>,
         NEW f \in Nat, f <= Room(m.segs[g]), NEW size \in 1..LogSize,
         CanPlace(m, g, f, size), NEW p, p = Place(m, g, f, size)
  PROVE  ListAfter(p.meta.segs[g], m.segs[g], p.loc.seg)
  <1> DEFINE n == p.meta
             t == p.loc.seg
  <1>0. Placement(m, g, f, size, p)  BY PlaceCases
  <1>1. /\ t = Last(n.segs[g])
        /\ InMain(m, g, f, size, p) \/ InLast(m, g, f, size, p) \/ InFresh(m, g, f, size, p)
    BY <1>0 DEF Placement
  <1>2. Own(n) /\ n.segs[g] # <<>>  BY PlaceOwn
  <1>3. Shape(n.segs[g], g) /\ Shape(m.segs[g], g)  BY <1>2 DEF Own
  <1>4. MetaFits(n)  BY PlaceFits
  <1>5. Distinct(n.segs[g]) /\ n.segs[g] \in Seq(Segment)  BY <1>3, <1>4 DEF MetaFits, Fitting, Shape
  <1>6. n.segs[g] = m.segs[g] \/ (m.segs[g] \in Seq(Segment) /\ n.segs[g] = Append(m.segs[g], t)
                                  /\ t \notin ToSet(m.segs[g]))
    <2>1. CASE n.segs = m.segs  BY <2>1
    <2>2. CASE InFresh(m, g, f, size, p)
      <3>1. t \in LogSeg \ m.used /\ n.segs = [m.segs EXCEPT ![g] = Append(m.segs[g], t)]
        BY <2>2 DEF InFresh
      <3>2. DOMAIN m.segs = Group /\ m.segs[g] \in Seq(Segment)  BY <1>3 DEF Own, Shape
      <3>3. n.segs[g] = Append(m.segs[g], t)  BY <3>1, <3>2
      <3>4. t \notin ToSet(m.segs[g])  BY <3>1, OwnFacts DEF LogsOf
      <3> QED  BY <3>2, <3>3, <3>4
    <2> QED  BY <1>1, <2>1, <2>2 DEF InMain, InLast
  <1> QED  BY <1>1, <1>2, <1>5, <1>6 DEF ListAfter

----------------------------------------------------------------------------
(* The steps that place a record                                            *)

LEMMA CFacts ==
  ASSUME IInv, Bounds, FInv, CInv, pc # "down"
  PROVE  /\ Counted /\ PoolNewest /\ Survive /\ Logged /\ MemoryIndexed /\ Values
         /\ Behindhand /\ DurableIndexed /\ DurableValues
  BY DEF CInv

\* what the flush of a record and the rewrite of one have in common
Stores(g, r, loc) ==
  /\ pc' = pc /\ pc \in {"flush", "rewrite"}
  /\ UNCHANGED <<victim, torn, lsm, groupMeta, segMeta, latest, flushed, modified>>
  /\ loc.size = r.size
  /\ Hash[r.key] \in Sound => Hash[r.key] = g
  /\ g \in Sound => Hash[r.key] = g
  /\ \A j \in Key : Where'[j] = IF j = r.key THEN loc ELSE Where[j]
  /\ \A s \in Segment \ {loc.seg} : Image'[s] = Image[s] /\ meta'.segFront[s] = meta.segFront[s]
  /\ meta'.segFront[loc.seg] = loc.off + loc.size
  /\ \A h \in Group \ {g} :
       /\ meta'.segs[h] = meta.segs[h] /\ loc.seg \notin ToSet(meta.segs[h])
       /\ ~ NotBegun(h) /\ ~ NotBegun(h)'
  /\ ~ NotBegun(g)'
  /\ \A j \in Key : Hash[j] \in Sound /\ Hash[j] # g => j \notin Moving /\ j \notin Moving'
  /\ g \in Sound =>
       /\ Image' = Written(Image, loc, r) /\ Moving' = Moving \ {r.key}
       /\ IF NotBegun(g) THEN loc.seg = g /\ loc.off = 0 /\ meta'.segs[g] = <<g>>
          ELSE /\ ListAfter(meta'.segs[g], meta.segs[g], loc.seg)
               /\ ToSet(meta'.segs[g]) = ToSet(meta.segs[g]) \cup {loc.seg}
               /\ loc.off = IF loc.seg \in ToSet(meta.segs[g]) THEN meta.segFront[loc.seg] ELSE 0

LEMMA WhereAppend ==
  ASSUME Bounds, NEW k \in Key, NEW loc \in Loc, lsm' = lsm,
         batch' = Append(batch, [key |-> k, loc |-> loc])
  PROVE  \A j \in Key : Where'[j] = IF j = k THEN loc ELSE Where[j]
  <1> DEFINE e == [key |-> k, loc |-> loc]
  <1>1. batch \in Seq(KeyLoc) /\ e \in KeyLoc  BY DEF Bounds, Locations, KeyLoc
  <1>2. e.key = k /\ e.loc = loc  OBVIOUS
  <1>3. Where' = Located(lsm, Append(batch, e))  BY DEF Where
  <1> HIDE DEF e
  <1>4. ASSUME NEW j \in Key
        PROVE  Located(lsm, Append(batch, e))[j] = IF j = e.key THEN e.loc ELSE Located(lsm, batch)[j]
    BY <1>1, LocatedAppend
  <1> QED  BY <1>2, <1>3, <1>4 DEF Where

LEMMA FlushRecordStores ==
  ASSUME IInv, Bounds, FInv, CInv, pc # "down", FlushRecord,
         NEW r, r = pool[NextUpdate(cur)], NEW p, p = Place(meta, cur, curFront, r.size)
  PROVE  cur \in Group /\ r \in Rec /\ p.loc \in Loc /\ Stores(cur, r, p.loc)
  <1>0. /\ MemoryAligned /\ Course /\ Own(meta) /\ MetaFits(meta) /\ Survive
    BY FFacts, CFacts
  <1>1. /\ pc = "flush" /\ pc' = pc /\ cur # None /\ meta' = p.meta
        /\ batch' = Append(batch, [key |-> r.key, loc |-> p.loc])
        /\ touched' = touched \cup {p.loc.seg}
        /\ disk' = Written(disk, p.loc, r)
        /\ UNCHANGED <<modified, victim, torn, lsm, segMeta, groupMeta, latest, flushed, survivors,
                       unwritten, cur>>
    BY DEF FlushRecord, history, Written
  <1>2. /\ cur \in Group /\ meta.segs[cur] # <<>> /\ victim = None
        /\ curFront \in Nat /\ curFront <= Room(meta.segs[cur])
        /\ r.size \in 1..LogSize /\ CanPlace(meta, cur, curFront, r.size)
        /\ r \in Rec /\ p.loc \in Loc /\ p.loc.size = r.size /\ Hash[r.key] = cur
    BY FlushRecordPlace
  <1>3. r.key \in Key  BY <1>2, RecTypes
  <1>4. \A j \in Key : Where'[j] = IF j = r.key THEN p.loc ELSE Where[j]
    BY <1>1, <1>2, <1>3, WhereAppend
  <1>5. /\ p.loc.seg \in Segment
        /\ \A h \in Group \ {cur} :
             p.meta.segs[h] = meta.segs[h] /\ p.loc.seg \notin ToSet(meta.segs[h])
        /\ \A s \in Segment \ {p.loc.seg} : p.meta.segFront[s] = meta.segFront[s]
        /\ p.loc.seg \notin ToSet(meta.segs[cur]) => p.loc.off = 0
    BY <1>0, <1>2, PlaceEffects
  <1>6. ToSet(p.meta.segs[cur]) = ToSet(meta.segs[cur]) \cup {p.loc.seg}
    <2>1. Grown(p.meta.segs[cur], meta.segs[cur], p.loc.seg)  BY <1>0, <1>2, PlaceEffects
    <2> QED  BY <2>1 DEF Grown
  <1>7. p.meta.segFront[p.loc.seg] = p.loc.off + p.loc.size
    <2>1. p.meta.segFront[p.loc.seg] = p.loc.off + r.size  BY <1>0, <1>2, PlaceEffects
    <2> QED  BY <1>2, <2>1
  <1>8. \A h \in Group : ~ NotBegun(h) /\ ~ NotBegun(h)'
    BY <1>1, <1>2, SegmentFacts DEF NotBegun
  <1>9. Moving = {} /\ Moving' = {}  BY <1>0, <1>1 DEF Survive, Moving
  <1>10. unwritten = {} /\ unwritten' = {}  BY <1>0, <1>1 DEF Course
  <1>11. Image = disk  BY <1>10, ImageFacts
  <1>12. Image' = disk'
    <2>1. Sane(disk)  BY ImageFacts
    <2>2. DOMAIN disk' = Segment /\ disk' = [s \in Segment |-> disk'[s]]
      BY <1>1, <2>1 DEF Written, Sane
    <2>3. \A recs : Pasted(recs, {}) = recs  BY DEF Pasted
    <2>4. Image' = [s \in Segment |-> Pasted(disk'[s], {})]  BY <1>10 DEF Image
    <2> QED  BY <2>2, <2>3, <2>4
  <1>13. Image' = Written(Image, p.loc, r)  BY <1>1, <1>11, <1>12
  <1>14. \A s \in Segment \ {p.loc.seg} : Image'[s] = Image[s]
    <2>1. DOMAIN Image = Segment  BY DEF Image
    <2> QED  BY <1>13, <2>1 DEF Written
  <1>15. cur \in Sound =>
           p.loc.off = IF p.loc.seg \in ToSet(meta.segs[cur]) THEN meta.segFront[p.loc.seg] ELSE 0
    <2> SUFFICES ASSUME cur \in Sound
                 PROVE  p.loc.off = IF p.loc.seg \in ToSet(meta.segs[cur]) THEN meta.segFront[p.loc.seg] ELSE 0
      OBVIOUS
    <2>1. FrontNow(cur) = curFront  BY <1>1, <1>2 DEF FrontNow, Flushing
    <2>2. Aligned(curFront, meta.segs[cur], meta.segFront, cur)
      BY <1>0, <1>2, <1>8, <2>1 DEF MemoryAligned
    <2>3. p.loc.seg \in ToSet(meta.segs[cur]) => p.loc.off = meta.segFront[p.loc.seg]
      BY <1>0, <1>2, <2>2, PlaceAligned
    <2> QED  BY <1>5, <2>3
  <1>16. ListAfter(p.meta.segs[cur], meta.segs[cur], p.loc.seg)  BY <1>0, <1>2, PlaceList
  <1>17. ASSUME cur \in Sound
         PROVE  /\ Image' = Written(Image, p.loc, r) /\ Moving' = Moving \ {r.key}
                /\ IF NotBegun(cur)
                   THEN p.loc.seg = cur /\ p.loc.off = 0 /\ meta'.segs[cur] = <<cur>>
                   ELSE /\ ListAfter(meta'.segs[cur], meta.segs[cur], p.loc.seg)
                        /\ ToSet(meta'.segs[cur]) = ToSet(meta.segs[cur]) \cup {p.loc.seg}
                        /\ p.loc.off = IF p.loc.seg \in ToSet(meta.segs[cur])
                                       THEN meta.segFront[p.loc.seg] ELSE 0
    <2>1. Moving' = Moving \ {r.key}  BY <1>9
    <2>2. ~ NotBegun(cur)  BY <1>2, <1>8
    <2> QED  BY <1>1, <1>6, <1>13, <1>15, <1>16, <1>17, <2>1, <2>2
  <1>18. \A h \in Group \ {cur} :
            /\ meta'.segs[h] = meta.segs[h] /\ p.loc.seg \notin ToSet(meta.segs[h])
            /\ ~ NotBegun(h) /\ ~ NotBegun(h)'
    BY <1>1, <1>5, <1>8
  <1>19. /\ \A s \in Segment \ {p.loc.seg} : Image'[s] = Image[s] /\ meta'.segFront[s] = meta.segFront[s]
         /\ meta'.segFront[p.loc.seg] = p.loc.off + p.loc.size
    BY <1>1, <1>5, <1>7, <1>14
  <1>20. /\ pc' = pc /\ pc \in {"flush", "rewrite"} /\ ~ NotBegun(cur)'
         /\ \A j \in Key : j \notin Moving /\ j \notin Moving'
    BY <1>1, <1>2, <1>8, <1>9, SegmentFacts DEF NotBegun
  <1>21. UNCHANGED <<victim, torn, lsm, groupMeta, segMeta, latest, flushed, modified>>  BY <1>1
  <1>22. Stores(cur, r, p.loc)
    BY <1>2, <1>4, <1>17, <1>18, <1>19, <1>20, <1>21 DEF Stores
  <1> QED  BY <1>2, <1>22

LEMMA RewriteRecordStores ==
  ASSUME IInv, Bounds, FInv, CInv, pc # "down", NEW r \in survivors, RewriteRecord(r),
         NEW p, p = Place(meta, victim, curFront, r.size)
  PROVE  victim \in Group /\ r \in Rec /\ p.loc \in Loc /\ Stores(victim, r, p.loc)
  <1>0. /\ MemoryAligned /\ Ends /\ Untouched /\ Own(meta) /\ MetaFits(meta) /\ Phases
        /\ Survive /\ Logged
    BY FFacts, CFacts
  <1>1. /\ pc = "rewrite" /\ pc' = pc /\ meta' = p.meta
        /\ batch' = Append(batch, [key |-> r.key, loc |-> p.loc])
        /\ touched' = touched \cup {p.loc.seg}
        /\ unwritten' = unwritten \cup {[rec |-> r, loc |-> p.loc]}
        /\ survivors' = survivors \ {r}
        /\ UNCHANGED <<modified, victim, torn, lsm, segMeta, groupMeta, latest, flushed, disk>>
    BY DEF RewriteRecord, durable, history
  <1>2. /\ victim \in Group /\ meta.segs[victim] # <<>>
        /\ curFront \in Nat /\ curFront <= Room(meta.segs[victim])
        /\ r.size \in 1..LogSize /\ CanPlace(meta, victim, curFront, r.size)
        /\ r \in Rec /\ p.loc \in Loc /\ p.loc.size = r.size
    BY RewritePlace
  <1>3. /\ r.key \in Key /\ r.size <= MainSize
        /\ Hash[r.key] \in Sound => Hash[r.key] = victim
        /\ victim \in Sound => Hash[r.key] = victim
    <2>1. r.size <= MainSize  BY <1>2, SizeFacts DEF Bounds, RecordsFit
    <2> QED  BY <1>0, <1>2, <2>1, RecTypes DEF Survive
  <1>4. \A j \in Key : Where'[j] = IF j = r.key THEN p.loc ELSE Where[j]
    BY <1>1, <1>2, <1>3, WhereAppend
  <1>5. /\ p.loc.seg \in Segment
        /\ \A h \in Group \ {victim} :
             p.meta.segs[h] = meta.segs[h] /\ p.loc.seg \notin ToSet(meta.segs[h])
        /\ \A s \in Segment \ {p.loc.seg} : p.meta.segFront[s] = meta.segFront[s]
        /\ p.loc.seg \notin ToSet(meta.segs[victim]) => p.loc.off = 0
    BY <1>0, <1>2, PlaceEffects
  <1>6. ToSet(p.meta.segs[victim]) = ToSet(meta.segs[victim]) \cup {p.loc.seg}
    <2>1. Grown(p.meta.segs[victim], meta.segs[victim], p.loc.seg)  BY <1>0, <1>2, PlaceEffects
    <2> QED  BY <2>1 DEF Grown
  <1>7. p.meta.segFront[p.loc.seg] = p.loc.off + p.loc.size
    <2>1. p.meta.segFront[p.loc.seg] = p.loc.off + r.size  BY <1>0, <1>2, PlaceEffects
    <2> QED  BY <1>2, <2>1
  <1>8. (\A h \in Group \ {victim} : ~ NotBegun(h) /\ ~ NotBegun(h)') /\ ~ NotBegun(victim)'
    BY <1>1 DEF NotBegun
  <1>9. \A j \in Key : Hash[j] \in Sound /\ Hash[j] # victim => j \notin Moving /\ j \notin Moving'
    BY <1>0, <1>1 DEF Survive, Moving
  <1>10. \A s \in Segment \ {p.loc.seg} : Image'[s] = Image[s]
    <2> SUFFICES ASSUME NEW s \in Segment \ {p.loc.seg} PROVE Image'[s] = Image[s]  OBVIOUS
    <2>1. {u \in unwritten' : u.loc.seg = s} = {u \in unwritten : u.loc.seg = s}  BY <1>1
    <2> QED  BY <1>1, <2>1 DEF Image
  <1>11. ASSUME victim \in Sound
         PROVE  /\ IF NotBegun(victim)
                   THEN p.loc.seg = victim /\ p.loc.off = 0 /\ p.meta.segs[victim] = <<victim>>
                   ELSE /\ ListAfter(p.meta.segs[victim], meta.segs[victim], p.loc.seg)
                        /\ ToSet(p.meta.segs[victim]) = ToSet(meta.segs[victim]) \cup {p.loc.seg}
                        /\ p.loc.off = IF p.loc.seg \in ToSet(meta.segs[victim])
                                       THEN meta.segFront[p.loc.seg] ELSE 0
                /\ Image' = Written(Image, p.loc, r) /\ Moving' = Moving \ {r.key}
    <2>1. FrontNow(victim) = curFront  BY <1>1 DEF FrontNow
    <2>2. ASSUME NotBegun(victim)
          PROVE  /\ p.loc.seg = victim /\ p.loc.off = 0 /\ p.meta.segs[victim] = <<victim>>
                 /\ unwritten = {}
      <3>1. curFront = 0 /\ meta.segs[victim] = <<victim>> /\ unwritten = {}
        BY <2>1, <2>2 DEF NotBegun
      <3> QED  BY <1>0, <1>2, <1>3, <3>1, FirstPlace
    <2>3. ASSUME ~ NotBegun(victim)
          PROVE  /\ ListAfter(p.meta.segs[victim], meta.segs[victim], p.loc.seg)
                 /\ p.loc.off = IF p.loc.seg \in ToSet(meta.segs[victim])
                                THEN meta.segFront[p.loc.seg] ELSE 0
      <3>1. Aligned(curFront, meta.segs[victim], meta.segFront, victim)
        BY <1>0, <1>11, <2>1, <2>3 DEF MemoryAligned
      <3>2. p.loc.seg \in ToSet(meta.segs[victim]) => p.loc.off = meta.segFront[p.loc.seg]
        BY <1>0, <1>2, <3>1, PlaceAligned
      <3>3. ListAfter(p.meta.segs[victim], meta.segs[victim], p.loc.seg)
        BY <1>0, <1>2, PlaceList
      <3> QED  BY <1>5, <3>2, <3>3
    <2>4. ASSUME NEW u \in unwritten, u.loc.seg = p.loc.seg
          PROVE  u.loc.off + u.loc.size <= p.loc.off
      <3>1. ~ NotBegun(victim)  BY <2>2, <2>4
      <3>2. u.loc.seg \in ToSet(meta.segs[victim])  BY <1>0, <2>4 DEF Logged
      <3>3. PICK i \in DOMAIN batch : batch[i].loc = u.loc  BY <1>0 DEF Logged
      <3>4. batch[i].loc.off + batch[i].loc.size <= meta.segFront[batch[i].loc.seg]
        BY <1>0, <1>11, <3>2, <3>3 DEF Ends
      <3> QED  BY <2>3, <2>4, <3>1, <3>2, <3>3, <3>4
    <2>5. Image' = Written(Image, p.loc, r)  BY <1>1, <1>2, <2>4, ImagePlaced
    <2>6. Moving' = Moving \ {r.key}
      <3>1. \A x, y \in survivors : x.key = y.key => x = y  BY <1>0, <1>11 DEF Survive
      <3>2. Moving' = {x.key : x \in survivors \ {r}}  BY <1>1 DEF Moving
      <3> QED  BY <3>1, <3>2 DEF Moving
    <2> QED  BY <1>6, <2>2, <2>3, <2>5, <2>6
  <1>12. Stores(victim, r, p.loc)
    BY <1>1, <1>2, <1>3, <1>4, <1>5, <1>7, <1>8, <1>9, <1>10, <1>11 DEF Stores
  <1> QED  BY <1>2, <1>12

LEMMA ListSegments ==
  ASSUME IInv, Bounds, FInv, pc # "down", NEW g \in Group
  PROVE  /\ ToSet(meta.segs[g]) \subseteq Segment /\ ToSet(groupMeta[g].segs) \subseteq Segment
         /\ \A s \in Segment : meta.segFront[s] \in Nat /\ segMeta[s] \in Nat
         /\ \A h \in Group \ {g} : ToSet(meta.segs[g]) \cap ToSet(meta.segs[h]) = {}
  <1>1. /\ Shape(meta.segs[g], g) /\ Shape(groupMeta[g].segs, g) /\ MetaFits(meta) /\ DurableFits
        /\ Own(meta)
    BY FFacts
  <1>2. \A h \in Group \ {g} : ToSet(meta.segs[g]) \cap ToSet(meta.segs[h]) = {}
    BY <1>1, OwnDisjoint
  <1> QED  BY <1>1, <1>2, ListMembers DEF MetaFits, DurableFits

LEMMA StoresIndexed ==
  ASSUME IInv, Bounds, FInv, CInv, pc # "down", NEW g \in Group, NEW r \in Rec, NEW loc \in Loc,
         Stores(g, r, loc)
  PROVE  MemoryIndexed'
  <1>0. MemoryIndexed /\ Sane(Image) /\ Where \in [Key -> Loc \cup {Nowhere}]
    BY CFacts, ImageFacts
  <1>1. Sound' = Sound  BY DEF Stores, Sound
  <1>2. r.key \in Key /\ loc.seg \in Segment  BY RecTypes, LocTypes
  <1>3. /\ Hash[r.key] \in Sound => Hash[r.key] = g
        /\ g \in Sound => Hash[r.key] = g
        /\ loc.size = r.size /\ Where'[r.key] = loc
        /\ \A j \in Key \ {r.key} : Where'[j] = Where[j]
    BY <1>2 DEF Stores
  <1>4. ASSUME NEW h \in Sound, h # g
        PROVE  Indexed(h, meta'.segs[h], meta'.segFront, Image', Where', Moving')
    <2>1. h \in Group  BY DEF Sound
    <2>2. ~ NotBegun(h) /\ meta'.segs[h] = meta.segs[h] /\ loc.seg \notin ToSet(meta.segs[h])
      BY <1>4, <2>1 DEF Stores
    <2>3. Indexed(h, meta.segs[h], meta.segFront, Image, Where, Moving)
      BY <1>0, <2>2 DEF MemoryIndexed
    <2>4. ToSet(meta.segs[h]) \subseteq Segment  BY <2>1, ListSegments
    <2>5. \A s \in ToSet(meta.segs[h]) : meta'.segFront[s] = meta.segFront[s] /\ Image'[s] = Image[s]
      BY <2>2, <2>4 DEF Stores
    <2>6. \A k \in Key : Hash[k] = h => Where'[k] = Where[k] /\ (k \in Moving' <=> k \in Moving)
      BY <1>3, <1>4 DEF Stores
    <2>7. Indexed(h, meta.segs[h], meta'.segFront, Image', Where', Moving')
      BY <1>0, <2>3, <2>4, <2>5, <2>6, IndexedSame
    <2> QED  BY <2>2, <2>7
  <1>5. ASSUME g \in Sound PROVE Indexed(g, meta'.segs[g], meta'.segFront, Image', Where', Moving')
    <2>1. /\ Image' = Written(Image, loc, r) /\ Moving' = Moving \ {r.key}
          /\ meta'.segFront[loc.seg] = loc.off + loc.size
      BY <1>5 DEF Stores
    <2>2. CASE NotBegun(g)
      <3>1. loc.seg = g /\ loc.off = 0 /\ meta'.segs[g] = <<g>>  BY <1>5, <2>2 DEF Stores
      <3>2. \A j \in Key : Hash[j] = g => j \in Moving \/ Where[j] = Nowhere
        BY <1>0, <1>5, <2>2 DEF MemoryIndexed
      <3>3. meta'.segFront[g] = loc.off + loc.size  BY <2>1, <3>1
      <3>4. Indexed(g, <<g>>, meta'.segFront, Image', Where', Moving')
        <4> DEFINE F2 == meta'.segFront
                   d2 == Image'
                   X2 == Where'
                   ex2 == Moving'
        <4>1. d2 = Written(Image, loc, r) /\ r.key \notin ex2  BY <2>1
        <4>2. F2[g] = loc.off + loc.size  BY <3>3
        <4>3. X2[r.key] = loc /\ \A j \in Key \ {r.key} : Hash[j] = g => j \in ex2 \/ X2[j] = Nowhere
          BY <1>3, <2>1, <3>2
        <4>4. Hash[r.key] = g /\ loc.size = r.size /\ loc.seg = g /\ loc.off = 0  BY <1>3, <1>5, <3>1
        <4> HIDE DEF F2, d2, X2, ex2
        <4>5. Indexed(g, <<g>>, F2, d2, X2, ex2)
          BY <1>0, <4>1, <4>2, <4>3, <4>4, IndexedFirst
        <4> QED  BY <4>5 DEF F2, d2, X2, ex2
      <3> QED  BY <3>1, <3>4
    <2>3. CASE ~ NotBegun(g)
      <3>1. /\ ListAfter(meta'.segs[g], meta.segs[g], loc.seg)
            /\ ToSet(meta'.segs[g]) = ToSet(meta.segs[g]) \cup {loc.seg}
            /\ loc.off = IF loc.seg \in ToSet(meta.segs[g]) THEN meta.segFront[loc.seg] ELSE 0
        BY <1>5, <2>3 DEF Stores
      <3>2. Indexed(g, meta.segs[g], meta.segFront, Image, Where, Moving)
        BY <1>0, <1>5, <2>3 DEF MemoryIndexed
      <3>3. ToSet(meta.segs[g]) \subseteq Segment /\ \A s \in ToSet(meta.segs[g]) : meta.segFront[s] \in Nat
        BY ListSegments
      <3>4. \A s \in ToSet(meta.segs[g]) \ {loc.seg} : meta'.segFront[s] = meta.segFront[s]
        BY <3>3 DEF Stores
      <3>5. /\ loc.seg \in ToSet(meta.segs[g]) => loc.off = meta.segFront[loc.seg]
            /\ loc.seg \notin ToSet(meta.segs[g]) => loc.off = 0
        BY <3>1
      <3>6. Hash[r.key] = g /\ loc.size = r.size  BY <1>3, <1>5
      <3> QED  BY <1>0, <1>3, <2>1, <3>1, <3>2, <3>3, <3>4, <3>5, <3>6, IndexedPlaced
    <2> QED  BY <2>2, <2>3
  <1>6. \A h \in Sound : ~ NotBegun(h)'
    <2> SUFFICES ASSUME NEW h \in Sound PROVE ~ NotBegun(h)'  OBVIOUS
    <2>1. h \in Group  BY DEF Sound
    <2>2. CASE h = g  BY <2>2 DEF Stores
    <2>3. CASE h # g  BY <2>1, <2>3 DEF Stores
    <2> QED  BY <2>2, <2>3
  <1>7. \A h \in Sound : Indexed(h, meta'.segs[h], meta'.segFront, Image', Where', Moving')
    BY <1>4, <1>5
  <1> QED  BY <1>1, <1>6, <1>7 DEF MemoryIndexed

LEMMA StoresRead ==
  ASSUME IInv, Bounds, FInv, CInv, pc # "down", NEW g \in Group, NEW r \in Rec, NEW loc \in Loc,
         Stores(g, r, loc), NEW k \in Key, Hash[k] \in Sound, k \notin Moving'
  PROVE  IF k = r.key THEN ReadDisk(Image', k, Where'[k]) = r.val
         ELSE k \notin Moving /\ ReadDisk(Image', k, Where'[k]) = ReadDisk(Image, k, Where[k])
  <1>0. MemoryIndexed /\ Sane(Image) /\ Where \in [Key -> Loc \cup {Nowhere}]
    BY CFacts, ImageFacts
  <1>1. /\ Where'[k] = (IF k = r.key THEN loc ELSE Where[k]) /\ loc.size = r.size
        /\ k = r.key => Hash[r.key] = g
    BY DEF Stores
  <1>2. g \in Sound => Image' = Written(Image, loc, r) /\ Moving' = Moving \ {r.key}
    BY DEF Stores
  <1>3. CASE k = r.key
    <2>1. Image' = Written(Image, loc, r)  BY <1>1, <1>2, <1>3
    <2>2. ReadDisk(Image', r.key, loc) = r.val  BY <1>0, <1>1, <2>1, ReadStored
    <2> QED  BY <1>1, <1>3, <2>2
  <1>4. CASE k # r.key
    <2> DEFINE h == Hash[k]
               l == Where[k]
    <2>1. Where'[k] = l /\ h \in Group /\ l \in Loc \cup {Nowhere}  BY <1>0, <1>1, <1>4 DEF Sound
    <2>2. k \notin Moving
      <3>1. CASE h = g  BY <1>2, <1>4, <3>1
      <3>2. CASE h # g  BY <3>2 DEF Stores
      <3> QED  BY <3>1, <3>2
    <2>3. CASE l = Nowhere
      <3>1. ReadDisk(Image', k, l) = 0 /\ ReadDisk(Image, k, l) = 0  BY <2>3 DEF ReadDisk
      <3> QED  BY <1>4, <2>1, <2>2, <3>1
    <2>4. CASE l # Nowhere
      <3>1. ~ NotBegun(h)  BY <1>0, <2>2, <2>4 DEF MemoryIndexed
      <3>2. Indexed(h, meta.segs[h], meta.segFront, Image, Where, Moving)
        BY <1>0, <3>1 DEF MemoryIndexed
      <3>3. l.seg \in ToSet(meta.segs[h]) /\ l.off + l.size <= meta.segFront[l.seg]
        BY <2>2, <2>4, <3>2 DEF Indexed, Found
      <3>4. CASE h # g
        <4>1. l.seg # loc.seg  BY <2>1, <3>3, <3>4 DEF Stores
        <4>2. l.seg \in Segment  BY <2>1, <3>3, ListSegments
        <4>3. Image'[l.seg] = Image[l.seg]  BY <4>1, <4>2 DEF Stores
        <4>4. ReadDisk(Image', k, l) = ReadDisk(Image, k, l)  BY <4>3 DEF ReadDisk
        <4> QED  BY <1>4, <2>1, <2>2, <4>4
      <3>5. CASE h = g
        <4>1. loc.off = IF loc.seg \in ToSet(meta.segs[g]) THEN meta.segFront[loc.seg] ELSE 0
          BY <3>1, <3>5 DEF Stores
        <4>2. l.seg # loc.seg \/ l.off + l.size <= loc.off  BY <3>3, <3>5, <4>1
        <4>3. Image' = Written(Image, loc, r)  BY <1>2, <3>5
        <4> HIDE DEF l
        <4>4. ReadDisk(Image', k, l) = ReadDisk(Image, k, l)
          BY <1>0, <1>1, <2>1, <4>2, <4>3, ReadStored
        <4> QED  BY <1>4, <2>1, <2>2, <4>4 DEF l
      <3> QED  BY <3>4, <3>5
    <2> QED  BY <2>3, <2>4
  <1> QED  BY <1>3, <1>4

LEMMA StoresValues ==
  ASSUME IInv, Bounds, FInv, CInv, pc # "down", NEW g \in Group, NEW r \in Rec, NEW loc \in Loc,
         Stores(g, r, loc), r.val >= flushed[r.key] \/ g \notin Sound,
         ~ Unflushed(r.key)' => r.val = latest[r.key] \/ g \notin Sound,
         \A k \in Key \ {r.key} : Unflushed(k)' <=> Unflushed(k)
  PROVE  Values'
  <1>1. /\ Sound' = Sound /\ latest' = latest /\ flushed' = flushed
        /\ Hash[r.key] \in Sound => Hash[r.key] = g
    BY DEF Stores, Sound
  <1>2. Values  BY CFacts
  <1>3. ASSUME NEW k \in Key, Hash[k] \in Sound
        PROVE  /\ flushed[k] <= latest[k]
               /\ k \notin Moving' =>
                    /\ ReadDisk(Image', k, Where'[k]) >= flushed[k]
                    /\ ~ Unflushed(k)' => ReadDisk(Image', k, Where'[k]) = latest[k]
    <2>1. flushed[k] <= latest[k]  BY <1>2, <1>3 DEF Values
    <2>2. ASSUME k \notin Moving'
          PROVE  /\ ReadDisk(Image', k, Where'[k]) >= flushed[k]
                 /\ ~ Unflushed(k)' => ReadDisk(Image', k, Where'[k]) = latest[k]
      <3>1. IF k = r.key THEN ReadDisk(Image', k, Where'[k]) = r.val
            ELSE k \notin Moving /\ ReadDisk(Image', k, Where'[k]) = ReadDisk(Image, k, Where[k])
        BY <1>3, <2>2, StoresRead
      <3>2. CASE k = r.key  BY <1>1, <1>3, <3>1, <3>2
      <3>3. CASE k # r.key
        <4>1. k \notin Moving /\ ReadDisk(Image', k, Where'[k]) = ReadDisk(Image, k, Where[k])
          BY <3>1, <3>3
        <4>2. /\ ReadDisk(Image, k, Where[k]) >= flushed[k]
              /\ ~ Unflushed(k) => ReadDisk(Image, k, Where[k]) = latest[k]
          BY <1>2, <1>3, <4>1 DEF Values
        <4>3. Unflushed(k)' <=> Unflushed(k)  BY <3>3
        <4> QED  BY <4>1, <4>2, <4>3
      <3> QED  BY <3>2, <3>3
    <2> QED  BY <2>1, <2>2
  <1> QED  BY <1>1, <1>3 DEF Values


----------------------------------------------------------------------------
(* What garbage collection scans                                            *)

OfSegment(i, q) == [part |-> i, off |-> q.off, rec |-> Stripped(q)]
OfBuffer(g, j)  == [part |-> Len(meta.segs[g]) + 1, off |-> j, rec |-> pool[j]]

LEMMA ScanCases ==
  ASSUME NEW g \in Group, NEW a
  PROVE  a \in Scan(g) <=>
           \/ \E i \in DOMAIN meta.segs[g] : \E q \in InSegment(meta.segs[g][i]) : a = OfSegment(i, q)
           \/ \E j \in PendingOf(g) : a = OfBuffer(g, j)
  <1> DEFINE part(i) == {OfSegment(i, q) : q \in InSegment(meta.segs[g][i])}
             tail == {OfBuffer(g, j) : j \in PendingOf(g)}
             parts == {part(i) : i \in DOMAIN meta.segs[g]}
  <1>1. Scan(g) = (UNION parts) \cup tail  BY DEF Scan, OfSegment, OfBuffer
  <1>2. a \in tail <=> \E j \in PendingOf(g) : a = OfBuffer(g, j)  OBVIOUS
  <1>3. a \in UNION parts <=> \E X \in parts : a \in X
    <2> HIDE DEF parts
    <2> QED  OBVIOUS
  <1>4. (\E X \in parts : a \in X) <=> \E i \in DOMAIN meta.segs[g] : a \in part(i)
    <2> HIDE DEF part
    <2> QED  OBVIOUS
  <1>5. \A i : a \in part(i) <=> \E q \in InSegment(meta.segs[g][i]) : a = OfSegment(i, q)  OBVIOUS
  <1> HIDE DEF part, tail, parts
  <1> QED  BY <1>1, <1>2, <1>3, <1>4, <1>5

\* the record of key k that is scanned last has its latest value
Top(scan, k, t) ==
  /\ t \in scan /\ t.rec.key = k /\ t.rec.val = latest[k]
  /\ \A b \in scan : b.rec.key = k => b = t \/ ScannedAfter(t, b)

\* at the choice of a group nothing is on its way to the disk or the LSM-tree
LEMMA Quiescent ==
  ASSUME IInv, Bounds, FInv, CInv, pc \in {"idle", "gc"}
  PROVE  /\ batch = <<>> /\ unwritten = {} /\ survivors = {} /\ Moving = {} /\ victim = None
         /\ Image = disk /\ Where = lsm /\ modified = {} /\ touched = {}
         /\ \A g \in Sound : Indexed(g, meta.segs[g], meta.segFront, disk, lsm, {})
  <1>0. Course /\ Phases /\ Survive /\ MemoryIndexed  BY FFacts, CFacts
  <1>1. batch = <<>> /\ unwritten = {} /\ survivors = {} /\ modified = {} /\ touched = {}
    BY <1>0 DEF Course, Survive
  <1>2. victim = None  BY <1>0 DEF Phases
  <1>3. Moving = {}  BY <1>1 DEF Moving
  <1>4. Image = disk  BY <1>1, ImageFacts
  <1>5. lsm \in [Key -> Loc \cup {Nowhere}] /\ batch \in Seq(KeyLoc)  BY DEF Bounds, Locations
  <1>6. Where = lsm  BY <1>1, <1>5, LocatedMore DEF Where
  <1>7. \A g : ~ NotBegun(g)  BY DEF NotBegun
  <1>8. \A g \in Sound : Indexed(g, meta.segs[g], meta.segFront, disk, lsm, {})
    BY <1>0, <1>3, <1>4, <1>6, <1>7 DEF MemoryIndexed
  <1> QED  BY <1>1, <1>2, <1>3, <1>4, <1>6, <1>8

LEMMA ScanTypes ==
  ASSUME IInv, Bounds, FInv, CInv, pc = "gc", NEW g \in Sound, NEW a \in Scan(g)
  PROVE  /\ a.part \in Nat /\ a.off \in Nat /\ a.rec.key \in Key /\ Hash[a.rec.key] = g
         /\ a.rec \in Rec
  <1>0. /\ Indexed(g, meta.segs[g], meta.segFront, disk, lsm, {}) /\ Sane(disk) /\ Buffer
        /\ g \in Group /\ meta.segs[g] \in Seq(Segment) /\ pool \in Seq(Rec)
    BY Quiescent, ImageFacts, FFacts DEF Sound, Shape, Bounds, Records
  <1>1. CASE \E i \in DOMAIN meta.segs[g] : \E q \in InSegment(meta.segs[g][i]) : a = OfSegment(i, q)
    <2>0. PICK i \in DOMAIN meta.segs[g] : \E q \in InSegment(meta.segs[g][i]) : a = OfSegment(i, q)
      BY <1>1
    <2>1. PICK q \in InSegment(meta.segs[g][i]) : a = OfSegment(i, q)  BY <2>0
    <2>2. i \in Nat /\ meta.segs[g][i] \in Segment /\ meta.segs[g][i] \in ToSet(meta.segs[g])
      BY <1>0, <2>1 DEF ToSet
    <2>3. q \in disk[meta.segs[g][i]] /\ q.off < meta.segFront[meta.segs[g][i]]
      BY <2>1 DEF InSegment
    <2>4. Hash[q.key] = g  BY <1>0, <2>2, <2>3 DEF Indexed, Clean
    <2>5. q \in Kept  BY <1>0, <2>2, <2>3 DEF Sane
    <2>6. q.off \in Nat /\ q.key \in Key /\ Stripped(q) \in Rec /\ Stripped(q).key = q.key
      BY <2>5 DEF Kept, Stripped, Rec, Record
    <2> QED  BY <2>1, <2>2, <2>4, <2>6 DEF OfSegment
  <1>2. CASE \E j \in PendingOf(g) : a = OfBuffer(g, j)
    <2>1. PICK j \in PendingOf(g) : a = OfBuffer(g, j)  BY <1>2
    <2>2. j \in DOMAIN pool /\ Hash[pool[j].key] = g  BY <1>0 DEF PendingOf, Buffer
    <2>3. j \in Nat /\ pool[j] \in Rec /\ Len(meta.segs[g]) \in Nat  BY <1>0, <2>2
    <2> QED  BY <2>1, <2>2, <2>3, RecTypes DEF OfBuffer
  <1> QED  BY <1>0, <1>1, <1>2, ScanCases

LEMMA ScanTop ==
  ASSUME IInv, Bounds, FInv, CInv, pc = "gc", NEW g \in Sound, NEW k \in Key, Hash[k] = g
  PROVE  IF Unflushed(k) \/ lsm[k] # Nowhere THEN \E t : Top(Scan(g), k, t)
         ELSE \A a \in Scan(g) : a.rec.key # k
  <1> DEFINE segs == meta.segs[g]
  <1>0. /\ Indexed(g, segs, meta.segFront, disk, lsm, {}) /\ Sane(disk) /\ Buffer
        /\ Image = disk /\ Where = lsm /\ Moving = {}
        /\ g \in Group /\ segs \in Seq(Segment) /\ pool \in Seq(Rec) /\ Distinct(segs)
    BY Quiescent, ImageFacts, FFacts DEF Sound, Shape, Bounds, Records, MetaFits, Fitting
  <1>1. PoolNewest /\ Values  BY CFacts
  <1>2. Len(segs) \in Nat /\ DOMAIN segs = 1..Len(segs)  BY <1>0
  <1>3. \A a \in Scan(g) :
           \/ \E i \in DOMAIN segs : \E q \in InSegment(segs[i]) : a = OfSegment(i, q)
           \/ \E j \in PendingOf(g) : a = OfBuffer(g, j)
    BY <1>0, ScanCases
  <1>4. pending \subseteq DOMAIN pool /\ DOMAIN pool \subseteq Nat /\ pool \in Seq(Entry)
    BY <1>0 DEF Buffer
  \* the buffer is scanned last
  <1>5. ASSUME Unflushed(k) PROVE \E t : Top(Scan(g), k, t)
    <2> DEFINE l == InPool(k)
               t == OfBuffer(g, l)
    <2>1. PICK i \in pending : pool[i].key = k  BY <1>5 DEF Unflushed
    <2>2. /\ l \in DOMAIN pool /\ pool[l].key = k
          /\ \A j \in DOMAIN pool : j > l => pool[j].key # k
      BY <1>4, <2>1, InPoolFacts
    <2>3. l \in pending
      <3>1. i \in Nat /\ l \in Nat /\ i \in DOMAIN pool  BY <1>4, <2>2
      <3>2. ~ (i > l)  BY <2>1, <2>2, <3>1
      <3>3. i = l \/ l > i  BY <3>1, <3>2
      <3>4. l > i => l \in pending  BY <1>1, <2>1, <2>2 DEF PoolNewest
      <3> QED  BY <3>3, <3>4
    <2>4. l \in PendingOf(g)  BY <2>2, <2>3 DEF PendingOf
    <2>5. pool[l].val = latest[k]  BY <1>1, <2>2 DEF PoolNewest
    <2> HIDE DEF l
    <2>6. t \in Scan(g)  BY <1>0, <2>4, ScanCases
    <2>7. t.rec = pool[l] /\ t.part = Len(segs) + 1 /\ t.off = l  BY DEF OfBuffer
    <2>8. ASSUME NEW b \in Scan(g), b.rec.key = k PROVE b = t \/ ScannedAfter(t, b)
      <3>1. CASE \E x \in DOMAIN segs : \E q \in InSegment(segs[x]) : b = OfSegment(x, q)
        <4>1. PICK x \in DOMAIN segs : b.part = x  BY <3>1 DEF OfSegment
        <4> QED  BY <1>2, <2>7, <4>1 DEF ScannedAfter
      <3>2. CASE \E j \in PendingOf(g) : b = OfBuffer(g, j)
        <4>1. PICK j \in PendingOf(g) : b = OfBuffer(g, j)  BY <3>2
        <4>2. b.rec = pool[j] /\ b.part = Len(segs) + 1 /\ b.off = j  BY <4>1 DEF OfBuffer
        <4>3. j \in DOMAIN pool /\ pool[j].key = k /\ j \in Nat /\ l \in Nat
          BY <1>4, <2>2, <2>8, <4>2 DEF PendingOf
        <4>4. ~ (j > l)  BY <2>2, <4>3
        <4>5. CASE j = l  BY <4>1, <4>5
        <4>6. CASE j # l  BY <1>2, <2>7, <4>2, <4>3, <4>4, <4>6 DEF ScannedAfter
        <4> QED  BY <4>5, <4>6
      <3> QED  BY <1>3, <2>8, <3>1, <3>2
    <2> HIDE DEF t
    <2> QED  BY <2>2, <2>5, <2>6, <2>7, <2>8 DEF Top
  \* without the buffer, the record that the LSM-tree locates
  <1>6. ASSUME ~ Unflushed(k), NEW a \in Scan(g), a.rec.key = k
        PROVE  \E i \in DOMAIN segs : \E q \in disk[segs[i]] :
                 /\ a = OfSegment(i, q) /\ q.key = k /\ lsm[k] # Nowhere
                 /\ NotAfter(segs, segs[i], q.off, lsm[k]) /\ q.off \in Nat
    <2>1. ~ \E j \in PendingOf(g) : a = OfBuffer(g, j)
      <3> SUFFICES ASSUME NEW j \in PendingOf(g), a = OfBuffer(g, j) PROVE FALSE  OBVIOUS
      <3>1. a.rec = pool[j] /\ j \in pending  BY DEF OfBuffer, PendingOf
      <3> QED  BY <1>6, <3>1 DEF Unflushed
    <2>2. PICK i \in DOMAIN segs : \E q \in InSegment(segs[i]) : a = OfSegment(i, q)
      BY <1>3, <1>6, <2>1
    <2>3. PICK q \in InSegment(segs[i]) : a = OfSegment(i, q)  BY <2>2
    <2>4. segs[i] \in ToSet(segs) /\ segs[i] \in Segment  BY <1>0, <2>2 DEF ToSet
    <2>5. q \in disk[segs[i]] /\ q.off < meta.segFront[segs[i]]  BY <2>3 DEF InSegment
    <2>6. q.key = k  BY <1>6, <2>3 DEF OfSegment, Stripped
    <2>7. lsm[k] # Nowhere /\ NotAfter(segs, segs[i], q.off, lsm[k])
      BY <1>0, <2>4, <2>5, <2>6 DEF Indexed, Clean
    <2>8. q.off \in Nat  BY <1>0, <2>4, <2>5, KeptTypes DEF Sane
    <2> QED  BY <2>3, <2>5, <2>6, <2>7, <2>8
  <1>7. ASSUME ~ Unflushed(k), lsm[k] # Nowhere PROVE \E t : Top(Scan(g), k, t)
    <2> DEFINE l == lsm[k]
    <2>1. lsm \in [Key -> Loc \cup {Nowhere}]  BY ImageFacts
    <2>2. ToSet(segs) \subseteq Segment /\ \A s \in ToSet(segs) : meta.segFront[s] \in Nat
      BY <1>0, ListSegments
    <2>3. PICK q \in disk[l.seg] :
           /\ At(q, k, l) /\ ReadDisk(disk, k, l) = q.val
           /\ l.seg \in ToSet(segs) /\ q.off < meta.segFront[l.seg]
           /\ \A x \in disk[l.seg] : x.off = q.off => x = q
      <3> DEFINE F == meta.segFront
                 ex == {}
      <3>1. Indexed(g, segs, F, disk, lsm, ex) /\ Sane(disk)  BY <1>0
      <3>2. k \notin ex  OBVIOUS
      <3>3. ToSet(segs) \subseteq Segment /\ \A s \in ToSet(segs) : F[s] \in Nat  BY <2>2
      <3> HIDE DEF segs, F, ex
      <3>4. Readable(segs, F, disk, k, lsm[k])  BY <1>7, <2>1, <3>1, <3>2, <3>3, IndexedRead
      <3> QED  BY <3>4 DEF F, Readable
    <2>4. PICK m \in DOMAIN segs : segs[m] = l.seg  BY <2>3 DEF ToSet
    <2> DEFINE t == OfSegment(m, q)
    <2>5. t \in Scan(g)
      <3>1. q \in InSegment(segs[m])  BY <2>3, <2>4 DEF InSegment
      <3> QED  BY <1>0, <3>1, ScanCases
    <2>6. /\ t.rec.key = k /\ t.rec.val = q.val /\ t.part = m /\ t.off = q.off /\ q.off = l.off
          /\ q.off \in Nat /\ m \in Nat
      BY <1>0, <1>2, <2>2, <2>3, <2>4, KeptTypes DEF OfSegment, Stripped, At, Sane
    <2>7. q.val = latest[k]  BY <1>0, <1>1, <1>7, <2>3 DEF Values
    <2>8. ASSUME NEW b \in Scan(g), b.rec.key = k PROVE b = t \/ ScannedAfter(t, b)
      <3>1. PICK i \in DOMAIN segs : \E x \in disk[segs[i]] :
                 /\ b = OfSegment(i, x) /\ x.key = k /\ lsm[k] # Nowhere
                 /\ NotAfter(segs, segs[i], x.off, lsm[k]) /\ x.off \in Nat
        BY <1>6, <1>7, <2>8
      <3>2. PICK x \in disk[segs[i]] :
                 /\ b = OfSegment(i, x) /\ x.key = k /\ lsm[k] # Nowhere
                 /\ NotAfter(segs, segs[i], x.off, lsm[k]) /\ x.off \in Nat
        BY <3>1
      <3>3. i < m \/ (i = m /\ x.off <= l.off)  BY <2>4, <3>2 DEF NotAfter
      <3>4. b.part = i /\ b.off = x.off /\ i \in Nat  BY <1>2, <3>2 DEF OfSegment
      <3>5. CASE i < m  BY <2>6, <3>4, <3>5 DEF ScannedAfter
      <3>6. CASE i = m /\ x.off = l.off
        <4>1. x = q  BY <2>3, <2>4, <2>6, <3>2, <3>6
        <4> QED  BY <3>2, <3>6, <4>1
      <3>7. CASE i = m /\ x.off < l.off  BY <2>6, <3>4, <3>7 DEF ScannedAfter
      <3> QED  BY <2>6, <3>2, <3>3, <3>5, <3>6, <3>7
    <2> HIDE DEF t
    <2> QED  BY <2>5, <2>6, <2>7, <2>8 DEF Top
  <1> QED  BY <1>5, <1>6, <1>7

(* What garbage collection keeps of a group is the latest value of each key *)
(* that has one.                                                            *)
LEMMA KeptLatest ==
  ASSUME IInv, Bounds, FInv, CInv, pc = "gc", NEW g \in Sound, NEW K, K = KeyCount(Scan(g))
  PROVE  /\ \A r \in K : Hash[r.key] = g /\ r.key \in Key /\ r.val = latest[r.key]
         /\ \A r, q \in K : r.key = q.key => r = q
         /\ \A k \in Key : Hash[k] = g /\ (Unflushed(k) \/ lsm[k] # Nowhere) => \E r \in K : r.key = k
  <1> DEFINE S == Scan(g)
  <1>1. \A a \in S : /\ a.part \in Nat /\ a.off \in Nat /\ a.rec.key \in Key /\ Hash[a.rec.key] = g
    BY ScanTypes
  <1>2. \A k \in Key : Hash[k] = g => (\E t : Top(S, k, t)) \/ \A a \in S : a.rec.key # k
    BY ScanTop
  <1>3. \A k \in Key : Hash[k] = g /\ (Unflushed(k) \/ lsm[k] # Nowhere) => \E t : Top(S, k, t)
    BY ScanTop
  <1> HIDE DEF S
  <1>4. K = {a.rec : a \in {a \in S : \A b \in S : ScannedAfter(b, a) => a.rec.key # b.rec.key}}
    BY DEF KeyCount, S
  <1>5. ASSUME NEW r \in K
        PROVE  \E t \in S : Top(S, r.key, t) /\ r = t.rec /\ r.key \in Key /\ Hash[r.key] = g
    <2>1. PICK a \in S : /\ \A b \in S : ScannedAfter(b, a) => a.rec.key # b.rec.key
                         /\ r = a.rec
      BY <1>4
    <2>2. PICK t : Top(S, r.key, t)  BY <1>1, <1>2, <2>1
    <2>3. t \in S /\ t.rec.key = r.key /\ (a = t \/ ScannedAfter(t, a))  BY <2>1, <2>2 DEF Top
    <2>4. a = t  BY <2>1, <2>3
    <2> QED  BY <1>1, <2>1, <2>2, <2>3, <2>4
  <1>6. ASSUME NEW k \in Key, NEW t, Top(S, k, t) PROVE t.rec \in K /\ t.rec.key = k
    <2>1. t \in S /\ t.rec.key = k /\ \A b \in S : b.rec.key = k => b = t \/ ScannedAfter(t, b)
      BY <1>6 DEF Top
    <2>2. ASSUME NEW b \in S, ScannedAfter(b, t) PROVE t.rec.key # b.rec.key
      <3> SUFFICES ASSUME b.rec.key = k PROVE FALSE  BY <2>1
      <3>1. b = t \/ ScannedAfter(t, b)  BY <2>1
      <3> QED  BY <1>1, <2>1, <2>2, <3>1 DEF ScannedAfter
    <2> QED  BY <1>4, <2>1, <2>2
  <1>7. ASSUME NEW r \in K, NEW q \in K, r.key = q.key PROVE r = q
    <2>1. PICK t \in S : Top(S, r.key, t) /\ r = t.rec  BY <1>5
    <2>2. PICK u \in S : Top(S, q.key, u) /\ q = u.rec  BY <1>5
    <2>3. t = u \/ (ScannedAfter(t, u) /\ ScannedAfter(u, t))  BY <1>7, <2>1, <2>2 DEF Top
    <2> QED  BY <1>1, <2>1, <2>2, <2>3 DEF ScannedAfter
  <1>8. \A r \in K : Hash[r.key] = g /\ r.key \in Key /\ r.val = latest[r.key]  BY <1>5 DEF Top
  <1> QED  BY <1>3, <1>6, <1>7, <1>8

----------------------------------------------------------------------------
(* The buffer and the history                                               *)

\* a put has its record at position i, the last of its key
PutAt(k, i) ==
  /\ i \in DOMAIN pool' /\ pool'[i].key = k /\ pool'[i].val = puts + 1
  /\ \A j \in DOMAIN pool' : j > i => pool'[j].key # k
  /\ \A j \in DOMAIN pool' \ {i} : j \in DOMAIN pool /\ pool'[j] = pool[j]
  /\ DOMAIN pool' = DOMAIN pool \cup {i}
  /\ i \in DOMAIN pool => pool[i].key = k
  /\ pending = DOMAIN pool /\ pending' = DOMAIN pool'

LEMMA PutPool ==
  ASSUME IInv, Bounds, FInv, CInv, NEW k \in Key, NEW s \in Sizes[k], Put(k, s)
  PROVE  \E i : PutAt(k, i)
  <1>0. pc = "idle" /\ PutInto(k, s)  BY DEF Put
  <1>1. pending = DOMAIN pool  BY <1>0, CFacts DEF PoolNewest
  <1>2. pool \in Seq(Rec) /\ pool \in Seq(Entry)  BY <1>0, FFacts DEF Bounds, Records, Buffer
  <1>3. Len(pool) \in Nat /\ DOMAIN pool = 1..Len(pool)  BY <1>2
  <1>4. CASE UpdatesInPlace(k, s)
    <2> DEFINE i == InPool(k)
    <2>1. pool' = [pool EXCEPT ![i].val = puts + 1] /\ pending' = pending
      BY <1>0, <1>4 DEF PutInto
    <2>2. i \in DOMAIN pool /\ pool[i].key = k /\ \A j \in DOMAIN pool : j > i => pool[j].key # k
      BY <1>2, <1>4, InPoolFacts DEF UpdatesInPlace
    <2> HIDE DEF i
    <2>3. pool[i] \in Rec  BY <1>2, <2>2
    <2>4. DOMAIN pool' = DOMAIN pool /\ \A j \in DOMAIN pool \ {i} : pool'[j] = pool[j]
      BY <2>1
    <2>5. pool'[i] = [pool[i] EXCEPT !.val = puts + 1]  BY <2>1, <2>2
    <2>6. pool'[i].key = k /\ pool'[i].val = puts + 1  BY <2>2, <2>3, <2>5 DEF Rec, Record
    <2>7. \A j \in DOMAIN pool' : j > i => pool'[j].key # k
      BY <1>3, <2>2, <2>4
    <2>8. DOMAIN pool' = DOMAIN pool \cup {i}  BY <2>2, <2>4
    <2>9. PutAt(k, i)  BY <1>1, <2>1, <2>2, <2>4, <2>6, <2>7, <2>8 DEF PutAt
    <2> QED  BY <2>9
  <1>5. CASE ~ UpdatesInPlace(k, s)
    <2> DEFINE e == [key |-> k, val |-> puts + 1, size |-> s]
               i == Len(pool) + 1
    <2>1. pool' = Append(pool, e) /\ pending' = pending \cup {i}
      BY <1>0, <1>5 DEF PutInto
    <2>2. e.key = k /\ e.val = puts + 1  OBVIOUS
    <2> HIDE DEF e
    <2>3. DOMAIN pool' = 1..(Len(pool) + 1) /\ pool'[i] = e /\ \A j \in 1..Len(pool) : pool'[j] = pool[j]
      BY <1>2, <2>1
    <2>4. DOMAIN pool' = DOMAIN pool \cup {i} /\ i \notin DOMAIN pool /\ i \in DOMAIN pool'
      BY <1>3, <2>3
    <2>5. \A j \in DOMAIN pool' : ~ (j > i)  BY <1>3, <2>3
    <2>6. \A j \in DOMAIN pool' \ {i} : j \in DOMAIN pool /\ pool'[j] = pool[j]
      BY <1>3, <2>3, <2>4
    <2> HIDE DEF i
    <2>7. PutAt(k, i)  BY <1>1, <2>1, <2>2, <2>3, <2>4, <2>5, <2>6 DEF PutAt
    <2> QED  BY <2>7
  <1> QED  BY <1>4, <1>5

\* the steps that neither put a value nor end a flush
Plain ==
  /\ UNCHANGED <<pool, puts, latest, flushed>> /\ pc' # "idle"
  /\ pending' = pending \/ FlushRecord \/ \E g \in Group : GCOneGroup(g)

LEMMA PlainSteps ==
  ASSUME Next
  PROVE  \/ Plain \/ FinishFlush \/ Crash \/ Recover
         \/ \E k \in Key : \E s \in Sizes[k] : Put(k, s)
  <1>1. ASSUME NEW k \in Key, NEW s \in Sizes[k], FlushBeforeWrite(k, s) PROVE Plain
    BY <1>1 DEF FlushBeforeWrite, Plain, history
  <1>2. ASSUME NEW g \in Group, PickGroup(g), pc # "idle" PROVE Plain
    BY <1>2 DEF PickGroup, Plain, history
  <1>p. ASSUME NEW g \in Group, PickGroup(g) PROVE Plain
    BY <1>2, <1>p DEF PickGroup
  <1>g. ASSUME NEW g \in Group, GCOneGroup(g) PROVE Plain
    <2>1. UNCHANGED <<pool, puts, latest, flushed>> /\ pc' = "rewrite"  BY <1>g DEF GCOneGroup
    <2> QED  BY <1>g, <2>1 DEF Plain
  <1>3. ASSUME NEW r \in survivors, RewriteRecord(r) PROVE Plain
    BY <1>3 DEF RewriteRecord, Plain, history
  <1>4. ASSUME NEW s \in Segment, WriteSegment(s) PROVE Plain
    BY <1>4 DEF WriteSegment, Plain, history
  <1>f. ASSUME FlushRecord PROVE Plain
    <2>1. UNCHANGED <<pool, puts, latest, flushed>> /\ pc' = "flush"
      BY <1>f DEF FlushRecord, history
    <2> QED  BY <1>f, <2>1 DEF Plain
  <1>5. LeaveGroup \/ ReservedOverflow \/ EndOfUpdates => Plain
    BY DEF LeaveGroup, ReservedOverflow, EndOfUpdates, Plain, history, volatile
  <1>6. SetBatchUpdateKeyValue \/ WriteKeyBatch \/ LogMetaPersist \/ SetBatchGCKeyValue => Plain
    BY DEF SetBatchUpdateKeyValue, WriteKeyBatch, LogMetaPersist, SetBatchGCKeyValue, Plain, history,
           volatile
  <1>w. WriteKeyBatchFails \/ GCGreedyInVain => Plain
    BY DEF WriteKeyBatchFails, GCGreedyInVain, Plain, history, volatile
  <1>7. AckBeforeGC \/ FinishGC => Plain
    BY DEF AckBeforeGC, FinishGC, Plain, history
  <1> QED  BY <1>1, <1>p, <1>g, <1>3, <1>4, <1>f, <1>5, <1>6, <1>w, <1>7 DEF Next

LEMMA ReadTypes ==
  ASSUME NEW d, Sane(d), NEW k, NEW l \in Loc \cup {Nowhere}
  PROVE  ReadDisk(d, k, l) \in Int
  <1>1. CASE l = Nowhere  BY <1>1 DEF ReadDisk
  <1>2. CASE l # Nowhere
    <2> DEFINE hits == {r \in d[l.seg] : r.off = l.off /\ r.size = l.size /\ r.key = k}
    <2>1. ReadDisk(d, k, l) = IF hits = {} THEN None ELSE (CHOOSE r \in hits : TRUE).val
      BY <1>2 DEF ReadDisk
    <2>2. hits # {} => (CHOOSE r \in hits : TRUE) \in d[l.seg]  OBVIOUS
    <2>3. \A r \in d[l.seg] : r.val \in Nat  BY <1>2, LocTypes, KeptTypes DEF Sane
    <2>4. None \in Int  BY DEF None
    <2> QED  BY <2>1, <2>2, <2>3, <2>4
  <1> QED  BY <1>1, <1>2

LEMMA CountedKept ==
  ASSUME IInv, Bounds, FInv, CInv, Next
  PROVE  Counted'
  <1>0. Counted /\ Sane(disk) /\ puts \in Nat /\ Locations
    BY ImageFacts DEF CInv, IInv, Buffer, Bounds
  <1>1. CASE Plain  BY <1>0, <1>1 DEF Plain, Counted
  <1>2. CASE Crash
    <2>1. pool' = <<>> /\ UNCHANGED <<puts, latest, flushed>>  BY <1>2 DEF Crash
    <2> QED  BY <1>0, <2>1 DEF Counted
  <1>3. CASE Recover
    <2>1. /\ lsm' = Located(lsm, updateLog.keys) /\ UNCHANGED <<pool, puts, flushed>>
          /\ latest' = [k \in Key |-> ReadDisk(disk, k, lsm'[k])]
      BY <1>3 DEF Recover
    <2>2. lsm' \in [Key -> Loc \cup {Nowhere}]  BY <1>0, <2>1, LocatedType DEF Locations
    <2>3. \A k \in Key : ReadDisk(disk, k, lsm'[k]) \in Int  BY <1>0, <2>2, ReadTypes
    <2>4. latest' \in [Key -> Int]  BY <2>1, <2>3
    <2> QED  BY <1>0, <2>1, <2>4 DEF Counted
  <1>4. CASE FinishFlush
    <2>1. /\ flushed' = [k \in Key |-> IF InPool(k) # 0 THEN latest[k] ELSE flushed[k]]
          /\ pool' = <<>> /\ UNCHANGED <<puts, latest>> /\ pc = "ack"
      BY <1>4 DEF FinishFlush
    <2>2. pool \in Seq(Entry) /\ PoolNewest  BY <2>1, CFacts, FFacts DEF Buffer
    <2>3. ASSUME NEW k \in Key, InPool(k) # 0 PROVE latest[k] <= puts
      <3>1. /\ InPool(k) \in DOMAIN pool /\ pool[InPool(k)].key = k
            /\ \A j \in DOMAIN pool : j > InPool(k) => pool[j].key # k
        BY <2>2, <2>3, InPoolFacts
      <3>2. pool[InPool(k)].val = latest[k]  BY <2>2, <3>1 DEF PoolNewest
      <3> QED  BY <1>0, <3>1, <3>2 DEF Counted
    <2>4. flushed' \in [Key -> Int]  BY <1>0, <2>1 DEF Counted
    <2>5. \A k \in Key : flushed'[k] <= puts  BY <1>0, <2>1, <2>3 DEF Counted
    <2> QED  BY <1>0, <2>1, <2>4, <2>5 DEF Counted
  <1>5. ASSUME NEW k \in Key, NEW s \in Sizes[k], Put(k, s) PROVE Counted'
    <2>1. puts' = puts + 1 /\ latest' = [latest EXCEPT ![k] = puts + 1] /\ flushed' = flushed
      BY <1>5 DEF Put
    <2>2. PICK i : PutAt(k, i)  BY <1>5, PutPool
    <2>3. \A j \in DOMAIN pool' : pool'[j].val = puts + 1 \/ (j \in DOMAIN pool /\ pool'[j] = pool[j])
      BY <2>2 DEF PutAt
    <2>4. ASSUME NEW j \in DOMAIN pool' PROVE pool'[j].val <= puts'
      <3>1. \A x \in DOMAIN pool : pool[x].val \in Nat /\ pool[x].val <= puts
        <4>1. pool \in Seq(Entry)  BY DEF IInv, Buffer
        <4>2. \A x \in DOMAIN pool : pool[x] \in Entry  BY <4>1
        <4>3. \A x \in DOMAIN pool : pool[x].val \in Nat  BY <4>2 DEF Entry
        <4> QED  BY <1>0, <4>3 DEF Counted
      <3> QED  BY <1>0, <2>1, <2>3, <3>1
    <2>5. \A x \in Key : flushed'[x] <= puts'
      <3>1. \A x \in Key : flushed[x] \in Int /\ flushed[x] <= puts  BY <1>0 DEF Counted
      <3> QED  BY <1>0, <2>1, <3>1
    <2>6. flushed' \in [Key -> Int] /\ latest' \in [Key -> Int]  BY <1>0, <2>1 DEF Counted
    <2> QED  BY <2>4, <2>5, <2>6 DEF Counted
  <1> QED  BY <1>1, <1>2, <1>3, <1>4, <1>5, PlainSteps

LEMMA PoolNewestKept ==
  ASSUME IInv, Bounds, FInv, CInv, pc # "down", Next, pc' # "down"
  PROVE  PoolNewest'
  <1>0. /\ PoolNewest /\ Counted /\ Phases /\ Buffer  BY CFacts, FFacts
  <1>1. /\ pool \in Seq(Entry) /\ pending \subseteq DOMAIN pool /\ DOMAIN pool \subseteq Nat
        /\ pending \subseteq Nat /\ puts \in Nat /\ \A i \in DOMAIN pool : pool[i].key \in Key
    <2>1. pool \in Seq(Entry) /\ pending \subseteq DOMAIN pool /\ puts \in Nat  BY <1>0 DEF Buffer
    <2>2. DOMAIN pool \subseteq Nat /\ \A i \in DOMAIN pool : pool[i] \in Entry  BY <2>1
    <2>3. \A i \in DOMAIN pool : pool[i].key \in Key  BY <2>2 DEF Entry
    <2> QED  BY <2>1, <2>2, <2>3
  <1>2. CASE Plain
    <2>1. UNCHANGED <<pool, puts, latest, flushed>> /\ pc' # "idle"  BY <1>2 DEF Plain
    <2>2. ASSUME NEW i \in pending', NEW j \in DOMAIN pool, j > i,
                 Hash[pool[j].key] = Hash[pool[i].key]
          PROVE  j \in pending'
      <3>1. CASE pending' = pending  BY <1>0, <2>2, <3>1 DEF PoolNewest
      <3>2. CASE FlushRecord
        <4>1. pending' = pending \ {NextUpdate(cur)} /\ PendingOf(cur) # {}  BY <3>2 DEF FlushRecord
        <4>2. NextUpdate(cur) \in PendingOf(cur) /\ \A x \in PendingOf(cur) : NextUpdate(cur) <= x
          BY <1>1, <4>1, NextUpdateIn
        <4>3. i \in pending /\ j \in pending  BY <1>0, <2>2, <4>1 DEF PoolNewest
        <4>4. j # NextUpdate(cur)
          <5> SUFFICES ASSUME j = NextUpdate(cur) PROVE FALSE  OBVIOUS
          <5>1. Hash[pool[i].key] = cur  BY <2>2, <4>2 DEF PendingOf
          <5>2. i \in PendingOf(cur)  BY <4>3, <5>1 DEF PendingOf
          <5>3. j <= i  BY <4>2, <5>2
          <5> QED  BY <1>1, <2>2, <4>3, <5>3
        <4> QED  BY <4>1, <4>3, <4>4
      <3>3. CASE \E g \in Group : GCOneGroup(g)
        <4>1. PICK g \in Group : GCOneGroup(g)  BY <3>3
        <4>2. pending' = pending \ PendingOf(g)  BY <4>1 DEF GCOneGroup
        <4>3. i \in pending /\ j \in pending  BY <1>0, <2>2, <4>2 DEF PoolNewest
        <4>4. j \notin PendingOf(g)  BY <2>2, <4>2, <4>3 DEF PendingOf
        <4> QED  BY <4>2, <4>3, <4>4
      <3> QED  BY <1>2, <3>1, <3>2, <3>3 DEF Plain
    <2>3. \A i \in pending' : \A j \in DOMAIN pool' :
            j > i /\ Hash[pool'[j].key] = Hash[pool'[i].key] => j \in pending'
      BY <2>1, <2>2
    <2> QED  BY <1>0, <2>1, <2>3 DEF PoolNewest
  <1>3. CASE FinishFlush
    <2>1. /\ pool' = <<>> /\ pending' = pending /\ pc = "ack" /\ victim = None /\ cur = None
      BY <1>3 DEF FinishFlush
    <2>2. pending' = {}  BY <1>0, <2>1 DEF Phases
    <2>3. DOMAIN pool' = {}  BY <2>1
    <2> QED  BY <2>2, <2>3 DEF PoolNewest
  <1>4. ASSUME NEW k \in Key, NEW s \in Sizes[k], Put(k, s) PROVE PoolNewest'
    <2>1. /\ puts' = puts + 1 /\ latest' = [latest EXCEPT ![k] = puts + 1] /\ flushed' = flushed
          /\ latest'[k] = puts + 1 /\ \A x \in Key \ {k} : latest'[x] = latest[x]
      BY <1>0, <1>4 DEF Put, Counted
    <2>2. PICK i : PutAt(k, i)  BY <1>4, PutPool
    <2>3. /\ i \in DOMAIN pool' /\ pool'[i].key = k /\ pool'[i].val = puts + 1
          /\ \A j \in DOMAIN pool' : j > i => pool'[j].key # k
          /\ \A j \in DOMAIN pool' \ {i} : j \in DOMAIN pool /\ pool'[j] = pool[j]
          /\ DOMAIN pool' = DOMAIN pool \cup {i}
          /\ i \in DOMAIN pool => pool[i].key = k
          /\ pending' = DOMAIN pool'
      BY <2>2 DEF PutAt
    <2>4. flushed[k] <= puts + 1
      <3>1. flushed[k] \in Int /\ flushed[k] <= puts  BY <1>0 DEF Counted
      <3> QED  BY <1>1, <3>1
    <2>5. \A j \in DOMAIN pool' : flushed'[pool'[j].key] <= pool'[j].val
      <3> SUFFICES ASSUME NEW j \in DOMAIN pool' PROVE flushed[pool'[j].key] <= pool'[j].val
        BY <2>1
      <3>1. CASE j = i  BY <2>3, <2>4, <3>1
      <3>2. CASE j # i  BY <1>0, <2>3, <3>2 DEF PoolNewest
      <3> QED  BY <3>1, <3>2
    <2>6. ASSUME NEW j \in DOMAIN pool', \A x \in DOMAIN pool' : x > j => pool'[x].key # pool'[j].key
          PROVE  pool'[j].val = latest'[pool'[j].key]
      <3>1. CASE j = i  BY <2>1, <2>3, <3>1
      <3>2. CASE j # i
        <4>1. j \in DOMAIN pool /\ pool'[j] = pool[j] /\ pool[j].key \in Key  BY <1>1, <2>3, <3>2
        <4>2. pool[j].key # k
          <5> SUFFICES ASSUME pool[j].key = k PROVE FALSE  OBVIOUS
          <5>1. ~ (j > i)  BY <2>3, <4>1
          <5>2. ~ (i > j)  BY <2>3, <2>6, <4>1
          <5>3. i \in Nat /\ j \in Nat
            <6>1. pool' \in Seq(Rec)  BY <1>4, PutRecords
            <6>2. DOMAIN pool' = 1..Len(pool') /\ Len(pool') \in Nat  BY <6>1
            <6>3. i \in DOMAIN pool' /\ j \in DOMAIN pool'  BY <2>3
            <6> QED  BY <6>2, <6>3
          <5> QED  BY <3>2, <5>1, <5>2, <5>3
        <4>3. ASSUME NEW x \in DOMAIN pool, x > j, pool[x].key = pool[j].key PROVE FALSE
          <5>1. x # i  BY <2>3, <4>2, <4>3
          <5>2. x \in DOMAIN pool' /\ pool'[x] = pool[x]  BY <2>3, <5>1
          <5> QED  BY <2>6, <4>1, <4>3, <5>2
        <4>4. pool[j].val = latest[pool[j].key]  BY <1>0, <4>1, <4>3 DEF PoolNewest
        <4> QED  BY <2>1, <4>1, <4>2, <4>4
      <3> QED  BY <3>1, <3>2
    <2>7. \A x \in pending' : \A j \in DOMAIN pool' :
            j > x /\ Hash[pool'[j].key] = Hash[pool'[x].key] => j \in pending'
      BY <2>3
    <2> QED  BY <2>3, <2>5, <2>6, <2>7 DEF PoolNewest
  <1>5. ~ Crash /\ ~ Recover  BY DEF Crash, Recover
  <1> QED  BY <1>2, <1>3, <1>4, <1>5, PlainSteps

LEMMA SurviveKept ==
  ASSUME IInv, Bounds, FInv, CInv, pc # "down", Next, pc' # "down"
  PROVE  Survive'
  <1>0. Survive /\ Course  BY CFacts, FFacts
  <1>1. ASSUME survivors' = survivors, survivors = {} PROVE Survive'
    BY <1>1 DEF Survive
  <1>2. ASSUME NEW g \in Group, GCOneGroup(g) PROVE Survive'
    <2>1. /\ pc = "gc" /\ pc' = "rewrite" /\ survivors' = KeyCount(Scan(g)) /\ victim' = g
          /\ torn' = torn \cup Revived(g, survivors') /\ batch' = batch /\ latest' = latest
      BY <1>2 DEF GCOneGroup
    <2>2. batch' = <<>>  BY <1>0, <2>1 DEF Course
    <2>3. \A i \in DOMAIN batch' : FALSE  BY <2>2
    <2>4. CASE g \in Sound
      <3>1. /\ \A r \in survivors' : Hash[r.key] = g /\ r.key \in Key /\ r.val = latest[r.key]
            /\ \A r, q \in survivors' : r.key = q.key => r = q
        BY <2>1, <2>4, KeptLatest
      <3> QED  BY <2>1, <2>3, <3>1 DEF Survive
    <2>5. CASE g \notin Sound
      <3>1. g \in torn  BY <2>5 DEF Sound
      <3>2. \A r \in survivors' : Hash[r.key] \in torn'  BY <2>1, <3>1 DEF Revived
      <3>3. g \in torn'  BY <2>1, <3>1
      <3>4. g \notin Sound' /\ \A r \in survivors' : Hash[r.key] \notin Sound'
        BY <3>2, <3>3 DEF Sound
      <3> QED  BY <2>1, <3>4 DEF Survive
    <2> QED  BY <2>4, <2>5
  <1>3. ASSUME NEW r \in survivors, RewriteRecord(r) PROVE Survive'
    <2> DEFINE loc == Place(meta, victim, curFront, r.size).loc
               e == [key |-> r.key, loc |-> loc]
    <2>1. /\ pc' = "rewrite" /\ survivors' = survivors \ {r}
          /\ batch' = Append(batch, e)
          /\ UNCHANGED <<victim, torn, latest>>
      BY <1>3 DEF RewriteRecord, history
    <2>2. e.key = r.key  OBVIOUS
    <2> HIDE DEF e
    <2>3. \A i \in DOMAIN batch' : (i \in DOMAIN batch /\ batch'[i] = batch[i]) \/ batch'[i] = e
      <3>1. batch \in Seq(KeyLoc)  BY DEF Bounds, Locations
      <3> QED  BY <2>1, <3>1
    <2>4. Sound' = Sound  BY <2>1 DEF Sound
    <2>5. ASSUME victim \in Sound, NEW q \in survivors', NEW i \in DOMAIN batch'
          PROVE  batch'[i].key # q.key
      <3>1. q \in survivors /\ q # r  BY <2>1
      <3>2. q.key # r.key  BY <1>0, <2>5, <3>1 DEF Survive
      <3> QED  BY <1>0, <2>2, <2>3, <2>5, <3>1, <3>2 DEF Survive
    <2>6. ASSUME NEW q \in survivors', Hash[q.key] \in Sound PROVE Hash[q.key] = victim
      BY <1>0, <2>1, <2>6 DEF Survive
    <2>7. ASSUME victim \in Sound
          PROVE  /\ \A q \in survivors' : Hash[q.key] = victim /\ q.val = latest[q.key]
                 /\ \A q, x \in survivors' : q.key = x.key => q = x
      BY <1>0, <2>1, <2>7 DEF Survive
    <2> QED  BY <2>1, <2>4, <2>5, <2>6, <2>7 DEF Survive
  <1>4. ASSUME NEW k \in Key, NEW s \in Sizes[k], Put(k, s) \/ FlushBeforeWrite(k, s) PROVE Survive'
    BY <1>0, <1>1, <1>4 DEF Put, FlushBeforeWrite, Survive
  <1>5. ASSUME NEW g \in Group, PickGroup(g) PROVE Survive'
    BY <1>0, <1>1, <1>5 DEF PickGroup, Survive
  <1>6. CASE FlushRecord \/ LeaveGroup \/ ReservedOverflow \/ EndOfUpdates
    BY <1>0, <1>1, <1>6 DEF FlushRecord, LeaveGroup, ReservedOverflow, EndOfUpdates, Survive, volatile
  <1>7. CASE SetBatchUpdateKeyValue \/ WriteKeyBatch \/ LogMetaPersist
    BY <1>0, <1>1, <1>7 DEF SetBatchUpdateKeyValue, WriteKeyBatch, LogMetaPersist, Survive, volatile
  <1>w. CASE WriteKeyBatchFails \/ GCGreedyInVain
    BY <1>0, <1>1, <1>w DEF WriteKeyBatchFails, GCGreedyInVain, Survive, volatile
  <1>8. CASE SetBatchGCKeyValue \/ FinishFlush \/ AckBeforeGC \/ FinishGC
    BY <1>0, <1>1, <1>8 DEF SetBatchGCKeyValue, FinishFlush, AckBeforeGC, FinishGC, Survive
  <1>9. ASSUME NEW s \in Segment, WriteSegment(s) PROVE Survive'
    BY <1>0, <1>1, <1>9 DEF WriteSegment, Survive
  <1>10. ~ Crash /\ ~ Recover  BY DEF Crash, Recover
  <1> QED  BY <1>2, <1>3, <1>4, <1>5, <1>6, <1>7, <1>w, <1>8, <1>9, <1>10 DEF Next

(* A batch that the LSM-tree refuses spoils the groups of its keys; those   *)
(* of the other groups are where they were.                                 *)
LEMMA RefusedBatch ==
  ASSUME IInv, Bounds, FInv, CInv, WriteKeyBatchFails
  PROVE  /\ Sound' \subseteq Sound /\ Where' = Where
         /\ \A k \in Key : Hash[k] \in Sound' => Where[k] = lsm[k]
  <1>0. lsm \in [Key -> Loc \cup {Nowhere}] /\ batch \in Seq(KeyLoc)  BY DEF Bounds, Locations
  <1>1. /\ torn' = torn \cup {Hash[batch[i].key] : i \in DOMAIN batch}
        /\ UNCHANGED <<lsm, batch>>
    BY DEF WriteKeyBatchFails, volatile, durable
  <1>2. Sound' \subseteq Sound /\ Where' = Where  BY <1>1 DEF Sound, Where
  <1>3. ASSUME NEW k \in Key, Hash[k] \in Sound' PROVE Where[k] = lsm[k]
    <2>1. \A i \in DOMAIN batch : batch[i].key # k  BY <1>1, <1>3 DEF Sound
    <2> QED  BY <1>0, <2>1, LocatedMore DEF Where
  <1> QED  BY <1>2, <1>3

LEMMA LoggedKept ==
  ASSUME IInv, Bounds, FInv, CInv, pc # "down", Next, pc' # "down"
  PROVE  Logged'
  <1>0. /\ Logged /\ Survive /\ Course /\ Phases /\ batch \in Seq(KeyLoc)
    BY CFacts, FFacts DEF Bounds, Locations
  <1>1. ASSUME batch' = <<>>, unwritten' = {}, lsm' = lsm PROVE Logged'
    <2>1. lsm \in [Key -> Loc \cup {Nowhere}]  BY DEF Bounds, Locations
    <2>2. Where' = Located(lsm, <<>>) /\ <<>> \in Seq(KeyLoc)  BY <1>1 DEF Where
    <2>3. Where' = lsm  BY <2>1, <2>2, LocatedMore
    <2>4. \A i \in DOMAIN batch' : FALSE  BY <1>1
    <2> QED  BY <1>1, <2>3, <2>4 DEF Logged
  <1>2. ASSUME batch' = batch, unwritten' = {}, modified \subseteq modified', torn' = torn,
               pc' \in {"flush", "log"}
        PROVE  Logged'
    <2>1. Sound' = Sound  BY <1>2 DEF Sound
    <2>2. \A i \in DOMAIN batch' : Hash[batch'[i].key] \in Sound' => Hash[batch'[i].key] \in modified'
      BY <1>0, <1>2, <2>1 DEF Logged
    <2> QED  BY <1>2, <2>2 DEF Logged
  <1>3. ASSUME NEW k \in Key, NEW s \in Sizes[k], Put(k, s) \/ FlushBeforeWrite(k, s) PROVE Logged'
    <2>1. pc = "idle" /\ UNCHANGED <<batch, unwritten, lsm>>
      BY <1>3 DEF Put, FlushBeforeWrite, durable
    <2> QED  BY <1>0, <1>1, <2>1 DEF Course
  <1>4. ASSUME NEW g \in Group, PickGroup(g) PROVE Logged'
    <2>1. /\ pc = "flush" /\ pc' = "flush" /\ batch' = batch /\ unwritten' = unwritten /\ torn' = torn
          /\ modified \subseteq modified'
      BY <1>4 DEF PickGroup, history
    <2> QED  BY <1>0, <1>2, <2>1 DEF Course
  <1>5. CASE LeaveGroup \/ ReservedOverflow \/ EndOfUpdates
    <2>1. /\ pc = "flush" /\ pc' \in {"flush", "log"} /\ batch' = batch /\ unwritten' = unwritten
          /\ torn' = torn /\ modified' = modified
      BY <1>5 DEF LeaveGroup, ReservedOverflow, EndOfUpdates, volatile, history
    <2> QED  BY <1>0, <1>2, <2>1 DEF Course
  <1>6. ASSUME NEW g \in Group, GCOneGroup(g) PROVE Logged'
    <2>1. pc = "gc" /\ UNCHANGED <<batch, unwritten, lsm>>  BY <1>6 DEF GCOneGroup, durable
    <2> QED  BY <1>0, <1>1, <2>1 DEF Course
  <1>7. CASE FinishFlush \/ AckBeforeGC \/ FinishGC
    <2>1. pc = "ack" /\ batch' = <<>> /\ unwritten' = unwritten /\ lsm' = lsm
      BY <1>7 DEF FinishFlush, AckBeforeGC, FinishGC, ForgetBatch
    <2> QED  BY <1>0, <1>1, <2>1 DEF Course
  <1>8. CASE FlushRecord
    <2> DEFINE r == pool[NextUpdate(cur)]
               p == Place(meta, cur, curFront, r.size)
               e == [key |-> r.key, loc |-> p.loc]
    <2>1. /\ pc = "flush" /\ pc' = "flush" /\ cur # None /\ batch' = Append(batch, e)
          /\ UNCHANGED <<unwritten, torn, modified>>
      BY <1>8 DEF FlushRecord, history
    <2>2. Hash[r.key] = cur /\ cur \in Group /\ victim = None  BY <1>8, FlushRecordPlace
    <2>3. cur \in modified  BY <1>0, <2>1, <2>2 DEF Course, Flushing
    <2>4. e.key = r.key  OBVIOUS
    <2> HIDE DEF e, r, p
    <2>5. \A i \in DOMAIN batch' : (i \in DOMAIN batch /\ batch'[i] = batch[i]) \/ batch'[i] = e
      BY <1>0, <2>1
    <2>6. unwritten' = {}  BY <1>0, <2>1 DEF Course
    <2>7. Sound' = Sound  BY <2>1 DEF Sound
    <2>8. \A i \in DOMAIN batch' : Hash[batch'[i].key] \in Sound' => Hash[batch'[i].key] \in modified'
      BY <1>0, <2>1, <2>2, <2>3, <2>4, <2>5, <2>7 DEF Logged
    <2> QED  BY <2>1, <2>6, <2>8 DEF Logged
  <1>9. ASSUME NEW r \in survivors, RewriteRecord(r) PROVE Logged'
    <2> DEFINE p == Place(meta, victim, curFront, r.size)
               e == [key |-> r.key, loc |-> p.loc]
               v == [rec |-> r, loc |-> p.loc]
    <2>1. /\ pc = "rewrite" /\ pc' = "rewrite" /\ batch' = Append(batch, e) /\ meta' = p.meta
          /\ unwritten' = unwritten \cup {v} /\ UNCHANGED <<torn, modified, victim>>
      BY <1>9 DEF RewriteRecord, history
    <2>2. e.key = r.key /\ e.loc = p.loc /\ v.loc = p.loc  OBVIOUS
    <2>3. ToSet(p.meta.segs[victim]) = ToSet(meta.segs[victim]) \cup {p.loc.seg}
      <3>1. /\ victim \in Group /\ meta.segs[victim] # <<>> /\ Own(meta) /\ MetaFits(meta)
            /\ curFront \in Nat /\ curFront <= Room(meta.segs[victim])
            /\ r.size \in 1..LogSize /\ CanPlace(meta, victim, curFront, r.size)
        BY <1>9, RewritePlace
      <3>2. Grown(p.meta.segs[victim], meta.segs[victim], p.loc.seg)  BY <3>1, PlaceEffects
      <3> QED  BY <3>2 DEF Grown
    <2>4. victim # None /\ modified = {victim}  BY <1>0, <2>1 DEF Phases
    <2> HIDE DEF e, p, v
    <2>5. \A i \in DOMAIN batch' : (i \in DOMAIN batch /\ batch'[i] = batch[i]) \/ batch'[i] = e
      BY <1>0, <2>1
    <2>6. \A i \in DOMAIN batch : i \in DOMAIN batch' /\ batch'[i] = batch[i]  BY <1>0, <2>1
    <2>7. \E i \in DOMAIN batch' : batch'[i] = e
      <3>1. Len(batch) + 1 \in DOMAIN batch' /\ batch'[Len(batch) + 1] = e  BY <1>0, <2>1
      <3> QED  BY <3>1
    <2>8. Sound' = Sound  BY <2>1 DEF Sound
    <2>9. \A i \in DOMAIN batch' : Hash[batch'[i].key] \in Sound' => Hash[batch'[i].key] \in modified'
      BY <1>0, <2>1, <2>2, <2>4, <2>5, <2>8 DEF Logged, Survive
    <2>10. \A u \in unwritten' : \E i \in DOMAIN batch' : batch'[i].loc = u.loc
      BY <1>0, <2>1, <2>2, <2>6, <2>7 DEF Logged
    <2>11. \A u \in unwritten' : victim' # None /\ u.loc.seg \in ToSet(meta'.segs[victim'])
      BY <1>0, <2>1, <2>2, <2>3, <2>4 DEF Logged
    <2> QED  BY <2>1, <2>9, <2>10, <2>11 DEF Logged
  <1>10. CASE SetBatchUpdateKeyValue
    <2>1. /\ pc = "log" /\ pc' = "keys" /\ UNCHANGED <<batch, unwritten, torn, modified>>
          /\ updateLog' = IF batch = <<>> THEN NoLog
                          ELSE [keys |-> batch, groups |-> GroupsOf(meta, modified)]
      BY <1>10 DEF SetBatchUpdateKeyValue, volatile
    <2>2. unwritten' = {} /\ Sound' = Sound  BY <1>0, <2>1 DEF Course, Sound
    <2>3. batch # <<>> => updateLog' # NoLog
      <3>1. NoLog.keys = <<>>  BY DEF NoLog
      <3>2. batch # <<>> => updateLog'.keys = batch  BY <2>1
      <3> QED  BY <3>1, <3>2
    <2>4. \A i \in DOMAIN batch' : Hash[batch'[i].key] \in Sound' => Hash[batch'[i].key] \in modified'
      BY <1>0, <2>1, <2>2 DEF Logged
    <2> QED  BY <2>1, <2>2, <2>3, <2>4 DEF Logged
  <1>11. CASE WriteKeyBatch
    <2>1. /\ pc = "keys" /\ pc' = "meta" /\ UNCHANGED <<batch, unwritten, torn, modified, victim, updateLog>>
          /\ lsm' = Located(lsm, batch)
      BY <1>11 DEF WriteKeyBatch, volatile, history
    <2>2. unwritten' = {} /\ Sound' = Sound  BY <1>0, <2>1 DEF Course, Sound
    <2>3. lsm' = Where'
      <3>1. lsm \in [Key -> Loc \cup {Nowhere}]  BY DEF Bounds, Locations
      <3>2. Located(Located(lsm, batch), batch) = Located(lsm, batch)  BY <1>0, <3>1, LocatedMore
      <3> QED  BY <2>1, <3>2 DEF Where
    <2>4. \A i \in DOMAIN batch' : Hash[batch'[i].key] \in Sound' => Hash[batch'[i].key] \in modified'
      BY <1>0, <2>1, <2>2 DEF Logged
    <2>5. victim = None /\ batch # <<>> => updateLog # NoLog  BY <1>0, <2>1 DEF Logged
    <2> QED  BY <2>1, <2>2, <2>3, <2>4, <2>5 DEF Logged
  <1>w. CASE WriteKeyBatchFails
    <2>1. /\ pc = "keys" /\ pc' = "meta"
          /\ UNCHANGED <<batch, unwritten, modified, victim, updateLog, lsm>>
      BY <1>w DEF WriteKeyBatchFails, volatile, durable
    <2>2. unwritten' = {}  BY <1>0, <2>1 DEF Course
    <2>3. /\ Sound' \subseteq Sound
          /\ \A k \in Key : Hash[k] \in Sound' => lsm'[k] = Where'[k]
      BY <1>w, <2>1, RefusedBatch
    <2>4. \A i \in DOMAIN batch' : Hash[batch'[i].key] \in Sound' => Hash[batch'[i].key] \in modified'
      BY <1>0, <2>1, <2>3 DEF Logged
    <2>5. victim = None /\ batch # <<>> => updateLog # NoLog  BY <1>0, <2>1 DEF Logged
    <2> QED  BY <2>1, <2>2, <2>3, <2>4, <2>5 DEF Logged
  <1>v. CASE GCGreedyInVain
    <2>1. pc = "gc" /\ UNCHANGED <<batch, unwritten, lsm>>  BY <1>v DEF GCGreedyInVain, durable
    <2> QED  BY <1>0, <1>1, <2>1 DEF Course
  <1>12. CASE LogMetaPersist
    <2>1. /\ pc = "meta" /\ pc' = "ack" /\ UNCHANGED <<batch, unwritten, torn, modified, victim, updateLog, lsm>>
      BY <1>12 DEF LogMetaPersist, volatile
    <2>2. unwritten' = {} /\ Sound' = Sound /\ Where' = Where  BY <1>0, <2>1 DEF Course, Sound, Where
    <2>3. victim = None /\ batch # <<>> => updateLog # NoLog  BY <1>0, <2>1 DEF Logged
    <2>4. \A k \in Key : Hash[k] \in Sound => lsm[k] = Where[k]  BY <1>0, <2>1 DEF Logged
    <2>5. \A i \in DOMAIN batch' : Hash[batch'[i].key] \in Sound' => Hash[batch'[i].key] \in modified'
      BY <1>0, <2>1, <2>2 DEF Logged
    <2> QED  BY <2>1, <2>2, <2>3, <2>4, <2>5 DEF Logged
  <1>13. CASE SetBatchGCKeyValue
    <2>1. /\ pc = "rewrite" /\ pc' = "gcdata" /\ UNCHANGED <<batch, unwritten, torn, modified, victim>>
          /\ meta' = [meta EXCEPT !.front[victim] = curFront]
      BY <1>13 DEF SetBatchGCKeyValue, history
    <2>2. meta'.segs = meta.segs /\ Sound' = Sound
      <3>1. Own(meta)  BY FFacts
      <3> QED  BY <2>1, <3>1 DEF Own, Sound
    <2>3. \A i \in DOMAIN batch' : Hash[batch'[i].key] \in Sound' => Hash[batch'[i].key] \in modified'
      BY <1>0, <2>1, <2>2 DEF Logged
    <2>4. /\ \A u \in unwritten' : \E i \in DOMAIN batch' : batch'[i].loc = u.loc
          /\ \A u \in unwritten' : victim' # None /\ u.loc.seg \in ToSet(meta'.segs[victim'])
      BY <1>0, <2>1, <2>2 DEF Logged
    <2> QED  BY <2>1, <2>3, <2>4 DEF Logged
  <1>14. ASSUME NEW s \in Segment, WriteSegment(s) PROVE Logged'
    <2>1. /\ pc = "gcdata" /\ pc' \in {"keys", "gcdata"} /\ UNCHANGED <<batch, torn, modified, victim, meta>>
          /\ unwritten' \subseteq unwritten
      BY <1>14 DEF WriteSegment, history
    <2>2. victim # None /\ Sound' = Sound  BY <1>0, <2>1 DEF Phases, Sound
    <2>3. \A i \in DOMAIN batch' : Hash[batch'[i].key] \in Sound' => Hash[batch'[i].key] \in modified'
      BY <1>0, <2>1, <2>2 DEF Logged
    <2>4. /\ \A u \in unwritten' : \E i \in DOMAIN batch' : batch'[i].loc = u.loc
          /\ \A u \in unwritten' : victim' # None /\ u.loc.seg \in ToSet(meta'.segs[victim'])
      BY <1>0, <2>1 DEF Logged
    <2> QED  BY <2>1, <2>2, <2>3, <2>4 DEF Logged
  <1>15. ~ Crash /\ ~ Recover  BY DEF Crash, Recover
  <1> QED  BY <1>3, <1>4, <1>5, <1>6, <1>7, <1>8, <1>9, <1>10, <1>11, <1>w, <1>v, <1>12, <1>13,
              <1>14, <1>15 DEF Next

----------------------------------------------------------------------------
(* Memory                                                                   *)

\* a step that leaves segments, records and locations as a read finds them
Steady ==
  /\ torn \subseteq torn' /\ survivors' = survivors /\ Image' = Image
  /\ \A k \in Key : Hash[k] \in Sound' => Where'[k] = Where[k]
  /\ meta'.segs = meta.segs /\ meta'.segFront = meta.segFront
  /\ \A g : NotBegun(g)' <=> NotBegun(g)
  /\ UNCHANGED <<pool, pending, latest, flushed>> \/ FinishFlush

LEMMA SteadySteps ==
  ASSUME IInv, Bounds, FInv, CInv, pc # "down", Next, pc' # "down"
  PROVE  \/ Steady
         \/ \E k \in Key : \E s \in Sizes[k] : Put(k, s) \/ FlushBeforeWrite(k, s)
         \/ \E g \in Group : GCOneGroup(g)
         \/ \E r \in survivors : RewriteRecord(r)
         \/ FlushRecord
  <1>0. Own(meta) /\ Logged /\ Phases /\ Survive  BY FFacts, CFacts
  <1>1. ASSUME pc \notin {"rewrite", "gcdata"}, pc' \notin {"rewrite", "gcdata"}
        PROVE  \A g : NotBegun(g)' <=> NotBegun(g)
    BY <1>1 DEF NotBegun
  <1>2. ASSUME UNCHANGED <<disk, unwritten>> PROVE Image' = Image
    BY <1>2 DEF Image
  <1>3. ASSUME UNCHANGED <<lsm, batch>> PROVE Where' = Where
    BY <1>3 DEF Where
  <1>4. ASSUME NEW g \in Group, PickGroup(g) PROVE Steady
    <2>1. /\ pc = "flush" /\ pc' = "flush"
          /\ UNCHANGED <<torn, survivors, disk, unwritten, lsm, batch, meta, pool, pending, latest, flushed>>
      BY <1>4 DEF PickGroup, history, durable
    <2> QED  BY <1>1, <1>2, <1>3, <2>1 DEF Steady
  <1>5. CASE ReservedOverflow \/ EndOfUpdates \/ SetBatchUpdateKeyValue \/ LogMetaPersist
    <2>1. /\ pc \notin {"rewrite", "gcdata"} /\ pc' \notin {"rewrite", "gcdata"}
          /\ UNCHANGED <<torn, survivors, disk, unwritten, lsm, batch, meta, pool, pending, latest, flushed>>
      <3>1. CASE ReservedOverflow  BY <3>1 DEF ReservedOverflow, history, durable
      <3>2. CASE EndOfUpdates  BY <3>2 DEF EndOfUpdates, history, durable, volatile
      <3>3. CASE SetBatchUpdateKeyValue  BY <3>3 DEF SetBatchUpdateKeyValue, volatile
      <3>4. CASE LogMetaPersist  BY <3>4 DEF LogMetaPersist, volatile
      <3> QED  BY <1>5, <3>1, <3>2, <3>3, <3>4
    <2> QED  BY <1>1, <1>2, <1>3, <2>1 DEF Steady
  <1>6. CASE LeaveGroup
    <2>1. /\ pc = "flush" /\ pc' = "flush" /\ meta' = [meta EXCEPT !.front[cur] = curFront]
          /\ UNCHANGED <<torn, survivors, disk, unwritten, lsm, batch, pool, pending, latest, flushed>>
      BY <1>6 DEF LeaveGroup, history, durable
    <2>2. meta'.segs = meta.segs /\ meta'.segFront = meta.segFront  BY <1>0, <2>1 DEF Own
    <2> QED  BY <1>1, <1>2, <1>3, <2>1, <2>2 DEF Steady
  <1>7. CASE WriteKeyBatch
    <2>1. /\ pc = "keys" /\ pc' = "meta" /\ lsm' = Located(lsm, batch)
          /\ UNCHANGED <<torn, survivors, disk, unwritten, batch, meta, pool, pending, latest, flushed>>
      BY <1>7 DEF WriteKeyBatch, history, volatile
    <2>2. Where' = Where
      <3>1. lsm \in [Key -> Loc \cup {Nowhere}] /\ batch \in Seq(KeyLoc)  BY DEF Bounds, Locations
      <3> QED  BY <2>1, <3>1, LocatedMore DEF Where
    <2> QED  BY <1>1, <1>2, <2>1, <2>2 DEF Steady
  <1>w. CASE WriteKeyBatchFails
    <2>1. /\ pc = "keys" /\ pc' = "meta" /\ torn \subseteq torn'
          /\ UNCHANGED <<survivors, disk, unwritten, meta, pool, pending, latest, flushed>>
      BY <1>w DEF WriteKeyBatchFails, durable, volatile
    <2>2. Where' = Where  BY <1>w, RefusedBatch
    <2> QED  BY <1>1, <1>2, <2>1, <2>2 DEF Steady
  <1>v. CASE GCGreedyInVain
    <2>1. /\ pc = "gc" /\ pc' = "gc"
          /\ UNCHANGED <<torn, survivors, disk, unwritten, lsm, batch, meta, pool, pending, latest, flushed>>
      BY <1>v DEF GCGreedyInVain, durable, history
    <2> QED  BY <1>1, <1>2, <1>3, <2>1 DEF Steady
  <1>8. CASE FinishFlush \/ AckBeforeGC \/ FinishGC
    <2>1. /\ pc = "ack" /\ pc' \notin {"rewrite", "gcdata"} /\ batch' = <<>>
          /\ UNCHANGED <<torn, survivors, disk, unwritten, lsm>>
          /\ meta' = meta \/ meta' = [meta EXCEPT !.front[cur] = curFront]
          /\ UNCHANGED <<pool, pending, latest, flushed>> \/ FinishFlush
      <3>1. CASE FinishFlush  BY <3>1 DEF FinishFlush, ForgetBatch
      <3>2. CASE AckBeforeGC  BY <3>2 DEF AckBeforeGC, ForgetBatch, history
      <3>3. CASE FinishGC  BY <3>3 DEF FinishGC, ForgetBatch, history
      <3> QED  BY <1>8, <3>1, <3>2, <3>3
    <2>2. meta'.segs = meta.segs /\ meta'.segFront = meta.segFront  BY <1>0, <2>1 DEF Own
    <2>3. \A k \in Key : Hash[k] \in Sound' => lsm[k] = Where[k]  BY <1>0, <2>1 DEF Logged, Sound
    <2>4. Where' = lsm
      <3>1. lsm \in [Key -> Loc \cup {Nowhere}] /\ <<>> \in Seq(KeyLoc)  BY DEF Bounds, Locations
      <3>2. Where' = Located(lsm, <<>>)  BY <2>1 DEF Where
      <3> QED  BY <3>1, <3>2, LocatedMore
    <2> QED  BY <1>1, <1>2, <2>1, <2>2, <2>3, <2>4 DEF Steady
  <1>9. CASE SetBatchGCKeyValue
    <2>1. /\ pc = "rewrite" /\ pc' = "gcdata" /\ meta' = [meta EXCEPT !.front[victim] = curFront]
          /\ UNCHANGED <<torn, survivors, disk, unwritten, lsm, batch, pool, pending, latest, flushed,
                         victim, touched, cur, curFront>>
      BY <1>9 DEF SetBatchGCKeyValue, history
    <2>2. /\ meta'.segs = meta.segs /\ meta'.segFront = meta.segFront
          /\ meta'.front = [meta.front EXCEPT ![victim] = curFront]
      BY <1>0, <2>1 DEF Own
    <2>3. victim \in Group /\ victim # None  BY <1>0, <2>1, FFacts DEF Phases, Buffer
    <2>4. DOMAIN meta.front = Group  BY FFacts DEF MetaFits
    <2>5. meta'.front[victim] = curFront  BY <2>2, <2>3, <2>4
    <2>6. FrontNow(victim) = curFront /\ meta'.front[victim'] = curFront  BY <2>1, <2>5 DEF FrontNow
    <2>7. ASSUME NEW g, g = victim PROVE FrontNow(g)' = FrontNow(g)
      <3>1. ~ Flushing'  BY <2>1, <2>3 DEF Flushing
      <3>2. FrontNow(g)' = meta'.front[g]  BY <2>1, <3>1 DEF FrontNow
      <3> QED  BY <2>5, <2>6, <2>7, <3>2
    <2>8. ASSUME NEW g PROVE NotBegun(g)' <=> NotBegun(g)
      <3>1. CASE g = victim
        <4>1. FrontNow(g)' = FrontNow(g)  BY <2>7, <3>1
        <4> QED  BY <2>1, <2>2, <4>1 DEF NotBegun
      <3>2. CASE g # victim  BY <2>1, <3>2 DEF NotBegun
      <3> QED  BY <3>1, <3>2
    <2> QED  BY <1>2, <1>3, <2>1, <2>2, <2>8 DEF Steady
  <1>10. ASSUME NEW s \in Segment, WriteSegment(s) PROVE Steady
    <2>1. /\ pc = "gcdata" /\ {u \in unwritten : u.loc.seg = s} # {}
          /\ pc' = IF unwritten' = {} THEN "keys" ELSE "gcdata"
          /\ UNCHANGED <<torn, survivors, lsm, batch, meta, pool, pending, latest, flushed>>
      BY <1>10 DEF WriteSegment, history
    <2>2. Image' = Image  BY <1>10, ImageWritten
    <2>3. \A g : ~ NotBegun(g)  BY <2>1 DEF NotBegun
    <2>4. \A g : ~ NotBegun(g)'  BY <2>1 DEF NotBegun
    <2> QED  BY <1>3, <2>1, <2>2, <2>3, <2>4 DEF Steady
  <1>11. ~ Crash /\ ~ Recover  BY DEF Crash, Recover
  <1> QED  BY <1>4, <1>5, <1>6, <1>7, <1>w, <1>v, <1>8, <1>9, <1>10, <1>11 DEF Next

(* A group with nothing in it.                                              *)
LEMMA IndexedEmpty ==
  ASSUME NEW g \in Group, NEW segs, segs \in {<<>>, <<g>>}, NEW F, F[g] = 0, NEW d, Sane(d),
         NEW X, \A k \in Key : Hash[k] = g => X[k] = Nowhere, NEW ex
  PROVE  Indexed(g, segs, F, d, X, ex)
  <1>1. ToSet(<<g>>) = {g} /\ ToSet(<<>>) = {}  BY DEF ToSet
  <1>2. ToSet(segs) \subseteq {g}  BY <1>1
  <1>3. g \in Segment  BY SegmentFacts
  <1>4. \A q \in d[g] : ~ (q.off < F[g])  BY <1>3, KeptTypes DEF Sane
  <1>5. Found(g, segs, F, d, X, ex)  BY DEF Found
  <1>6. Clean(g, segs, F, d, X, ex)  BY <1>2, <1>4 DEF Clean
  <1> QED  BY <1>5, <1>6 DEF Indexed

(* A group without segments has no records.                                 *)
LEMMA EmptyNowhere ==
  ASSUME NEW g, NEW F, NEW d, NEW X, NEW ex, Indexed(g, <<>>, F, d, X, ex)
  PROVE  \A k \in Key : Hash[k] = g /\ k \notin ex => X[k] = Nowhere
  <1>1. ToSet(<<>>) = {}  BY DEF ToSet
  <1> QED  BY <1>1 DEF Indexed, Found

LEMMA MemoryIndexedKept ==
  ASSUME IInv, Bounds, FInv, CInv, pc # "down", Next, pc' # "down"
  PROVE  MemoryIndexed'
  <1>0. /\ MemoryIndexed /\ Survive /\ Course /\ Own(meta) /\ MetaFits(meta) /\ MemoryAligned
        /\ Sane(Image) /\ Sane(disk)
    BY CFacts, FFacts, ImageFacts
  <1>1. CASE Steady
    <2>1. /\ Sound' \subseteq Sound /\ Image' = Image /\ Moving' = Moving
          /\ \A k \in Key : Hash[k] \in Sound' => Where'[k] = Where[k]
          /\ meta'.segs = meta.segs /\ meta'.segFront = meta.segFront
          /\ \A g : NotBegun(g)' <=> NotBegun(g)
      BY <1>1 DEF Steady, Sound, Moving
    <2>2. ASSUME NEW g \in Sound', ~ NotBegun(g)
          PROVE  Indexed(g, meta.segs[g], meta.segFront, Image, Where', Moving)
      <3> DEFINE sg == meta.segs[g]
                 F == meta.segFront
                 ex == Moving
                 X == Where
                 X2 == Where'
      <3>1. g \in Group /\ g \in Sound  BY <2>1 DEF Sound
      <3>2. Indexed(g, sg, F, Image, X, ex) /\ ToSet(sg) \subseteq Segment
        BY <1>0, <2>2, <3>1, ListSegments DEF MemoryIndexed
      <3>3. \A k \in Key : Hash[k] = g => X2[k] = X[k] /\ (k \in ex <=> k \in ex)  BY <2>1
      <3> HIDE DEF sg, F, ex, X, X2
      <3>4. \A s \in ToSet(sg) : F[s] = F[s] /\ Image[s] = Image[s]  OBVIOUS
      <3>5. Indexed(g, sg, F, Image, X2, ex)  BY <1>0, <3>2, <3>3, <3>4, IndexedSame
      <3> QED  BY <3>5 DEF sg, F, ex, X2
    <2>3. ASSUME NEW g \in Sound', NotBegun(g), NEW k \in Key, Hash[k] = g
          PROVE  k \in Moving \/ Where'[k] = Nowhere
      BY <1>0, <2>1, <2>3 DEF MemoryIndexed
    <2> QED  BY <2>1, <2>2, <2>3 DEF MemoryIndexed
  <1>2. CASE FlushRecord
    <2> DEFINE r == pool[NextUpdate(cur)]
               p == Place(meta, cur, curFront, r.size)
    <2>1. cur \in Group /\ r \in Rec /\ p.loc \in Loc /\ Stores(cur, r, p.loc)
      BY <1>2, FlushRecordStores
    <2> QED  BY <2>1, StoresIndexed
  <1>3. ASSUME NEW r \in survivors, RewriteRecord(r) PROVE MemoryIndexed'
    <2> DEFINE p == Place(meta, victim, curFront, r.size)
    <2>1. victim \in Group /\ r \in Rec /\ p.loc \in Loc /\ Stores(victim, r, p.loc)
      BY <1>3, RewriteRecordStores
    <2> QED  BY <2>1, StoresIndexed
  <1>4. ASSUME NEW k \in Key, NEW s \in Sizes[k], Put(k, s) \/ FlushBeforeWrite(k, s)
        PROVE  MemoryIndexed'
    <2>1. /\ pc = "idle" /\ pc' \in {"idle", "flush"} /\ meta' = GetNewMainSegment(meta, Hash[k])
          /\ UNCHANGED <<torn, survivors, disk, unwritten, lsm, batch>>
      BY <1>4 DEF Put, FlushBeforeWrite, durable, history
    <2>2. /\ Sound' = Sound /\ Image' = Image /\ Where' = Where /\ Moving' = Moving
          /\ \A g : ~ NotBegun(g)' /\ ~ NotBegun(g)
      BY <2>1 DEF Sound, Image, Where, Moving, NotBegun
    <2>3. Hash[k] \in Group  BY HashKVAssumption
    <2>4. /\ meta'.segFront = meta.segFront
          /\ \A h \in Group : h # Hash[k] \/ meta.segs[h] # <<>> => meta'.segs[h] = meta.segs[h]
          /\ meta.segs[Hash[k]] = <<>> => meta'.segs[Hash[k]] = <<Hash[k]>>
      BY <1>0, <2>1, <2>3, NewMainParts
    <2>5. ASSUME NEW g \in Sound
          PROVE  Indexed(g, meta'.segs[g], meta.segFront, Image, Where, Moving)
      <3>0. g \in Group  BY DEF Sound
      <3>1. Indexed(g, meta.segs[g], meta.segFront, Image, Where, Moving)
        BY <1>0, <2>2 DEF MemoryIndexed
      <3>2. CASE meta'.segs[g] = meta.segs[g]  BY <3>1, <3>2
      <3>3. CASE g = Hash[k] /\ meta.segs[g] = <<>>
        <4>1. meta'.segs[g] = <<g>>  BY <2>4, <3>3
        <4>2. meta.segFront[g] = 0
          <5>1. Aligned(FrontNow(g), meta.segs[g], meta.segFront, g)  BY <1>0, <2>2 DEF MemoryAligned
          <5> QED  BY <3>3, <5>1 DEF Aligned
        <4>3. Moving = {}  BY <2>1, Quiescent
        <4>4. \A x \in Key : Hash[x] = g /\ x \notin Moving => Where[x] = Nowhere
          BY <3>1, <3>3, EmptyNowhere
        <4>5. \A x \in Key : Hash[x] = g => Where[x] = Nowhere  BY <4>3, <4>4
        <4> QED  BY <1>0, <3>0, <4>1, <4>2, <4>5, IndexedEmpty
      <3> QED  BY <2>4, <3>0, <3>2, <3>3
    <2> QED  BY <2>2, <2>4, <2>5 DEF MemoryIndexed
  <1>5. ASSUME NEW g \in Group, GCOneGroup(g) PROVE MemoryIndexed'
    <2>1. /\ pc = "gc" /\ pc' = "rewrite" /\ survivors' = KeyCount(Scan(g)) /\ victim' = g
          /\ torn' = torn \cup Revived(g, survivors') /\ meta' = ReleaseGroup(meta, g)
          /\ UNCHANGED <<disk, unwritten, lsm, batch>>
      BY <1>5 DEF GCOneGroup, durable
    <2>2. Image' = Image /\ Where' = Where /\ Sound' \subseteq Sound
      BY <2>1 DEF Image, Where, Sound
    <2>3. /\ Moving = {} /\ Image = disk /\ Where = lsm
          /\ \A h \in Sound : Indexed(h, meta.segs[h], meta.segFront, disk, lsm, {})
      BY <2>1, Quiescent
    <2>4. NotBegun(g)'  BY <1>5, GCBegins
    <2>5. Survive'  BY SurviveKept
    <2>6. ASSUME g \in Sound'
          PROVE  \A k \in Key : Hash[k] = g => k \in Moving' \/ Where'[k] = Nowhere
      <3>1. g \in Sound  BY <2>2, <2>6
      <3>2. \A k \in Key : Hash[k] = g /\ lsm[k] # Nowhere => \E r \in survivors' : r.key = k
        BY <2>1, <3>1, KeptLatest
      <3> QED  BY <2>2, <2>3, <3>2 DEF Moving
    <2>7. ASSUME NEW h \in Sound', h # g
          PROVE  Indexed(h, meta'.segs[h], meta'.segFront, Image', Where', Moving')
      <3>0. h \in Group /\ h \in Sound  BY <2>2 DEF Sound
      <3>1. /\ meta'.segs[h] = meta.segs[h]
            /\ \A s \in ToSet(meta.segs[h]) : meta'.segFront[s] = meta.segFront[s]
        BY <1>0, <2>1, <2>7, <3>0, ReleaseParts
      <3>2. Indexed(h, meta.segs[h], meta.segFront, disk, lsm, {})  BY <2>3, <3>0
      <3>3. ToSet(meta.segs[h]) \subseteq Segment  BY <3>0, ListSegments
      <3>4. \A k \in Key : Hash[k] = h => k \notin Moving'
        BY <2>1, <2>5, <2>7 DEF Survive, Moving
      <3> DEFINE F2 == meta'.segFront
                 d2 == Image'
                 X2 == Where'
                 ex == {}
                 ex2 == Moving'
                 F == meta.segFront
                 sg == meta.segs[h]
      <3>5. \A s \in ToSet(sg) : F2[s] = F[s] /\ d2[s] = disk[s]  BY <2>2, <2>3, <3>1
      <3>6. \A k \in Key : Hash[k] = h => X2[k] = lsm[k] /\ (k \in ex2 <=> k \in ex)
        BY <2>2, <2>3, <3>4
      <3>7. Indexed(h, sg, F, disk, lsm, ex) /\ ToSet(sg) \subseteq Segment  BY <3>2, <3>3
      <3> HIDE DEF F2, d2, X2, ex, ex2, F, sg
      <3>8. Indexed(h, sg, F2, d2, X2, ex2)  BY <1>0, <3>5, <3>6, <3>7, IndexedSame
      <3> QED  BY <3>1, <3>8 DEF F2, d2, X2, ex2, sg
    <2>8. \A h : h # g => ~ NotBegun(h)'  BY <2>1 DEF NotBegun
    <2> QED  BY <2>4, <2>6, <2>7, <2>8 DEF MemoryIndexed
  <1> QED  BY <1>1, <1>2, <1>3, <1>4, <1>5, SteadySteps

LEMMA ValuesKept ==
  ASSUME IInv, Bounds, FInv, CInv, pc # "down", Next, pc' # "down"
  PROVE  Values'
  <1>0. /\ Values /\ Survive /\ Counted /\ PoolNewest /\ Buffer /\ Phases /\ Course
    BY CFacts, FFacts
  <1>1. /\ pool \in Seq(Entry) /\ pending \subseteq DOMAIN pool /\ DOMAIN pool \subseteq Nat
        /\ pending \subseteq Nat /\ puts \in Nat
    <2>1. pool \in Seq(Entry) /\ pending \subseteq DOMAIN pool /\ puts \in Nat  BY <1>0 DEF Buffer
    <2>2. DOMAIN pool \subseteq Nat  BY <2>1
    <2> QED  BY <2>1, <2>2
  <1>2. CASE Steady /\ UNCHANGED <<pool, pending, latest, flushed>>
    <2>1. /\ Sound' \subseteq Sound /\ Image' = Image /\ Moving' = Moving
          /\ \A k \in Key : Hash[k] \in Sound' => Where'[k] = Where[k]
          /\ UNCHANGED <<pool, pending, latest, flushed>>
      BY <1>2 DEF Steady, Sound, Moving
    <2>2. \A k : Unflushed(k)' <=> Unflushed(k)  BY <2>1 DEF Unflushed
    <2> QED  BY <1>0, <2>1, <2>2 DEF Values
  <1>3. CASE Steady /\ FinishFlush
    <2>1. /\ Sound' \subseteq Sound /\ Image' = Image /\ Moving' = Moving
          /\ \A k \in Key : Hash[k] \in Sound' => Where'[k] = Where[k]
          /\ pending' = pending /\ latest' = latest /\ pc = "ack" /\ victim = None /\ cur = None
          /\ flushed' = [k \in Key |-> IF InPool(k) # 0 THEN latest[k] ELSE flushed[k]]
      BY <1>3 DEF Steady, Sound, Moving, FinishFlush
    <2>2. pending = {} /\ survivors = {}  BY <1>0, <2>1 DEF Phases, Survive
    <2>3. \A k : ~ Unflushed(k) /\ ~ Unflushed(k)'  BY <2>1, <2>2 DEF Unflushed
    <2>4. Moving = {}  BY <2>2 DEF Moving
    <2>5. ASSUME NEW k \in Key, Hash[k] \in Sound
          PROVE  /\ flushed'[k] <= latest[k] /\ ReadDisk(Image, k, Where[k]) = latest[k]
                 /\ ReadDisk(Image, k, Where[k]) >= flushed'[k]
      <3>1. flushed[k] <= latest[k] /\ ReadDisk(Image, k, Where[k]) = latest[k]
        BY <1>0, <2>3, <2>4, <2>5 DEF Values
      <3>2. flushed[k] \in Int /\ latest[k] \in Int  BY <1>0 DEF Counted
      <3>3. flushed'[k] = latest[k] \/ flushed'[k] = flushed[k]  BY <2>1
      <3> QED  BY <3>1, <3>2, <3>3
    <2> QED  BY <2>1, <2>5 DEF Values
  <1>4. CASE FlushRecord
    <2>a. PICK n : n = NextUpdate(cur)  OBVIOUS
    <2>b. PICK r : r = pool[n]  OBVIOUS
    <2>c. PICK l : l = Place(meta, cur, curFront, r.size).loc  OBVIOUS
    <2>1. cur \in Group /\ r \in Rec /\ l \in Loc /\ Stores(cur, r, l)
      <3>1. r = pool[NextUpdate(cur)]  BY <2>a, <2>b
      <3> DEFINE p == Place(meta, cur, curFront, r.size)
      <3>2. cur \in Group /\ r \in Rec /\ p.loc \in Loc /\ Stores(cur, r, p.loc)
        BY <1>4, <3>1, FlushRecordStores
      <3> QED  BY <2>c, <3>2
    <2>2. pool' = pool /\ pending' = pending \ {n} /\ PendingOf(cur) # {}
      BY <1>4, <2>a DEF FlushRecord
    <2>3. n \in PendingOf(cur)  BY <1>1, <2>2, <2>a, NextUpdateIn
    <2>4. n \in pending /\ n \in DOMAIN pool /\ n \in Nat  BY <1>1, <2>3 DEF PendingOf
    <2>5. r.val >= flushed[r.key]
      <3>1. flushed[r.key] <= r.val  BY <1>0, <2>4, <2>b DEF PoolNewest
      <3>2. r.val \in Nat /\ r.key \in Key  BY <2>1, RecTypes
      <3>3. flushed[r.key] \in Int  BY <1>0, <3>2 DEF Counted
      <3> QED  BY <3>1, <3>2, <3>3
    <2>6. ASSUME ~ Unflushed(r.key)' PROVE r.val = latest[r.key]
      <3>1. ASSUME NEW j \in DOMAIN pool, j > n, pool[j].key = r.key PROVE FALSE
        <4>1. j \in pending  BY <1>0, <2>4, <2>b, <3>1 DEF PoolNewest
        <4>2. j # n  BY <1>1, <2>4, <3>1
        <4>3. j \in pending'  BY <2>2, <4>1, <4>2
        <4> QED  BY <2>2, <2>6, <3>1, <4>3 DEF Unflushed
      <3> QED  BY <1>0, <2>4, <2>b, <3>1 DEF PoolNewest
    <2>7. \A k \in Key \ {r.key} : Unflushed(k)' <=> Unflushed(k)
      <3> SUFFICES ASSUME NEW k \in Key \ {r.key} PROVE Unflushed(k)' <=> Unflushed(k)  OBVIOUS
      <3>1. Unflushed(k)' <=> \E i \in pending \ {n} : pool[i].key = k  BY <2>2 DEF Unflushed
      <3> QED  BY <2>b, <3>1 DEF Unflushed
    <2>8. ~ Unflushed(r.key)' => r.val = latest[r.key] \/ cur \notin Sound  BY <2>6
    <2> QED  BY <2>1, <2>5, <2>7, <2>8, StoresValues
  <1>5. ASSUME NEW r \in survivors, RewriteRecord(r) PROVE Values'
    <2>a. PICK l : l = Place(meta, victim, curFront, r.size).loc  OBVIOUS
    <2>1. victim \in Group /\ r \in Rec /\ l \in Loc /\ Stores(victim, r, l)
      <3> DEFINE p == Place(meta, victim, curFront, r.size)
      <3>1. victim \in Group /\ r \in Rec /\ p.loc \in Loc /\ Stores(victim, r, p.loc)
        BY <1>5, RewriteRecordStores
      <3> QED  BY <2>a, <3>1
    <2>2. pool' = pool /\ pending' = pending  BY <1>5 DEF RewriteRecord
    <2>3. \A k \in Key \ {r.key} : Unflushed(k)' <=> Unflushed(k)  BY <2>2 DEF Unflushed
    <2>4. r.key \in Key /\ r.val \in Nat  BY <2>1, RecTypes
    <2>5. victim \in Sound => r.val = latest[r.key] /\ Hash[r.key] \in Sound
      BY <1>0 DEF Survive
    <2>6. r.val >= flushed[r.key] \/ victim \notin Sound
      <3>1. victim \in Sound => flushed[r.key] <= latest[r.key]  BY <1>0, <2>4, <2>5 DEF Values
      <3>2. flushed[r.key] \in Int  BY <1>0, <2>4 DEF Counted
      <3> QED  BY <2>4, <2>5, <3>1, <3>2
    <2>7. ~ Unflushed(r.key)' => r.val = latest[r.key] \/ victim \notin Sound  BY <2>5
    <2> QED  BY <2>1, <2>3, <2>6, <2>7, StoresValues
  <1>6. ASSUME NEW k \in Key, NEW s \in Sizes[k], Put(k, s) PROVE Values'
    <2>1. /\ pc = "idle" /\ UNCHANGED <<torn, survivors, disk, unwritten, lsm, batch, flushed>>
          /\ latest' = [latest EXCEPT ![k] = puts + 1]
      BY <1>6 DEF Put, durable
    <2>2. Sound' = Sound /\ Image' = Image /\ Where' = Where /\ Moving' = Moving
      BY <2>1 DEF Sound, Image, Where, Moving
    <2>3. latest'[k] = puts + 1 /\ \A x \in Key \ {k} : latest'[x] = latest[x]
      BY <1>0, <2>1 DEF Counted
    <2>4. PICK i : PutAt(k, i)  BY <1>6, PutPool
    <2>5. /\ i \in pending' /\ pool'[i].key = k
          /\ \A j \in DOMAIN pool \ {i} : j \in pending' /\ pool'[j] = pool[j]
          /\ i \in DOMAIN pool => pool[i].key = k
      BY <2>4 DEF PutAt
    <2>6. Unflushed(k)'  BY <2>5 DEF Unflushed
    <2>7. ASSUME NEW x \in Key \ {k}, Unflushed(x) PROVE Unflushed(x)'
      <3>1. PICK j \in pending : pool[j].key = x  BY <2>7 DEF Unflushed
      <3>2. j # i /\ j \in DOMAIN pool  BY <1>1, <2>5, <3>1
      <3>3. j \in pending' /\ pool'[j].key = x  BY <2>5, <3>1, <3>2
      <3> QED  BY <3>3 DEF Unflushed
    <2>8. \A x \in Key : flushed[x] \in Int /\ flushed[x] <= puts  BY <1>0 DEF Counted
    <2>9. ASSUME NEW x \in Key, Hash[x] \in Sound
          PROVE  /\ flushed[x] <= latest'[x]
                 /\ x \notin Moving =>
                      /\ ReadDisk(Image, x, Where[x]) >= flushed[x]
                      /\ ~ Unflushed(x)' => ReadDisk(Image, x, Where[x]) = latest'[x]
      <3>1. CASE x = k
        <4>1. flushed[x] <= latest'[x]  BY <1>1, <2>3, <2>8, <3>1
        <4>2. x \notin Moving => ReadDisk(Image, x, Where[x]) >= flushed[x]  BY <1>0, <2>9 DEF Values
        <4> QED  BY <2>6, <3>1, <4>1, <4>2
      <3>2. CASE x # k
        <4>1. latest'[x] = latest[x] /\ (~ Unflushed(x)' => ~ Unflushed(x))  BY <2>3, <2>7, <3>2
        <4> QED  BY <1>0, <2>9, <4>1 DEF Values
      <3> QED  BY <3>1, <3>2
    <2> QED  BY <2>1, <2>2, <2>9 DEF Values
  <1>7. ASSUME NEW k \in Key, NEW s \in Sizes[k], FlushBeforeWrite(k, s) PROVE Values'
    <2>1. UNCHANGED <<torn, survivors, disk, unwritten, lsm, batch, pool, pending, latest, flushed>>
      BY <1>7 DEF FlushBeforeWrite, durable, history
    <2>2. Sound' = Sound /\ Image' = Image /\ Where' = Where /\ Moving' = Moving
      BY <2>1 DEF Sound, Image, Where, Moving
    <2>3. \A x : Unflushed(x)' <=> Unflushed(x)  BY <2>1 DEF Unflushed
    <2> QED  BY <1>0, <2>1, <2>2, <2>3 DEF Values
  <1>8. ASSUME NEW g \in Group, GCOneGroup(g) PROVE Values'
    <2>1. /\ pc = "gc" /\ survivors' = KeyCount(Scan(g)) /\ pending' = pending \ PendingOf(g)
          /\ torn' = torn \cup Revived(g, survivors')
          /\ UNCHANGED <<disk, unwritten, lsm, batch, pool, latest, flushed>>
      BY <1>8 DEF GCOneGroup, durable
    <2>2. Image' = Image /\ Where' = Where /\ Sound' \subseteq Sound
      BY <2>1 DEF Image, Where, Sound
    <2>3. Moving = {}  BY <2>1, Quiescent
    <2>4. ASSUME NEW k \in Key, Hash[k] \in Sound', k \notin Moving', Unflushed(k) PROVE Unflushed(k)'
      <3>1. Hash[k] \in Sound  BY <2>2, <2>4
      <3>2. CASE Hash[k] = g
        <4>1. \E r \in survivors' : r.key = k  BY <2>1, <2>4, <3>1, <3>2, KeptLatest
        <4> QED  BY <2>4, <4>1 DEF Moving
      <3>3. CASE Hash[k] # g
        <4>1. PICK i \in pending : pool[i].key = k  BY <2>4 DEF Unflushed
        <4>2. i \in pending'  BY <2>1, <3>3, <4>1 DEF PendingOf
        <4> QED  BY <2>1, <4>1, <4>2 DEF Unflushed
      <3> QED  BY <3>2, <3>3
    <2>5. ASSUME NEW k \in Key, Hash[k] \in Sound'
          PROVE  /\ flushed[k] <= latest[k]
                 /\ k \notin Moving' =>
                      /\ ReadDisk(Image, k, Where[k]) >= flushed[k]
                      /\ ~ Unflushed(k)' => ReadDisk(Image, k, Where[k]) = latest[k]
      <3>1. Hash[k] \in Sound /\ k \notin Moving  BY <2>2, <2>3, <2>5
      <3>2. /\ flushed[k] <= latest[k] /\ ReadDisk(Image, k, Where[k]) >= flushed[k]
            /\ ~ Unflushed(k) => ReadDisk(Image, k, Where[k]) = latest[k]
        BY <1>0, <3>1 DEF Values
      <3> QED  BY <2>4, <2>5, <3>2
    <2> QED  BY <2>1, <2>2, <2>5 DEF Values
  <1>9. Steady => (Steady /\ UNCHANGED <<pool, pending, latest, flushed>>) \/ (Steady /\ FinishFlush)
    BY DEF Steady
  <1> QED  BY <1>2, <1>3, <1>4, <1>5, <1>6, <1>7, <1>8, <1>9, SteadySteps

----------------------------------------------------------------------------
(* What is durable                                                          *)

\* the persisted metadata and the LSM-tree find every record
Durably ==
  /\ \A g \in Sound : Indexed(g, groupMeta[g].segs, segMeta, disk, lsm, {})
  /\ \A g \in Sound : \A s \in ToSet(groupMeta[g].segs) : segMeta[s] <= meta.segFront[s]
  /\ \A k \in Key : Hash[k] \in Sound => ReadDisk(disk, k, lsm[k]) >= flushed[k]

(* A group with an empty main segment has no records.                       *)
LEMMA FrontNowhere ==
  ASSUME NEW g, NEW F, F[g] = 0, NEW d, NEW X, X \in [Key -> Loc \cup {Nowhere}], NEW ex,
         Indexed(g, <<g>>, F, d, X, ex)
  PROVE  \A k \in Key : Hash[k] = g /\ k \notin ex => X[k] = Nowhere
  <1>1. ToSet(<<g>>) = {g}  BY DEF ToSet
  <1> SUFFICES ASSUME NEW k \in Key, Hash[k] = g, k \notin ex, X[k] # Nowhere PROVE FALSE
    OBVIOUS
  <1>2. X[k].seg \in ToSet(<<g>>) /\ X[k].off + X[k].size <= F[X[k].seg]  BY DEF Indexed, Found
  <1>3. X[k].off \in Nat /\ X[k].size \in Nat \ {0}  BY LocTypes
  <1>4. X[k].off + X[k].size <= 0  BY <1>1, <1>2
  <1> QED  BY <1>3, <1>4

(* After a commit and between operations all of it is durable.              *)
LEMMA AllDurable ==
  ASSUME IInv, Bounds, FInv, Survive, Logged, MemoryIndexed, Values, pc \in {"idle", "ack"}
  PROVE  Durably
  <1>0. /\ Course /\ Phases /\ Untouched /\ Unmodified /\ DurableFits
        /\ Sane(disk) /\ lsm \in [Key -> Loc \cup {Nowhere}] /\ batch \in Seq(KeyLoc)
    BY FFacts, ImageFacts DEF Bounds, Locations
  <1>1. unwritten = {} /\ survivors = {} /\ Moving = {}  BY <1>0 DEF Course, Survive, Moving
  <1>2. Image = disk  BY <1>1, ImageFacts
  <1>3. \A k \in Key : Hash[k] \in Sound => lsm[k] = Where[k]
    <2>1. CASE pc = "ack"  BY <2>1 DEF Logged
    <2>2. CASE pc = "idle"
      <3>1. batch = <<>>  BY <1>0, <2>2 DEF Course
      <3> QED  BY <1>0, <3>1, LocatedMore DEF Where
    <2> QED  BY <2>1, <2>2
  <1>4. \A g : ~ NotBegun(g)  BY DEF NotBegun
  <1>5. ASSUME NEW g \in Sound PROVE Indexed(g, meta.segs[g], meta.segFront, disk, lsm, {})
    <2> DEFINE sg == meta.segs[g]
               F == meta.segFront
               ex == {}
               X == Where
    <2>1. Indexed(g, sg, F, disk, X, ex) /\ ToSet(sg) \subseteq Segment
      BY <1>1, <1>2, <1>4, ListSegments DEF MemoryIndexed, Sound
    <2>2. \A k \in Key : Hash[k] = g => lsm[k] = X[k] /\ (k \in ex <=> k \in ex)  BY <1>3
    <2> HIDE DEF sg, F, ex, X
    <2>3. \A s \in ToSet(sg) : F[s] = F[s] /\ disk[s] = disk[s]  OBVIOUS
    <2>4. Indexed(g, sg, F, disk, lsm, ex)  BY <1>0, <2>1, <2>2, <2>3, IndexedSame
    <2> QED  BY <2>4 DEF sg, F, ex
  <1>6. pc = "idle" => modified = {} /\ touched = {} /\ victim = None
    BY <1>0 DEF Course, Phases
  <1>7. ASSUME NEW g \in Sound
        PROVE  /\ Indexed(g, groupMeta[g].segs, segMeta, disk, lsm, {})
               /\ \A s \in ToSet(groupMeta[g].segs) : segMeta[s] <= meta.segFront[s]
    <2>0. g \in Group /\ g # None /\ g \in Segment  BY SegmentFacts DEF Sound
    <2>1. \A s \in ToSet(meta.segs[g]) : segMeta[s] = meta.segFront[s]
      <3>1. \A s \in ToSet(meta.segs[g]) : (s \notin touched /\ g # victim) \/ pc = "ack"
        BY <1>6, <2>0
      <3> QED  BY <1>0, <3>1 DEF Untouched
    <2>2. \/ groupMeta[g] = NoGroup /\ meta.segs[g] \in {<<>>, <<g>>}
          \/ groupMeta[g].segs = meta.segs[g]
      BY <1>0, <1>6 DEF Unmodified
    <2>3. Indexed(g, meta.segs[g], meta.segFront, disk, lsm, {})  BY <1>5
    <2>4. CASE groupMeta[g] = NoGroup /\ meta.segs[g] \in {<<>>, <<g>>}
      <3>1. groupMeta[g].segs = <<>> /\ segMeta[g] = 0  BY <1>0, <2>4 DEF NoGroup, Untouched
      <3>2. \A k \in Key : Hash[k] = g => lsm[k] = Nowhere
        <4> DEFINE ex == {}
        <4>0. \A k : k \notin ex  OBVIOUS
        <4>1. CASE meta.segs[g] = <<>>
          <5>1. Indexed(g, <<>>, meta.segFront, disk, lsm, ex)  BY <2>3, <4>1
          <5> HIDE DEF ex
          <5> QED  BY <4>0, <5>1, EmptyNowhere
        <4>2. CASE meta.segs[g] = <<g>>
          <5>1. Indexed(g, <<g>>, meta.segFront, disk, lsm, ex)  BY <2>3, <4>2
          <5>2. ToSet(<<g>>) = {g}  BY DEF ToSet
          <5>3. meta.segFront[g] = 0  BY <2>1, <3>1, <4>2, <5>2
          <5> HIDE DEF ex
          <5> QED  BY <1>0, <4>0, <5>1, <5>3, FrontNowhere
        <4> QED  BY <2>4, <4>1, <4>2
      <3>3. Indexed(g, <<>>, segMeta, disk, lsm, {})  BY <1>0, <2>0, <3>1, <3>2, IndexedEmpty
      <3>4. ToSet(<<>>) = {}  BY DEF ToSet
      <3> QED  BY <3>1, <3>3, <3>4
    <2>5. CASE groupMeta[g].segs = meta.segs[g]
      <3>1. ToSet(meta.segs[g]) \subseteq Segment /\ \A s \in Segment : segMeta[s] \in Nat
        BY <2>0, ListSegments
      <3> DEFINE ex == {}
                 sg == meta.segs[g]
                 F == meta.segFront
      <3>2. \A s \in ToSet(sg) : segMeta[s] = F[s] /\ disk[s] = disk[s]  BY <2>1
      <3>3. \A k \in Key : Hash[k] = g => lsm[k] = lsm[k] /\ (k \in ex <=> k \in ex)  OBVIOUS
      <3>4. Indexed(g, sg, F, disk, lsm, ex) /\ ToSet(sg) \subseteq Segment  BY <2>3, <3>1
      <3> HIDE DEF ex, sg, F
      <3>5. Indexed(g, sg, segMeta, disk, lsm, ex)  BY <1>0, <3>2, <3>3, <3>4, IndexedSame
      <3>6. Indexed(g, groupMeta[g].segs, segMeta, disk, lsm, {})  BY <2>5, <3>5 DEF sg, ex
      <3>7. \A s \in ToSet(sg) : segMeta[s] <= F[s]  BY <3>1, <3>2 DEF sg
      <3> QED  BY <2>5, <3>6, <3>7 DEF sg, F
    <2> QED  BY <2>2, <2>4, <2>5
  <1>8. \A k \in Key : Hash[k] \in Sound => ReadDisk(disk, k, lsm[k]) >= flushed[k]
    BY <1>1, <1>2, <1>3 DEF Values
  <1> QED  BY <1>7, <1>8 DEF Durably

LEMMA DurablyParts ==
  ASSUME Durably
  PROVE  Behindhand /\ DurableIndexed /\ DurableValues
  BY DEF Durably, Behindhand, DurableIndexed, DurableValues

(* What is persisted of a group lies in its segments, so a segment of       *)
(* another group is not part of it.                                         *)
LEMMA ForeignSegment ==
  ASSUME IInv, Bounds, FInv, pc # "down", NEW h \in Group, h # victim, NEW g \in Group, g # h,
         NEW m, Own(m), NEW s \in ToSet(m.segs[g]), s \notin ToSet(meta.segs[h])
  PROVE  s \notin ToSet(groupMeta[h].segs)
  <1>1. Behind /\ Shape(groupMeta[h].segs, h) /\ Shape(meta.segs[h], h)  BY FFacts
  <1>2. ToSet(groupMeta[h].segs) \subseteq LogsOf(groupMeta[h].segs) \cup {h}
    BY <1>1, ListMembers
  <1>3. LogsOf(groupMeta[h].segs) \subseteq LogsOf(meta.segs[h])  BY <1>1 DEF Behind
  <1>4. h \notin ToSet(m.segs[g])  BY OwnDisjoint
  <1> QED  BY <1>2, <1>3, <1>4 DEF LogsOf

LEMMA PersistedWithin ==
  ASSUME IInv, Bounds, FInv, pc # "down", NEW h \in Group, h # victim
  PROVE  ToSet(groupMeta[h].segs) \subseteq ToSet(meta.segs[h]) \cup {h}
  <1>1. Behind /\ Shape(groupMeta[h].segs, h)  BY FFacts
  <1>2. ToSet(groupMeta[h].segs) \subseteq LogsOf(groupMeta[h].segs) \cup {h}
    BY <1>1, ListMembers
  <1>3. LogsOf(groupMeta[h].segs) \subseteq LogsOf(meta.segs[h])  BY <1>1 DEF Behind
  <1> QED  BY <1>2, <1>3 DEF LogsOf

----------------------------------------------------------------------------
(* What is durable stays enough                                             *)

DurableContents == Behindhand /\ DurableIndexed /\ DurableValues

AtRest == pc \in {"idle", "ack"}

LEMMA DurableNow ==
  IInv /\ Bounds /\ FInv /\ Survive /\ Logged /\ MemoryIndexed /\ Values /\ AtRest => DurableContents
  BY AllDurable, DurablyParts DEF AtRest, DurableContents

LEMMA DurableThen ==
  ASSUME IInv', Bounds', FInv', Survive', Logged', MemoryIndexed', Values', AtRest'
  PROVE  DurableContents'
  BY DurableNow, PTL

LEMMA ReadSame ==
  ASSUME NEW d, NEW d2, NEW k, NEW l, l = Nowhere \/ d2[l.seg] = d[l.seg]
  PROVE  ReadDisk(d2, k, l) = ReadDisk(d, k, l)
  <1> DEFINE H(x) == {r \in x[l.seg] : r.off = l.off /\ r.size = l.size /\ r.key = k}
  <1>1. CASE l = Nowhere  BY <1>1 DEF ReadDisk
  <1>2. CASE l # Nowhere
    <2> DEFINE V(S) == IF S = {} THEN None ELSE (CHOOSE q \in S : TRUE).val
    <2>1. H(d2) = H(d)  BY <1>2
    <2>2. ReadDisk(d2, k, l) = V(H(d2))  BY <1>2 DEF ReadDisk
    <2>3. ReadDisk(d, k, l) = V(H(d))  BY <1>2 DEF ReadDisk
    <2> HIDE DEF V, H
    <2> QED  BY <2>1, <2>2, <2>3
  <1> QED  BY <1>1, <1>2

\* a step that leaves alone what is durable and how far segments are filled
Calm ==
  /\ UNCHANGED <<disk, lsm, groupMeta, segMeta, flushed, torn>>
  /\ meta'.segFront = meta.segFront

LEMMA CalmDurable ==
  ASSUME IInv, Bounds, FInv, CInv, pc # "down", Calm,
         (victim' = victim /\ pc \notin {"gcdata", "keys", "meta"}) \/ pc = "ack"
  PROVE  DurableContents'
  <1>0. Sound' = Sound  BY DEF Sound, Calm
  <1>1. CASE pc = "ack"
    <2>1. Durably
      <3>1. Survive /\ Logged /\ MemoryIndexed /\ Values  BY CFacts
      <3> QED  BY <1>1, <3>1, AllDurable
    <2>2. Durably'  BY <1>0, <2>1 DEF Calm, Durably
    <2> QED  BY <1>0, <2>2 DEF Durably, DurableContents, Behindhand, DurableIndexed, DurableValues
  <1>2. CASE victim' = victim /\ pc \notin {"gcdata", "keys", "meta"}
    <2>1. Behindhand /\ DurableIndexed /\ DurableValues  BY CFacts
    <2>2. \A g : ~ Committing(g)  BY <1>2 DEF Committing
    <2>3. \A g \in Sound : Indexed(g, groupMeta[g].segs, segMeta, disk, lsm, {})
      BY <2>1, <2>2 DEF DurableIndexed
    <2>4. \A k \in Key : Hash[k] \in Sound => ReadDisk(disk, k, lsm[k]) >= flushed[k]
      BY <1>2, <2>1 DEF DurableValues
    <2>5. Behindhand'  BY <1>0, <1>2, <2>1 DEF Behindhand, Calm
    <2>6. DurableIndexed'  BY <1>0, <2>3 DEF DurableIndexed, Calm
    <2>7. DurableValues'  BY <1>0, <2>4 DEF DurableValues, Calm
    <2> QED  BY <2>5, <2>6, <2>7 DEF DurableContents
  <1> QED  BY <1>1, <1>2

(* What is flushed lies behind what is persisted.                           *)
LEMMA FlushRecordDurable ==
  ASSUME IInv, Bounds, FInv, CInv, pc # "down", FlushRecord, IInv'
  PROVE  DurableContents'
  <1>a. PICK r : r = pool[NextUpdate(cur)]  OBVIOUS
  <1>b. PICK p : p = Place(meta, cur, curFront, r.size)  OBVIOUS
  <1>c. PICK l : l = p.loc  OBVIOUS
  <1>0. /\ Own(meta) /\ MetaFits(meta) /\ Sane(disk) /\ lsm \in [Key -> Loc \cup {Nowhere}]
        /\ Behindhand /\ DurableIndexed /\ DurableValues
        /\ \A g \in Group : Shape(meta.segs[g], g)
    BY FFacts, CFacts, ImageFacts
  <1>1. /\ pc = "flush" /\ pc' = pc /\ meta' = p.meta /\ disk' = Written(disk, l, r)
        /\ UNCHANGED <<victim, torn, lsm, segMeta, groupMeta, flushed>>
    BY <1>a, <1>b, <1>c DEF FlushRecord, history, Written
  <1>2. /\ cur \in Group /\ meta.segs[cur] # <<>> /\ victim = None
        /\ curFront \in Nat /\ curFront <= Room(meta.segs[cur])
        /\ r.size \in 1..LogSize /\ CanPlace(meta, cur, curFront, r.size)
        /\ r \in Rec /\ l \in Loc /\ l.size = r.size
    BY <1>a, <1>b, <1>c, FlushRecordPlace
  <1>3. Stores(cur, r, l)  BY <1>a, <1>b, <1>c, FlushRecordStores
  <1>4. l.seg \in ToSet(meta'.segs[cur])  BY <1>0, <1>1, <1>2, <1>b, <1>c, PlaceEffects
  <1>5. Own(meta')  BY <1>1 DEF IInv, Running
  <1>6. l.seg \in Segment /\ l.off \in Nat /\ l.size \in Nat \ {0}  BY <1>2, LocTypes
  <1>7. Sound' = Sound  BY <1>1 DEF Sound
  <1>8. \A g \in Sound : g \in Group /\ g # victim  BY <1>2, SegmentFacts DEF Sound
  <1>9. ASSUME NEW g \in Sound, l.seg \in ToSet(groupMeta[g].segs)
        PROVE  l.off = meta.segFront[l.seg] /\ segMeta[l.seg] <= l.off
    <2>1. g = cur
      <3> SUFFICES ASSUME g # cur PROVE FALSE  OBVIOUS
      <3>1. l.seg \notin ToSet(meta.segs[g])  BY <1>3, <1>8 DEF Stores
      <3> QED  BY <1>2, <1>4, <1>5, <1>8, <1>9, <3>1, ForeignSegment
    <2>2. cur \in ToSet(meta.segs[cur])  BY <1>0, <1>2, ListMembers
    <2>3. l.seg \in ToSet(meta.segs[cur])  BY <1>8, <1>9, <2>1, <2>2, PersistedWithin
    <2>4. ~ NotBegun(cur)  BY <1>1 DEF NotBegun
    <2>5. l.off = meta.segFront[l.seg]  BY <1>3, <2>1, <2>3, <2>4 DEF Stores
    <2>6. segMeta[l.seg] <= meta.segFront[l.seg]  BY <1>0, <1>8, <1>9 DEF Behindhand
    <2> QED  BY <2>5, <2>6
  <1>10. ASSUME NEW g \in Sound
         PROVE  /\ Indexed(g, groupMeta[g].segs, segMeta, disk, lsm, {})
                /\ ToSet(groupMeta[g].segs) \subseteq Segment
                /\ \A s \in Segment : segMeta[s] \in Nat /\ meta.segFront[s] \in Nat
    <2>1. ~ Committing(g)  BY <1>1, <1>8 DEF Committing
    <2> QED  BY <1>0, <1>8, <2>1, ListSegments DEF DurableIndexed
  <1>11. ASSUME NEW g \in Sound PROVE Indexed(g, groupMeta[g].segs, segMeta, disk', lsm, {})
    <2> DEFINE sg == groupMeta[g].segs
               ex == {}
    <2>1. Indexed(g, sg, segMeta, disk, lsm, ex) /\ ToSet(sg) \subseteq Segment
      BY <1>10
    <2>2. \A s \in ToSet(sg) : segMeta[s] \in Nat  BY <1>10
    <2>3. l.seg \in ToSet(sg) => segMeta[l.seg] <= l.off  BY <1>9
    <2> HIDE DEF sg, ex
    <2>4. Indexed(g, sg, segMeta, disk', lsm, ex)
      BY <1>0, <1>1, <1>2, <2>1, <2>2, <2>3, IndexedBeyond
    <2> QED  BY <2>4 DEF sg, ex
  <1>12. ASSUME NEW g \in Sound, NEW s \in ToSet(groupMeta[g].segs)
         PROVE  segMeta[s] <= meta'.segFront[s]
    <2>1. segMeta[s] <= meta.segFront[s] /\ s \in Segment /\ segMeta[s] \in Nat
      BY <1>0, <1>8, <1>10 DEF Behindhand
    <2>2. CASE s # l.seg
      <3>1. meta'.segFront[s] = meta.segFront[s]  BY <1>3, <2>1, <2>2 DEF Stores
      <3> QED  BY <2>1, <3>1
    <2>3. CASE s = l.seg
      <3>1. meta'.segFront[s] = l.off + l.size  BY <1>3, <2>3 DEF Stores
      <3>2. segMeta[s] <= l.off  BY <1>9, <2>3
      <3> QED  BY <1>6, <2>1, <3>1, <3>2
    <2> QED  BY <2>2, <2>3
  <1>13. ASSUME NEW k \in Key, Hash[k] \in Sound PROVE ReadDisk(disk', k, lsm[k]) >= flushed[k]
    <2> DEFINE x == lsm[k]
               g == Hash[k]
    <2>1. ReadDisk(disk, k, x) >= flushed[k]
      <3>1. g # victim  BY <1>8, <1>13
      <3> QED  BY <1>0, <1>13, <3>1 DEF DurableValues
    <2>2. x \in Loc \cup {Nowhere}  BY <1>0
    <2>3. CASE x = Nowhere
      <3>1. ReadDisk(disk', k, x) = ReadDisk(disk, k, x)  BY <2>3, ReadSame
      <3> QED  BY <2>1, <3>1
    <2>4. CASE x # Nowhere
      <3>1. x.seg \in ToSet(groupMeta[g].segs) /\ x.off + x.size <= segMeta[x.seg]
        BY <1>10, <1>13, <2>4 DEF Indexed, Found
      <3>2. x.off \in Nat /\ x.size \in Nat  BY <2>2, <2>4, LocTypes
      <3>3. x.seg # l.seg \/ x.off + x.size <= l.off
        <4> SUFFICES ASSUME x.seg = l.seg PROVE x.off + x.size <= l.off  OBVIOUS
        <4>1. segMeta[l.seg] <= l.off  BY <1>9, <1>13, <3>1
        <4>2. segMeta[l.seg] \in Nat  BY <1>6, <1>10, <1>13
        <4> QED  BY <1>6, <3>1, <3>2, <4>1, <4>2
      <3> HIDE DEF x
      <3>4. ReadDisk(disk', k, x) = ReadDisk(disk, k, x)
        BY <1>0, <1>1, <1>2, <2>2, <3>3, ReadStored
      <3> QED  BY <2>1, <3>4 DEF x
    <2> QED  BY <2>3, <2>4
  <1>14. Behindhand'  BY <1>1, <1>7, <1>12 DEF Behindhand
  <1>15. DurableIndexed'  BY <1>1, <1>7, <1>11 DEF DurableIndexed
  <1>16. DurableValues'  BY <1>1, <1>7, <1>13 DEF DurableValues
  <1> QED  BY <1>14, <1>15, <1>16 DEF DurableContents

(* Garbage collection places records in segments of the victim only.        *)
LEMMA RewriteRecordDurable ==
  ASSUME IInv, Bounds, FInv, CInv, pc # "down", NEW r \in survivors, RewriteRecord(r), IInv'
  PROVE  DurableContents'
  <1>b. PICK p : p = Place(meta, victim, curFront, r.size)  OBVIOUS
  <1>c. PICK l : l = p.loc  OBVIOUS
  <1>0. Own(meta) /\ MetaFits(meta) /\ Behindhand /\ DurableIndexed /\ DurableValues
    BY FFacts, CFacts
  <1>1. /\ pc = "rewrite" /\ pc' = pc /\ meta' = p.meta
        /\ UNCHANGED <<victim, torn, lsm, segMeta, groupMeta, flushed, disk>>
    BY <1>b, <1>c DEF RewriteRecord, history, durable
  <1>2. /\ victim \in Group /\ meta.segs[victim] # <<>>
        /\ curFront \in Nat /\ curFront <= Room(meta.segs[victim])
        /\ r.size \in 1..LogSize /\ CanPlace(meta, victim, curFront, r.size)
    BY <1>b, RewritePlace
  <1>3. Stores(victim, r, l)  BY <1>b, <1>c, RewriteRecordStores
  <1>4. l.seg \in ToSet(meta'.segs[victim])  BY <1>0, <1>1, <1>2, <1>b, <1>c, PlaceEffects
  <1>5. Own(meta')  BY <1>1 DEF IInv, Running
  <1>7. Sound' = Sound  BY <1>1 DEF Sound
  <1>8. ASSUME NEW g \in Sound \ {victim}, NEW s \in ToSet(groupMeta[g].segs)
        PROVE  segMeta[s] <= meta'.segFront[s]
    <2>1. segMeta[s] <= meta.segFront[s]  BY <1>0 DEF Behindhand
    <2>2. g \in Group /\ g # victim  BY DEF Sound
    <2>3. s \in Segment  BY <2>2, ListSegments
    <2>4. s # l.seg
      <3> SUFFICES ASSUME s = l.seg PROVE FALSE  OBVIOUS
      <3>1. s \notin ToSet(meta.segs[g]) /\ s \in ToSet(meta'.segs[victim])
        BY <1>3, <1>4, <2>2 DEF Stores
      <3> QED  BY <1>2, <1>5, <2>2, <3>1, ForeignSegment
    <2>5. meta'.segFront[s] = meta.segFront[s]  BY <1>3, <2>3, <2>4 DEF Stores
    <2> QED  BY <2>1, <2>5
  <1>9. \A g : ~ Committing(g)  BY <1>1 DEF Committing
  <1>14. Behindhand'  BY <1>1, <1>7, <1>8 DEF Behindhand
  <1>15. DurableIndexed'  BY <1>0, <1>1, <1>7, <1>9 DEF DurableIndexed
  <1>16. DurableValues'  BY <1>0, <1>1, <1>7 DEF DurableValues
  <1> QED  BY <1>14, <1>15, <1>16 DEF DurableContents

LEMMA GCOneGroupDurable ==
  ASSUME IInv, Bounds, FInv, CInv, pc # "down", NEW g \in Group, GCOneGroup(g)
  PROVE  DurableContents'
  <1>0. Own(meta) /\ MetaFits(meta) /\ Behindhand /\ DurableIndexed /\ DurableValues
    BY FFacts, CFacts
  <1>1. /\ pc = "gc" /\ pc' = "rewrite" /\ meta' = ReleaseGroup(meta, g) /\ victim' = g
        /\ torn \subseteq torn' /\ UNCHANGED <<lsm, segMeta, groupMeta, flushed, disk>>
    BY DEF GCOneGroup, durable
  <1>2. victim = None /\ Sound' \subseteq Sound  BY <1>1, Quiescent DEF Sound
  <1>3. \A h \in Group \ {g} :
          /\ meta'.segFront[h] = meta.segFront[h]
          /\ \A s \in ToSet(meta.segs[h]) : meta'.segFront[s] = meta.segFront[s]
    BY <1>0, <1>1, ReleaseParts
  <1>4. ASSUME NEW h \in Sound' \ {g}, NEW s \in ToSet(groupMeta[h].segs)
        PROVE  segMeta[s] <= meta'.segFront[s]
    <2>1. h \in Sound /\ h \in Group /\ h # g /\ h # victim  BY <1>2, SegmentFacts DEF Sound
    <2>2. s \in ToSet(meta.segs[h]) \cup {h}  BY <2>1, PersistedWithin
    <2>3. segMeta[s] <= meta.segFront[s]  BY <1>0, <2>1 DEF Behindhand
    <2> QED  BY <1>3, <2>1, <2>2, <2>3
  <1>5. \A h : ~ Committing(h)  BY <1>1 DEF Committing
  <1>6. Behindhand'  BY <1>1, <1>4 DEF Behindhand
  <1>7. DurableIndexed'  BY <1>0, <1>1, <1>2, <1>5 DEF DurableIndexed
  <1>8. DurableValues'  BY <1>0, <1>1, <1>2 DEF DurableValues
  <1> QED  BY <1>6, <1>7, <1>8 DEF DurableContents

LEMMA WriteSegmentDurable ==
  ASSUME IInv, Bounds, FInv, CInv, pc # "down", NEW s \in Segment, WriteSegment(s)
  PROVE  DurableContents'
  <1>0. /\ Own(meta) /\ Behindhand /\ DurableIndexed /\ DurableValues /\ Logged /\ Sane(disk)
        /\ Buffer /\ lsm \in [Key -> Loc \cup {Nowhere}]
    BY FFacts, CFacts, ImageFacts
  <1>1. /\ pc = "gcdata" /\ pc' \in {"gcdata", "keys"} /\ \E u \in unwritten : u.loc.seg = s
        /\ UNCHANGED <<victim, meta, torn, lsm, segMeta, groupMeta, flushed>>
    BY DEF WriteSegment, history
  <1>2. \A t \in Segment \ {s} : disk'[t] = disk[t]  BY ImageWritten
  <1>3. victim \in Group /\ s \in ToSet(meta.segs[victim])
    <2>1. victim # None /\ s \in ToSet(meta.segs[victim])  BY <1>0, <1>1 DEF Logged
    <2> QED  BY <1>0, <2>1 DEF Buffer
  <1>4. Sound' = Sound  BY <1>1 DEF Sound
  <1>5. ASSUME NEW g \in Sound, g # victim
        PROVE  /\ s \notin ToSet(groupMeta[g].segs) /\ ToSet(groupMeta[g].segs) \subseteq Segment
               /\ Indexed(g, groupMeta[g].segs, segMeta, disk, lsm, {})
    <2>1. g \in Group  BY DEF Sound
    <2>2. s \notin ToSet(meta.segs[g])  BY <1>0, <1>3, <1>5, <2>1, OwnDisjoint
    <2>3. s \notin ToSet(groupMeta[g].segs)  BY <1>0, <1>3, <1>5, <2>1, <2>2, ForeignSegment
    <2>4. ~ Committing(g)  BY <1>1, <1>5 DEF Committing
    <2> QED  BY <1>0, <2>1, <2>3, <2>4, ListSegments DEF DurableIndexed
  <1>6. ASSUME NEW g \in Sound, g # victim
        PROVE  Indexed(g, groupMeta[g].segs, segMeta, disk', lsm, {})
    <2> DEFINE sg == groupMeta[g].segs
               ex == {}
    <2>1. Indexed(g, sg, segMeta, disk, lsm, ex) /\ ToSet(sg) \subseteq Segment /\ s \notin ToSet(sg)
      BY <1>5, <1>6
    <2> HIDE DEF sg, ex
    <2>2. \A t \in ToSet(sg) : segMeta[t] = segMeta[t] /\ disk'[t] = disk[t]  BY <1>2, <2>1
    <2>3. Indexed(g, sg, segMeta, disk', lsm, ex)  BY <1>0, <2>1, <2>2, IndexedSame
    <2> QED  BY <2>3 DEF sg, ex
  <1>7. ASSUME NEW k \in Key, Hash[k] \in Sound, Hash[k] # victim
        PROVE  ReadDisk(disk', k, lsm[k]) >= flushed[k]
    <2>1. ReadDisk(disk, k, lsm[k]) >= flushed[k]  BY <1>0, <1>7 DEF DurableValues
    <2>2. lsm[k] = Nowhere \/ disk'[lsm[k].seg] = disk[lsm[k].seg]
      <3> SUFFICES ASSUME lsm[k] # Nowhere PROVE disk'[lsm[k].seg] = disk[lsm[k].seg]  OBVIOUS
      <3>1. lsm[k].seg \in ToSet(groupMeta[Hash[k]].segs)  BY <1>5, <1>7 DEF Indexed, Found
      <3> QED  BY <1>2, <1>5, <1>7, <3>1
    <2>3. ReadDisk(disk', k, lsm[k]) = ReadDisk(disk, k, lsm[k])  BY <2>2, ReadSame
    <2> QED  BY <2>1, <2>3
  <1>8. Behindhand'  BY <1>0, <1>1, <1>4 DEF Behindhand
  <1>9. DurableIndexed'
    <2>1. Committing(victim)'  BY <1>1 DEF Committing
    <2>2. \A g \in Sound : g # victim \/ Committing(g)'  BY <1>1 DEF Committing
    <2> QED  BY <1>1, <1>4, <1>6, <2>2 DEF DurableIndexed
  <1>10. DurableValues'  BY <1>1, <1>4, <1>7 DEF DurableValues
  <1> QED  BY <1>8, <1>9, <1>10 DEF DurableContents

LEMMA WriteKeyBatchDurable ==
  ASSUME IInv, Bounds, FInv, CInv, pc # "down", WriteKeyBatch
  PROVE  DurableContents'
  <1>0. /\ Behindhand /\ DurableIndexed /\ Values /\ Logged /\ Survive /\ Course /\ Sane(disk)
        /\ lsm \in [Key -> Loc \cup {Nowhere}] /\ batch \in Seq(KeyLoc)
    BY FFacts, CFacts, ImageFacts DEF Bounds, Locations
  <1>1. /\ pc = "keys" /\ pc' = "meta" /\ lsm' = Where
        /\ UNCHANGED <<victim, modified, batch, meta, torn, segMeta, groupMeta, flushed, disk>>
    BY DEF WriteKeyBatch, Where, history, volatile
  <1>2. unwritten = {} /\ survivors = {} /\ Moving = {}  BY <1>0, <1>1 DEF Course, Survive, Moving
  <1>3. Image = disk /\ Sound' = Sound  BY <1>1, <1>2, ImageFacts DEF Sound
  <1>4. ASSUME NEW g \in Sound, ~ Committing(g)'
        PROVE  Indexed(g, groupMeta[g].segs, segMeta, disk, lsm', {})
    <2>1. g # victim /\ (g \notin modified \/ batch = <<>>)  BY <1>1, <1>4 DEF Committing
    <2>2. ~ Committing(g)  BY <1>1, <2>1 DEF Committing
    <2>3. ASSUME NEW k \in Key, Hash[k] = g PROVE lsm'[k] = lsm[k]
      <3>1. ASSUME g \notin modified PROVE \A i \in DOMAIN batch : batch[i].key # k
        BY <1>0, <2>3, <3>1 DEF Logged
      <3> QED  BY <1>0, <1>1, <2>1, <3>1, LocatedMore DEF Where
    <2> DEFINE sg == groupMeta[g].segs
               ex == {}
    <2>4. Indexed(g, sg, segMeta, disk, lsm, ex) /\ ToSet(sg) \subseteq Segment
      BY <1>0, <2>2, ListSegments DEF DurableIndexed, Sound
    <2> HIDE DEF sg, ex
    <2>5. \A k \in Key : Hash[k] = g => lsm'[k] = lsm[k] /\ (k \in ex <=> k \in ex)  BY <2>3
    <2>6. Indexed(g, sg, segMeta, disk, lsm', ex)  BY <1>0, <2>4, <2>5, IndexedSame
    <2> QED  BY <2>6 DEF sg, ex
  <1>5. \A k \in Key : Hash[k] \in Sound => ReadDisk(disk, k, lsm'[k]) >= flushed[k]
    BY <1>0, <1>1, <1>2, <1>3 DEF Values
  <1>6. Behindhand'  BY <1>0, <1>1, <1>3 DEF Behindhand
  <1>7. DurableIndexed'  BY <1>1, <1>3, <1>4 DEF DurableIndexed
  <1>8. DurableValues'  BY <1>1, <1>3, <1>5 DEF DurableValues
  <1> QED  BY <1>6, <1>7, <1>8 DEF DurableContents

LEMMA WriteKeyBatchFailsDurable ==
  ASSUME IInv, Bounds, FInv, CInv, pc # "down", WriteKeyBatchFails
  PROVE  DurableContents'
  <1>0. /\ Behindhand /\ DurableIndexed /\ DurableValues /\ Values /\ Survive /\ Course
    BY FFacts, CFacts
  <1>1. /\ pc = "keys" /\ pc' = "meta"
        /\ UNCHANGED <<victim, modified, batch, meta, lsm, segMeta, groupMeta, flushed, disk>>
    BY DEF WriteKeyBatchFails, durable, volatile
  <1>2. unwritten = {} /\ Moving = {}  BY <1>0, <1>1 DEF Course, Survive, Moving
  <1>3. Image = disk  BY <1>2, ImageFacts
  <1>4. Sound' \subseteq Sound /\ \A k \in Key : Hash[k] \in Sound' => Where[k] = lsm[k]
    BY RefusedBatch
  <1>5. \A g : Committing(g) => Committing(g)'  BY <1>1 DEF Committing
  <1>6. \A k \in Key : Hash[k] \in Sound' => ReadDisk(disk, k, lsm[k]) >= flushed[k]
    <2> SUFFICES ASSUME NEW k \in Key, Hash[k] \in Sound'
                 PROVE  ReadDisk(disk, k, lsm[k]) >= flushed[k]
      OBVIOUS
    <2>1. ReadDisk(Image, k, Where[k]) >= flushed[k]  BY <1>0, <1>2, <1>4 DEF Values
    <2> QED  BY <1>3, <1>4, <2>1
  <1>7. Behindhand'  BY <1>0, <1>1, <1>4 DEF Behindhand
  <1>8. DurableIndexed'  BY <1>0, <1>1, <1>4, <1>5 DEF DurableIndexed
  <1>9. DurableValues'  BY <1>1, <1>6 DEF DurableValues
  <1> QED  BY <1>7, <1>8, <1>9 DEF DurableContents

LEMMA DurableContentsKept ==
  ASSUME IInv, Bounds, FInv, CInv, pc # "down", Next, pc' # "down", IInv', Bounds', FInv'
  PROVE  DurableContents'
  <1>0. Own(meta) /\ MetaFits(meta) /\ Phases  BY FFacts
  <1>1. CASE LogMetaPersist \/ FinishFlush
    <2>1. AtRest'  BY <1>1 DEF LogMetaPersist, FinishFlush, AtRest
    <2>2. Survive' /\ Logged' /\ MemoryIndexed' /\ Values'
      BY SurviveKept, LoggedKept, MemoryIndexedKept, ValuesKept
    <2> QED  BY <2>1, <2>2, DurableThen
  <1>2. CASE AckBeforeGC \/ FinishGC
    <2>1. /\ pc = "ack" /\ UNCHANGED <<disk, lsm, groupMeta, segMeta, flushed, torn>>
          /\ meta' = meta \/ meta' = [meta EXCEPT !.front[cur] = curFront]
      BY <1>2 DEF AckBeforeGC, FinishGC, history
    <2>2. meta'.segFront = meta.segFront  BY <1>0, <2>1 DEF Own
    <2> QED  BY <2>1, <2>2, CalmDurable DEF Calm
  <1>3. ASSUME NEW k \in Key, NEW s \in Sizes[k], Put(k, s) \/ FlushBeforeWrite(k, s)
        PROVE  DurableContents'
    <2>1. /\ pc = "idle" /\ UNCHANGED <<disk, lsm, groupMeta, segMeta, flushed, torn, victim>>
          /\ meta' = GetNewMainSegment(meta, Hash[k])
      BY <1>3 DEF Put, FlushBeforeWrite, history, durable
    <2>2. Hash[k] \in Group  BY HashKVAssumption
    <2>3. meta'.segFront = meta.segFront  BY <1>0, <2>1, <2>2, NewMainParts
    <2> QED  BY <2>1, <2>3, CalmDurable DEF Calm
  <1>4. ASSUME NEW g \in Group, PickGroup(g) PROVE DurableContents'
    <2>1. /\ pc = "flush" /\ UNCHANGED <<disk, lsm, groupMeta, segMeta, flushed, torn, victim, meta>>
      BY <1>4 DEF PickGroup, history, durable
    <2> QED  BY <2>1, CalmDurable DEF Calm
  <1>5. CASE LeaveGroup \/ SetBatchGCKeyValue
    <2>1. /\ pc \in {"flush", "rewrite"}
          /\ UNCHANGED <<disk, lsm, groupMeta, segMeta, flushed, torn, victim>>
          /\ meta' = [meta EXCEPT !.front[victim] = curFront]
             \/ meta' = [meta EXCEPT !.front[cur] = curFront]
      BY <1>5 DEF LeaveGroup, SetBatchGCKeyValue, history, durable
    <2>2. meta'.segFront = meta.segFront  BY <1>0, <2>1 DEF Own
    <2> QED  BY <2>1, <2>2, CalmDurable DEF Calm
  <1>6. CASE ReservedOverflow \/ EndOfUpdates \/ SetBatchUpdateKeyValue \/ GCGreedyInVain
    <2>1. /\ pc \in {"flush", "log", "gc"}
          /\ UNCHANGED <<disk, lsm, groupMeta, segMeta, flushed, torn, victim, meta>>
      BY <1>6 DEF ReservedOverflow, EndOfUpdates, SetBatchUpdateKeyValue, GCGreedyInVain, history,
           durable, volatile
    <2> QED  BY <2>1, CalmDurable DEF Calm
  <1>7. ~ Crash /\ ~ Recover  BY DEF Crash, Recover
  <1> QED  BY <1>1, <1>2, <1>3, <1>4, <1>5, <1>6, <1>7, FlushRecordDurable, RewriteRecordDurable,
              GCOneGroupDurable, WriteSegmentDurable, WriteKeyBatchDurable,
              WriteKeyBatchFailsDurable DEF Next

----------------------------------------------------------------------------
(* A crash and the recovery after it                                        *)

LEMMA CrashContents ==
  ASSUME IInv, Bounds, FInv, CInv, pc # "down", Crash
  PROVE  RecoverableContents'
  <1>0. /\ Phases /\ Course /\ Unmodified /\ Logged /\ Survive /\ MemoryIndexed /\ Values
        /\ DurableIndexed /\ DurableValues /\ Sane(disk)
        /\ lsm \in [Key -> Loc \cup {Nowhere}] /\ batch \in Seq(KeyLoc)
    BY FFacts, CFacts, ImageFacts DEF Bounds, Locations
  <1>1. /\ torn' = torn \cup exposed \cup Unborn \cup DOMAIN gcLog
        /\ pool' = <<>> /\ pending' = {} /\ survivors' = {}
        /\ UNCHANGED <<disk, lsm, groupMeta, segMeta, updateLog, gcLog, flushed>>
    BY DEF Crash, durable
  <1>2. Sound' \subseteq Sound /\ Sound' \cap DOMAIN gcLog = {}  BY <1>1 DEF Sound
  <1>3. \A g \in Sound' : g \in Group /\ g \in Sound /\ g # None  BY <1>2, SegmentFacts DEF Sound
  <1> DEFINE L == Located(lsm, updateLog.keys)
             F == FrontsFrom(segMeta, updateLog.keys)
  <1>4. CASE updateLog = NoLog
    <2>1. updateLog.keys = <<>> /\ DOMAIN updateLog.groups = {} /\ <<>> \in Seq(KeyLoc)
      BY <1>4 DEF NoLog
    <2>2. L = lsm  BY <1>0, <2>1, LocatedMore
    <2>3. \A g \in Sound' : ~ (g = victim /\ pc \in {"gcdata", "keys", "meta"})
      BY <1>0, <1>2, <1>3 DEF Phases
    <2>4. \A g \in Sound' : ~ Committing(g)
      <3> SUFFICES ASSUME NEW g \in Sound', Committing(g) PROVE FALSE  OBVIOUS
      <3>1. pc = "meta" /\ g \in modified /\ batch # <<>>  BY <2>3 DEF Committing
      <3>2. victim # None  BY <1>0, <1>4, <3>1 DEF Logged
      <3>3. g = victim  BY <1>0, <3>1, <3>2 DEF Phases
      <3> QED  BY <2>3, <3>1, <3>3
    <2>5. \A g \in Sound' : Indexed(g, groupMeta[g].segs, segMeta, disk, L, {})
      BY <1>0, <1>3, <2>2, <2>4 DEF DurableIndexed
    <2>6. \A k \in Key : Hash[k] \in Sound' => ReadDisk(disk, k, L[k]) >= flushed[k]
      BY <1>0, <1>3, <2>2, <2>3 DEF DurableValues
    <2> HIDE DEF F
    <2> QED  BY <1>1, <2>1, <2>5, <2>6 DEF RecoverableContents
  <1>5. CASE updateLog # NoLog
    <2>1. /\ victim = None /\ pc \in {"keys", "meta", "ack"} /\ updateLog.keys = batch
          /\ updateLog.groups = GroupsOf(meta, modified)
          /\ \A g \in Sound : \A s \in ToSet(meta.segs[g]) : F[s] = meta.segFront[s]
      <3>1. updateLog.keys = batch  BY <1>5, LoggedFronts
      <3> QED  BY <1>5, <3>1, LoggedFronts
    <2>2. /\ DOMAIN updateLog.groups = modified
          /\ \A g \in modified : updateLog.groups[g].segs = meta.segs[g]
      <3>1. /\ DOMAIN updateLog.groups = modified
            /\ \A g \in modified : updateLog.groups[g] = [front |-> meta.front[g], segs |-> meta.segs[g]]
        BY <2>1 DEF GroupsOf
      <3>2. ASSUME NEW g \in modified PROVE updateLog.groups[g].segs = meta.segs[g]
        <4>1. updateLog.groups[g] = [front |-> meta.front[g], segs |-> meta.segs[g]]  BY <3>1
        <4> QED  BY <4>1
      <3> QED  BY <3>1, <3>2
    <2>3. L = Where  BY <2>1 DEF Where
    <2>4. unwritten = {} /\ Moving = {}  BY <1>0, <2>1 DEF Course, Survive, Moving
    <2>5. Image = disk /\ \A g : ~ NotBegun(g)  BY <2>1, <2>4, ImageFacts DEF NotBegun
    <2>6. \A g \in Sound : Indexed(g, meta.segs[g], meta.segFront, disk, Where, {})
      BY <1>0, <2>4, <2>5 DEF MemoryIndexed
    <2> HIDE DEF L, F
    <2>7. ASSUME NEW g \in Sound, g \in modified
          PROVE  Indexed(g, updateLog.groups[g].segs, F, disk, L, {})
      <3> DEFINE sg == meta.segs[g]
                 S == meta.segFront
                 ex == {}
      <3>1. \A s \in ToSet(sg) : F[s] = S[s] /\ disk[s] = disk[s]  BY <2>1
      <3>2. \A k \in Key : Hash[k] = g => L[k] = L[k] /\ (k \in ex <=> k \in ex)  OBVIOUS
      <3>3. Indexed(g, sg, S, disk, L, ex) /\ ToSet(sg) \subseteq Segment
        BY <2>3, <2>6, ListSegments DEF Sound
      <3> HIDE DEF sg, S, ex
      <3>4. Indexed(g, sg, F, disk, L, ex)  BY <1>0, <3>1, <3>2, <3>3, IndexedSame
      <3> QED  BY <2>2, <2>7, <3>4 DEF sg, ex
    <2>8. ASSUME NEW g \in Sound, g \notin modified
          PROVE  Indexed(g, groupMeta[g].segs, segMeta, disk, L, {})
      <3>0. g \in Group /\ g # victim  BY <2>1, SegmentFacts DEF Sound
      <3> DEFINE sg == groupMeta[g].segs
                 ex == {}
      <3>1. ~ Committing(g)  BY <2>8, <3>0 DEF Committing
      <3>2. Indexed(g, sg, segMeta, disk, lsm, ex) /\ ToSet(sg) \subseteq Segment
        BY <1>0, <3>0, <3>1, ListSegments DEF DurableIndexed
      <3>3. ASSUME NEW k \in Key, Hash[k] = g PROVE L[k] = lsm[k]
        <4>1. \A i \in DOMAIN batch : batch[i].key # k  BY <1>0, <2>8, <3>3 DEF Logged
        <4> QED  BY <1>0, <2>3, <4>1, LocatedMore DEF Where
      <3> HIDE DEF sg, ex
      <3>4. \A k \in Key : Hash[k] = g => L[k] = lsm[k] /\ (k \in ex <=> k \in ex)  BY <3>3
      <3>5. Indexed(g, sg, segMeta, disk, L, ex)  BY <1>0, <3>2, <3>4, IndexedSame
      <3> QED  BY <3>5 DEF sg, ex
    <2>9. \A k \in Key : Hash[k] \in Sound => ReadDisk(disk, k, L[k]) >= flushed[k]
      BY <1>0, <2>3, <2>4, <2>5 DEF Values
    <2>10. /\ updateLog' = updateLog /\ groupMeta' = groupMeta /\ segMeta' = segMeta
           /\ disk' = disk /\ flushed' = flushed
           /\ FrontsFrom(segMeta', updateLog'.keys) = F /\ Located(lsm', updateLog'.keys) = L
      BY <1>1 DEF L, F
    <2> QED  BY <1>1, <1>3, <2>2, <2>7, <2>8, <2>9, <2>10 DEF RecoverableContents
  <1> QED  BY <1>4, <1>5

LEMMA RecoverContents ==
  ASSUME IInv, Bounds, FInv, CInv, pc = "down", Recover, IInv', Bounds', FInv'
  PROVE  CInv'
  <1>0. /\ Recoverable /\ RecoverableContents /\ Sane(disk)
        /\ lsm \in [Key -> Loc \cup {Nowhere}] /\ updateLog.keys \in Seq(KeyLoc)
    BY ImageFacts DEF FInv, CInv, Bounds, Locations
  <1> DEFINE L == Located(lsm, updateLog.keys)
             F == FrontsFrom(segMeta, updateLog.keys)
  <1>1. /\ pc' = "idle" /\ lsm' = L /\ latest' = [k \in Key |-> ReadDisk(disk, k, lsm'[k])]
        /\ UNCHANGED <<pool, pending, batch, survivors, unwritten, disk, flushed, torn>>
    BY DEF Recover
  <1>2. L \in [Key -> Loc \cup {Nowhere}]  BY <1>0, LocatedType
  <1>3. /\ pool' = <<>> /\ pending' = {} /\ survivors' = {} /\ batch' = <<>> /\ unwritten' = {}
        /\ Sound' = Sound
    BY <1>0, <1>1 DEF Recoverable, RecoverableContents, Sound
  <1>4. \A g \in Sound : Taken(g)  BY <1>0, RecoverAgree
  <1>5. Counted'
    <2>1. Next  BY DEF Next
    <2> QED  BY <2>1, CountedKept
  <1>6. PoolNewest'
    <2>1. DOMAIN pool' = {}  BY <1>3
    <2> QED  BY <1>3, <2>1 DEF PoolNewest
  <1>7. Survive'  BY <1>3 DEF Survive
  <1>8. Logged'
    <2>1. DOMAIN batch' = {}  BY <1>3
    <2> QED  BY <1>1, <1>3, <2>1 DEF Logged
  <1>9. Moving' = {} /\ Image' = disk
    <2>1. Image' = [s \in Segment |-> Pasted(disk[s], {})]  BY <1>1, <1>3 DEF Image
    <2>2. \A recs : Pasted(recs, {}) = recs  BY DEF Pasted
    <2>3. disk = [s \in Segment |-> disk[s]]  BY <1>0 DEF Sane
    <2> QED  BY <1>3, <2>1, <2>2, <2>3 DEF Moving
  <1>10. Where' = L
    <2> HIDE DEF L
    <2>1. Where' = Located(L, <<>>)  BY <1>1, <1>3 DEF Where
    <2>2. <<>> \in Seq(KeyLoc)  OBVIOUS
    <2> QED  BY <1>2, <2>1, <2>2, LocatedMore
  <1> HIDE DEF L, F
  <1>11. ASSUME NEW g \in Sound PROVE Indexed(g, meta'.segs[g], meta'.segFront, disk, L, {})
    <2>0. g \in Group  BY DEF Sound
    <2> DEFINE ex == {}
               G == meta'.segFront
               sg == meta'.segs[g]
    <2>1. \A k \in Key : Hash[k] = g => L[k] = L[k] /\ (k \in ex <=> k \in ex)  OBVIOUS
    <2>2. ToSet(sg) \subseteq Segment
      <3>1. Own(meta')  BY <1>1 DEF IInv, Running
      <3>2. Shape(sg, g)  BY <2>0, <3>1 DEF Own
      <3> QED  BY <2>0, <3>2, ListMembers
    <2>3. CASE g \in DOMAIN updateLog.groups
      <3>1. Indexed(g, updateLog.groups[g].segs, F, disk, L, ex)
        BY <1>0, <2>3 DEF RecoverableContents, L, F
      <3>2. sg = updateLog.groups[g].segs /\ \A s \in ToSet(sg) : G[s] = F[s]
        BY <1>4, <2>3 DEF Taken, F
      <3>3. Indexed(g, sg, F, disk, L, ex)  BY <3>1, <3>2
      <3> HIDE DEF ex, G, sg
      <3>4. Indexed(g, sg, G, disk, L, ex)  BY <1>0, <2>1, <2>2, <3>2, <3>3, IndexedSame
      <3> QED  BY <3>4 DEF ex, G, sg
    <2>4. CASE g \notin DOMAIN updateLog.groups
      <3>1. Indexed(g, groupMeta[g].segs, segMeta, disk, L, ex)
        BY <1>0, <2>4 DEF RecoverableContents, L
      <3>2. sg = groupMeta[g].segs /\ \A s \in ToSet(sg) : G[s] = segMeta[s]
        BY <1>4, <2>4 DEF Taken
      <3>3. Indexed(g, sg, segMeta, disk, L, ex)  BY <3>1, <3>2
      <3> HIDE DEF ex, G, sg
      <3>4. Indexed(g, sg, G, disk, L, ex)  BY <1>0, <2>1, <2>2, <3>2, <3>3, IndexedSame
      <3> QED  BY <3>4 DEF ex, G, sg
    <2> QED  BY <2>3, <2>4
  <1>12. MemoryIndexed'
    <2>1. \A g : ~ NotBegun(g)'  BY <1>1 DEF NotBegun
    <2> QED  BY <1>3, <1>9, <1>10, <1>11, <2>1 DEF MemoryIndexed
  <1>13. Values'
    <2>1. ASSUME NEW k \in Key, Hash[k] \in Sound
          PROVE  flushed[k] <= latest'[k] /\ ReadDisk(disk, k, L[k]) = latest'[k]
                 /\ ReadDisk(disk, k, L[k]) >= flushed[k]
      <3>1. ReadDisk(disk, k, L[k]) >= flushed[k]  BY <1>0, <2>1 DEF RecoverableContents, L
      <3>2. latest'[k] = ReadDisk(disk, k, L[k])  BY <1>1
      <3>3. ReadDisk(disk, k, L[k]) \in Int /\ flushed[k] \in Int
        BY <1>0, <1>2, ReadTypes DEF CInv, Counted
      <3> QED  BY <3>1, <3>2, <3>3
    <2> QED  BY <1>1, <1>3, <1>9, <1>10, <2>1 DEF Values
  <1>14. DurableContents'
    <2>1. AtRest'  BY <1>1 DEF AtRest
    <2> QED  BY <1>7, <1>8, <1>12, <1>13, <2>1, DurableThen
  <1> QED  BY <1>1, <1>5, <1>6, <1>7, <1>8, <1>12, <1>13, <1>14 DEF CInv, DurableContents

----------------------------------------------------------------------------
(* The invariant and what follows from it                                   *)

LEMMA InitCInv == RecordsFit /\ Init => CInv
  <1> SUFFICES ASSUME RecordsFit, Init PROVE CInv  OBVIOUS
  <1>0. IInv /\ Bounds /\ FInv  BY InitIInv, InitBounds, InitFInv
  <1>1. /\ pc = "idle" /\ pool = <<>> /\ pending = {} /\ survivors = {} /\ batch = <<>>
        /\ unwritten = {} /\ puts = 0 /\ meta = NoMeta /\ lsm = [k \in Key |-> Nowhere]
        /\ latest = [k \in Key |-> 0] /\ flushed = [k \in Key |-> 0]
    BY DEF Init
  <1>2. DOMAIN pool = {} /\ DOMAIN batch = {} /\ Moving = {}  BY <1>1 DEF Moving
  <1>3. Sane(disk) /\ lsm \in [Key -> Loc \cup {Nowhere}] /\ Image = disk  BY <1>0, <1>1, ImageFacts
  <1>4. Where = lsm
    <2>1. <<>> \in Seq(KeyLoc)  OBVIOUS
    <2> QED  BY <1>1, <1>3, <2>1, LocatedMore DEF Where
  <1>5. Counted  BY <1>1, <1>2 DEF Counted
  <1>6. PoolNewest  BY <1>1, <1>2 DEF PoolNewest
  <1>7. Survive  BY <1>1 DEF Survive
  <1>8. Logged  BY <1>1, <1>2 DEF Logged
  <1>9. MemoryIndexed
    <2>1. \A g : ~ NotBegun(g)  BY <1>1 DEF NotBegun
    <2>2. ASSUME NEW g \in Sound PROVE Indexed(g, meta.segs[g], meta.segFront, Image, Where, Moving)
      <3>0. g \in Group /\ g \in Segment  BY SegmentFacts DEF Sound
      <3>1. g \in Group /\ meta.segs[g] = <<>> /\ meta.segFront[g] = 0  BY <1>1, <3>0 DEF NoMeta
      <3>2. \A k \in Key : Where[k] = Nowhere  BY <1>1, <1>4
      <3>3. Indexed(g, <<>>, meta.segFront, Image, Where, Moving)
        BY <1>3, <3>1, <3>2, IndexedEmpty
      <3> QED  BY <3>1, <3>3
    <2> QED  BY <2>1, <2>2 DEF MemoryIndexed
  <1>10. Values
    <2>1. \A k \in Key : ReadDisk(Image, k, Where[k]) = 0  BY <1>1, <1>4 DEF ReadDisk
    <2> QED  BY <1>1, <2>1 DEF Values
  <1>11. DurableContents
    <2>1. AtRest  BY <1>1 DEF AtRest
    <2> QED  BY <1>0, <1>7, <1>8, <1>9, <1>10, <2>1, DurableNow
  <1> QED  BY <1>1, <1>5, <1>6, <1>7, <1>8, <1>9, <1>10, <1>11 DEF CInv, DurableContents

LEMMA NextCInv ==
  ASSUME IInv, Bounds, FInv, CInv, [Next]_vars
  PROVE  CInv'
  <1>0. IInv' /\ Bounds' /\ FInv'  BY NextIInv, NextBounds, NextFInv
  <1>1. CASE UNCHANGED vars
    <2> USE <1>1 DEF vars, volatile, durable, history
    <2>1. /\ Sound' = Sound /\ Image' = Image /\ Where' = Where /\ Moving' = Moving
          /\ \A g : NotBegun(g)' <=> NotBegun(g)
          /\ \A k : Unflushed(k)' <=> Unflushed(k)
          /\ \A g : Committing(g)' <=> Committing(g)
      BY DEF Sound, Image, Where, Moving, NotBegun, FrontNow, Flushing, Unflushed, Committing
    <2>2. Counted' <=> Counted  BY DEF Counted
    <2>3. RecoverableContents' <=> RecoverableContents  BY <2>1 DEF RecoverableContents
    <2>4. PoolNewest' <=> PoolNewest  BY DEF PoolNewest
    <2>5. Survive' <=> Survive  BY <2>1 DEF Survive
    <2>6. Logged' <=> Logged  BY <2>1 DEF Logged
    <2>7. MemoryIndexed' <=> MemoryIndexed  BY <2>1 DEF MemoryIndexed
    <2>8. Values' <=> Values  BY <2>1 DEF Values
    <2>9. (Behindhand' <=> Behindhand) /\ (DurableIndexed' <=> DurableIndexed)
          /\ (DurableValues' <=> DurableValues)
      BY <2>1 DEF Behindhand, DurableIndexed, DurableValues
    <2> QED  BY <2>2, <2>3, <2>4, <2>5, <2>6, <2>7, <2>8, <2>9 DEF CInv
  <1>2. CASE Next /\ pc = "down"
    <2>1. Recover
      BY <1>2 DEF Next, Put, FlushBeforeWrite, PickGroup, GCOneGroup, RewriteRecord, FlushRecord,
           LeaveGroup, ReservedOverflow, EndOfUpdates, SetBatchUpdateKeyValue, WriteKeyBatch,
           WriteKeyBatchFails, LogMetaPersist, SetBatchGCKeyValue, FinishFlush, AckBeforeGC,
           FinishGC, GCGreedyInVain, WriteSegment,
           Crash
    <2> QED  BY <1>0, <1>2, <2>1, RecoverContents
  <1>3. CASE Next /\ pc # "down" /\ pc' = "down"
    <2>1. Crash
      BY <1>3 DEF Next, Put, FlushBeforeWrite, PickGroup, GCOneGroup, RewriteRecord, FlushRecord,
           LeaveGroup, ReservedOverflow, EndOfUpdates, SetBatchUpdateKeyValue, WriteKeyBatch,
           WriteKeyBatchFails, LogMetaPersist, SetBatchGCKeyValue, FinishFlush, AckBeforeGC,
           FinishGC, GCGreedyInVain, WriteSegment,
           Recover
    <2>2. Counted' /\ RecoverableContents'  BY <1>3, <2>1, CountedKept, CrashContents
    <2> QED  BY <1>3, <2>2 DEF CInv
  <1>4. CASE Next /\ pc # "down" /\ pc' # "down"
    <2>1. Counted' /\ PoolNewest' /\ Survive' /\ Logged' /\ MemoryIndexed' /\ Values'
      BY <1>4, CountedKept, PoolNewestKept, SurviveKept, LoggedKept, MemoryIndexedKept, ValuesKept
    <2>2. DurableContents'  BY <1>0, <1>4, DurableContentsKept
    <2> QED  BY <1>4, <2>1, <2>2 DEF CInv, DurableContents
  <1> QED  BY <1>1, <1>2, <1>3, <1>4

LEMMA CInvInvariant == RecordsFit /\ Spec => []CInv
  <1>1. RecordsFit /\ Init => CInv  BY InitCInv
  <1>2. IInv /\ Bounds /\ FInv /\ CInv /\ [Next]_vars => CInv'  BY NextCInv
  <1> QED  BY <1>1, <1>2, BoundsInvariant, FInvInvariant, PTL DEF Spec

(* Between operations the buffer, or else the record the LSM-tree locates,  *)
(* has the value of the last put, and one no older than the last flushed.   *)
LEMMA CInvReads ==
  ASSUME IInv, Bounds, FInv, CInv, pc = "idle", NEW k \in Key, Hash[k] \notin torn
  PROVE  GetValue(k) = latest[k] /\ GetValue(k) >= flushed[k]
  <1>0. /\ PoolNewest /\ Values /\ Counted /\ pool \in Seq(Entry) /\ Hash[k] \in Sound
        /\ Image = disk /\ Where = lsm /\ Moving = {}
    BY CFacts, FFacts, Quiescent, HashKVAssumption DEF Buffer, Sound
  <1>1. flushed[k] <= latest[k] /\ flushed[k] \in Int /\ latest[k] \in Int
    BY <1>0 DEF Values, Counted
  <1>2. CASE InPool(k) # 0
    <2>1. /\ InPool(k) \in DOMAIN pool /\ pool[InPool(k)].key = k
          /\ \A j \in DOMAIN pool : j > InPool(k) => pool[j].key # k
      BY <1>0, <1>2, InPoolFacts
    <2>2. pool[InPool(k)].val = latest[k]  BY <1>0, <2>1 DEF PoolNewest
    <2>3. GetValue(k) = latest[k]  BY <1>2, <2>2 DEF GetValue
    <2> QED  BY <1>1, <2>3
  <1>3. CASE InPool(k) = 0
    <2>1. \A j \in DOMAIN pool : pool[j].key # k  BY <1>0, <1>3, InPoolFacts
    <2>2. ~ Unflushed(k)  BY <1>0, <2>1 DEF Unflushed, PoolNewest
    <2>3. ReadDisk(disk, k, lsm[k]) = latest[k]  BY <1>0, <2>2 DEF Values
    <2>4. GetValue(k) = latest[k]  BY <1>3, <2>3 DEF GetValue
    <2> QED  BY <1>1, <2>4
  <1> QED  BY <1>2, <1>3

(* Whatever puts, flushes, collections, crashes and recoveries came before, *)
(* a read between operations (kvServer.cc getValue) returns the value of    *)
(* the key's last put: the record is in the buffer, in the segment its      *)
(* flush gave it, or where garbage collection moved it, and the LSM-tree    *)
(* locates the last one.  Of every key but those of torn groups, when what  *)
(* putValue accepts fits a segment.                                         *)
THEOREM ReadsAlwaysLatest == RecordsFit => (Spec => []ReadsLatest)
  <1>1. IInv /\ Bounds /\ FInv /\ CInv => ReadsLatest  BY CInvReads DEF ReadsLatest
  <1> QED  BY <1>1, BoundsInvariant, FInvInvariant, CInvInvariant, PTL

(* A value whose flush has ended is not lost and not replaced by an older   *)
(* one or by garbage, in a group that is not torn: records go behind what   *)
(* is persisted of their segments until the metadata is written             *)
(* (logMetaPersist), and the log of the flush (setBatchUpdateKeyValue) has  *)
(* what recovery needs in between.  When what putValue accepts fits a       *)
(* segment.                                                                 *)
THEOREM FlushedAlwaysSurvives == RecordsFit => (Spec => []FlushedSurvives)
  <1>1. IInv /\ Bounds /\ FInv /\ CInv => FlushedSurvives  BY CInvReads DEF FlushedSurvives
  <1> QED  BY <1>1, BoundsInvariant, FInvInvariant, CInvInvariant, PTL
=============================================================================
