---------------------------- MODULE HashKV_fronts ----------------------------
(***************************************************************************)
(* How far a group of HashKV is filled is written down three times: its    *)
(* front in memory, the fronts of its segments, and the persisted entry of *)
(* the group. FrontsAgree, for any number of groups, segments, records and *)
(* crashes: FInv says at every step which of them is ahead and why         *)
(* recovery can tell.                                                      *)
(***************************************************************************)
EXTENDS HashKV_proofs

----------------------------------------------------------------------------
(* The three accounts of a group's front                                    *)

\* front f of a group with these segments is where the last of them is filled to
Aligned(f, segs, fronts, g) ==
  IF segs = <<>> THEN f = 0 /\ fronts[g] = 0
  ELSE f = FrontOf(segs, fronts) /\ (Len(segs) > 1 => fronts[Last(segs)] > 0)

Sound == Group \ torn

\* how far a group is filled: a flush and a collection keep that to themselves
FrontNow(g) ==
  IF (Flushing /\ cur = g) \/ (pc = "rewrite" /\ victim = g) THEN curFront ELSE meta.front[g]

\* the group being collected before the first record is placed
NotBegun(g) ==
  /\ g = victim /\ pc \in {"rewrite", "gcdata"} /\ FrontNow(g) = 0 /\ meta.segs[g] = <<g>>
  /\ touched = {} /\ unwritten = {}

MemoryAligned ==
  \A g \in Sound : NotBegun(g) \/ Aligned(FrontNow(g), meta.segs[g], meta.segFront, g)

\* the batch names the segments it filled, up to their fronts
Ends ==
  /\ \A i \in DOMAIN batch :
       /\ batch[i].loc.seg \in touched
       /\ \E g \in modified : batch[i].loc.seg \in ToSet(meta.segs[g])
  /\ \A g \in Sound : \A i \in DOMAIN batch :
       batch[i].loc.seg \in ToSet(meta.segs[g]) =>
         batch[i].loc.off + batch[i].loc.size <= meta.segFront[batch[i].loc.seg]
  /\ \A s \in touched : \E i \in DOMAIN batch : batch[i].loc.seg = s
  /\ \A g \in Sound : \A s \in touched \cap ToSet(meta.segs[g]) :
       \E i \in DOMAIN batch :
         batch[i].loc.seg = s /\ batch[i].loc.off + batch[i].loc.size = meta.segFront[s]

\* a segment the batch did not touch is as it was persisted
Untouched ==
  /\ \A g \in Sound : groupMeta[g] = NoGroup => segMeta[g] = 0
  /\ \A g \in Sound : \A s \in ToSet(meta.segs[g]) :
       (s \notin touched /\ g # victim) \/ pc = "ack" =>
         segMeta[s] = meta.segFront[s] /\ s \in ToSet(groupMeta[g].segs) \cup {g}
  /\ victim # None => NotBegun(victim) \/ ToSet(meta.segs[victim]) \subseteq touched

\* a group the flush has not come to is new or as it was persisted
Unmodified ==
  \A g \in Sound : g \notin modified \/ pc = "ack" =>
    \/ /\ groupMeta[g] = NoGroup /\ g \notin modified
       /\ meta.segs[g] \in {<<>>, <<g>>} /\ meta.front[g] = 0
    \/ /\ groupMeta[g].segs = meta.segs[g] /\ groupMeta[g] # NoGroup
       /\ g \in exposed \/ groupMeta[g].front = meta.front[g]

DurableAligned ==
  \A g \in Sound \ exposed :
    groupMeta[g] # NoGroup => Aligned(groupMeta[g].front, groupMeta[g].segs, segMeta, g)

\* when there is a batch, and when a group can be exposed
Course ==
  /\ unwritten = {} \/ pc \in {"rewrite", "gcdata"}
  /\ pc \in {"idle", "gc"} => batch = <<>> /\ modified = {} /\ touched = {}
  /\ Flushing => cur \in modified /\ (pc # "flush" => PendingOf(cur) # {})
  /\ \A g \in modified : meta.segs[g] # <<>>
  /\ updateLog # NoLog => updateLog.keys = batch
  /\ exposed \subseteq {g \in Group : PendingOf(g) # {}} \cup (IF pc = "ack" THEN {} ELSE modified)
  /\ pc \in {"keys", "meta", "ack"} => Stale \subseteq exposed
  /\ pc = "idle" => exposed = {}

\* what is durable of a group whose recovery works
Recoverable ==
  /\ \A i \in DOMAIN updateLog.keys : \E g \in DOMAIN updateLog.groups :
       updateLog.keys[i].loc.seg \in ToSet(updateLog.groups[g].segs)
  /\ \A g \in Sound : groupMeta[g] = NoGroup => segMeta[g] = 0
  /\ \A g \in Sound \cap DOMAIN updateLog.groups :
       /\ groupMeta[g] # NoGroup
       /\ Aligned(updateLog.groups[g].front, updateLog.groups[g].segs,
                  FrontsFrom(segMeta, updateLog.keys), g)
       /\ \A s \in ToSet(updateLog.groups[g].segs) :
            EndsIn(updateLog.keys, s) = {} => s \in ToSet(groupMeta[g].segs) \cup {g}
  /\ \A g \in Sound \ DOMAIN updateLog.groups :
       groupMeta[g] # NoGroup => Aligned(groupMeta[g].front, groupMeta[g].segs, segMeta, g)
  /\ Sound \cap DOMAIN gcLog = {} /\ exposed = {}
  /\ batch = <<>> /\ modified = {} /\ touched = {} /\ unwritten = {}

FInv ==
  IF pc = "down" THEN Recoverable
  ELSE MemoryAligned /\ Ends /\ Untouched /\ Unmodified /\ DurableAligned /\ Course

----------------------------------------------------------------------------
(* Lists of segments and their fronts                                       *)

LEMMA ListMembers ==
  ASSUME NEW g \in Group, NEW segs, Shape(segs, g)
  PROVE  /\ ToSet(segs) \subseteq LogsOf(segs) \cup {g} /\ ToSet(segs) \subseteq Segment
         /\ segs # <<>> => g \in ToSet(segs) /\ Last(segs) \in ToSet(segs)
         /\ segs = <<>> => ToSet(segs) = {}
  <1>1. CASE segs = <<>>  BY <1>1 DEF ToSet
  <1>2. CASE segs # <<>>
    <2>1. segs \in Seq(Segment) /\ segs[1] = g /\ \A i \in 2..Len(segs) : segs[i] \in LogSeg
      BY <1>2 DEF Shape
    <2>2. Len(segs) \in Nat \ {0} /\ DOMAIN segs = 1..Len(segs)  BY <1>2, <2>1
    <2>3. ASSUME NEW i \in DOMAIN segs PROVE segs[i] \in LogsOf(segs) \cup {g} /\ segs[i] \in Segment
      <3>1. CASE i = 1  BY <2>1, <3>1, SegmentFacts
      <3>2. CASE i # 1
        <4>1. i \in 2..Len(segs)  BY <2>2, <3>2
        <4> QED  BY <2>1, <4>1, SegmentFacts DEF LogsOf, ToSet
      <3> QED  BY <3>1, <3>2
    <2>4. \A x \in ToSet(segs) : \E i \in DOMAIN segs : x = segs[i]  BY DEF ToSet
    <2>5. Last(segs) \in ToSet(segs)  BY <1>2, ListFacts
    <2>6. g \in ToSet(segs)  BY <2>1, <2>2 DEF ToSet
    <2> QED  BY <1>2, <2>3, <2>4, <2>5, <2>6
  <1> QED  BY <1>1, <1>2

LEMMA ListsDisjoint ==
  ASSUME NEW g \in Group, NEW h \in Group, g # h, NEW a, NEW b, Shape(a, g), Shape(b, h),
         LogsOf(a) \cap LogsOf(b) = {}
  PROVE  ToSet(a) \cap ToSet(b) = {} /\ g \notin ToSet(b)
  <1>1. ToSet(a) \subseteq LogsOf(a) \cup {g} /\ ToSet(b) \subseteq LogsOf(b) \cup {h}
    BY ListMembers
  <1>2. g \notin LogsOf(b) /\ h \notin LogsOf(a)  BY SegmentFacts DEF LogsOf
  <1> QED  BY <1>1, <1>2

LEMMA OwnDisjoint ==
  ASSUME NEW m, Own(m), NEW g \in Group, NEW h \in Group, g # h
  PROVE  ToSet(m.segs[g]) \cap ToSet(m.segs[h]) = {} /\ g \notin ToSet(m.segs[h])
  <1>1. Shape(m.segs[g], g) /\ Shape(m.segs[h], h) /\ LogsOf(m.segs[g]) \cap LogsOf(m.segs[h]) = {}
    BY OwnFacts DEF Own
  <1> QED  BY <1>1, ListsDisjoint

LEMMA AlignedSame ==
  ASSUME NEW g \in Group, NEW segs, Shape(segs, g), NEW F, NEW G,
         \A s \in ToSet(segs) : F[s] = G[s], segs = <<>> => F[g] = G[g],
         NEW f, Aligned(f, segs, F, g)
  PROVE  Aligned(f, segs, G, g)
  <1>1. CASE segs = <<>>  BY <1>1 DEF Aligned
  <1>2. CASE segs # <<>>
    <2>1. f = FrontOf(segs, F) /\ (Len(segs) > 1 => F[Last(segs)] > 0)  BY <1>2 DEF Aligned
    <2>2. F[Last(segs)] = G[Last(segs)] /\ F[segs[1]] = G[segs[1]]
      <3>1. Last(segs) \in ToSet(segs) /\ g \in ToSet(segs)  BY <1>2, ListMembers
      <3>2. segs[1] = g  BY <1>2 DEF Shape
      <3> QED  BY <3>1, <3>2
    <2>3. FrontOf(segs, F) = FrontOf(segs, G)  BY <2>2 DEF FrontOf
    <2> QED  BY <1>2, <2>1, <2>2, <2>3 DEF Aligned
  <1> QED  BY <1>1, <1>2

\* a list has these segments and one more, or had that already
Grown(new, old, s) == ToSet(new) = ToSet(old) \cup {s}

(* A placement touches one segment, of its group or free before.            *)
LEMMA PlaceEffects ==
  ASSUME NEW m, Own(m), MetaFits(m), NEW g \in Group, m.segs[g] # <<>>,
         NEW f \in Nat, f <= Room(m.segs[g]), NEW size \in 1..LogSize,
         CanPlace(m, g, f, size), NEW p, p = Place(m, g, f, size)
  PROVE  /\ p.loc.seg \in Segment /\ p.loc.seg \in ToSet(p.meta.segs[g])
         /\ p.loc.seg = Last(p.meta.segs[g])
         /\ Grown(p.meta.segs[g], m.segs[g], p.loc.seg)
         /\ p.loc.seg \in ToSet(m.segs[g]) => p.meta.segs[g] = m.segs[g]
         /\ p.loc.seg \notin ToSet(m.segs[g]) => p.loc.off = 0
         /\ \A h \in Group \ {g} : p.meta.segs[h] = m.segs[h] /\ p.loc.seg \notin ToSet(m.segs[h])
         /\ p.meta.front = m.front
         /\ p.meta.segFront[p.loc.seg] = p.loc.off + size
         /\ \A s \in Segment \ {p.loc.seg} : p.meta.segFront[s] = m.segFront[s]
  <1> DEFINE n == p.meta
             seg == p.loc.seg
  <1>0. Placement(m, g, f, size, p)  BY PlaceCases
  <1>1. /\ p.loc = [seg |-> p.loc.seg, off |-> p.loc.off, size |-> size]
        /\ p.loc.seg = Last(n.segs[g]) /\ n.front = m.front
        /\ n.segFront = [m.segFront EXCEPT ![p.loc.seg] = p.loc.off + size]
        /\ InMain(m, g, f, size, p) \/ InLast(m, g, f, size, p) \/ InFresh(m, g, f, size, p)
    BY <1>0 DEF Placement
  <1>2. Own(n) /\ n.segs[g] # <<>> /\ \A h \in Group \ {g} : n.segs[h] = m.segs[h]
    BY PlaceOwn
  <1>3. seg \in Segment  BY PlaceFits DEF Loc
  <1>4. Shape(n.segs[g], g) /\ Shape(m.segs[g], g)  BY <1>2 DEF Own
  <1>5. seg \in ToSet(n.segs[g])  BY <1>1, <1>2, <1>4, ListMembers
  <1>6. /\ ToSet(n.segs[g]) = ToSet(m.segs[g]) \cup {seg}
        /\ seg \in ToSet(m.segs[g]) => n.segs[g] = m.segs[g]
        /\ seg \notin ToSet(m.segs[g]) => p.loc.off = 0
    <2>1. CASE n.segs = m.segs  BY <1>5, <2>1
    <2>2. CASE InFresh(m, g, f, size, p)
      <3>1. seg \in LogSeg \ m.used /\ p.loc.off = 0 /\ n.segs = [m.segs EXCEPT ![g] = Append(m.segs[g], seg)]
        BY <2>2 DEF InFresh
      <3>2. DOMAIN m.segs = Group /\ m.segs[g] \in Seq(Segment)  BY <1>4 DEF Own, Shape
      <3>3. n.segs[g] = Append(m.segs[g], seg)  BY <3>1, <3>2
      <3>4. ToSet(n.segs[g]) = ToSet(m.segs[g]) \cup {seg}  BY <1>3, <3>2, <3>3, SetOfAppend
      <3>5. seg \notin ToSet(m.segs[g])  BY <3>1, OwnFacts DEF LogsOf
      <3> QED  BY <3>1, <3>4, <3>5
    <2> QED  BY <1>1, <2>1, <2>2 DEF InMain, InLast
  <1>7. ASSUME NEW h \in Group \ {g} PROVE seg \notin ToSet(m.segs[h])
    <2>1. ToSet(n.segs[g]) \cap ToSet(n.segs[h]) = {}  BY <1>2, OwnDisjoint
    <2> QED  BY <1>2, <1>5, <2>1
  <1>8. DOMAIN m.segFront = Segment  BY DEF MetaFits
  <1>9. n.segFront[seg] = p.loc.off + size /\ \A s \in Segment \ {seg} : n.segFront[s] = m.segFront[s]
    BY <1>1, <1>3, <1>8
  <1>10. Grown(n.segs[g], m.segs[g], seg)  BY <1>6 DEF Grown
  <1> QED  BY <1>1, <1>2, <1>3, <1>5, <1>6, <1>7, <1>9, <1>10

LEMMA OneOrMore == \A n \in Nat \ {0} : (n = 1 \/ n > 1) /\ (n > 1 => n # 1)
  OBVIOUS

(* The front is where the last segment is filled to, after a placement too; *)
(* a record goes behind what its segment holds.                             *)
LEMMA PlaceAligned ==
  ASSUME NEW m, Own(m), MetaFits(m), NEW g \in Group, m.segs[g] # <<>>,
         NEW f \in Nat, f <= Room(m.segs[g]), NEW size \in 1..LogSize,
         CanPlace(m, g, f, size), NEW p, p = Place(m, g, f, size),
         Aligned(f, m.segs[g], m.segFront, g)
  PROVE  /\ Aligned(p.front, p.meta.segs[g], p.meta.segFront, g)
         /\ p.loc.seg \in ToSet(m.segs[g]) => p.loc.off = m.segFront[p.loc.seg]
  <1> DEFINE segs == m.segs[g]
             n == p.meta
             seg == p.loc.seg
             y == m.segFront[Last(segs)]
             k == Len(segs) - 2
             a == k * LogSize
  <1>1. InMain(m, g, f, size, p) \/ InLast(m, g, f, size, p) \/ InFresh(m, g, f, size, p)
    BY PlaceCases DEF Placement
  <1>2. /\ seg \in Segment /\ seg = Last(n.segs[g]) /\ n.segFront[seg] = p.loc.off + size
        /\ seg \in ToSet(segs) => n.segs[g] = segs
    BY PlaceEffects
  <1>3. Shape(segs, g)  BY DEF Own
  <1>4. /\ segs \in Seq(Segment) /\ Len(segs) \in Nat \ {0} /\ Last(segs) \in Segment
        /\ Len(segs) = 1 => Last(segs) = g /\ segs = <<g>>
        /\ Len(segs) > 1 => Last(segs) \in LogSeg
    BY <1>3, ListFacts
  <1>l. Len(segs) \in Nat \ {0}  BY <1>4
  <1>5. MainSize \in Nat \ {0} /\ LogSize \in Nat \ {0}  BY SizeFacts
  <1>6. f = FrontOf(segs, m.segFront) /\ (Len(segs) > 1 => y > 0)  BY DEF Aligned
  <1>7. y \in Nat /\ y <= Cap(Last(segs)) /\ Cap(Last(segs)) \in Nat
    BY <1>4, SizeFacts DEF MetaFits
  <1>8. Len(segs) = 1 => f = y /\ f <= MainSize
    <2>1. Len(segs) = 1 => f = m.segFront[segs[1]] /\ segs[1] = Last(segs)  BY <1>4, <1>6 DEF FrontOf
    <2>2. Len(segs) = 1 => Room(segs) = MainSize  BY <1>4, RoomFacts
    <2> QED  BY <2>1, <2>2
  <1>9. Len(segs) > 1 =>
          /\ k \in Nat /\ a \in Nat /\ f = MainSize + a + y /\ y \in 1..LogSize
          /\ f > MainSize
    <2> SUFFICES ASSUME Len(segs) > 1
                 PROVE  /\ k \in Nat /\ a \in Nat /\ f = MainSize + a + y /\ y \in 1..LogSize
                        /\ f > MainSize
      OBVIOUS
    <2>1. k \in Nat  BY <1>4
    <2>2. f = MainSize + a + y
      <3>1. Len(segs) # 1  BY <1>l, OneOrMore, Zenon
      <3>2. FrontOf(segs, m.segFront) = MainSize + a + y  BY <3>1, Zenon DEF FrontOf
      <3> QED  BY <1>6, <3>2
    <2>3. y \in 1..LogSize
      <3>1. Cap(Last(segs)) = LogSize  BY <1>4, SegmentFacts DEF Cap
      <3> QED  BY <1>5, <1>6, <1>7, <3>1
    <2> HIDE DEF k, y
    <2>4. a \in Nat  BY <1>5, <2>1
    <2> HIDE DEF a
    <2> QED  BY <1>5, <2>1, <2>2, <2>3, <2>4
  <1>10. Len(segs) > 1 =>
           (f - MainSize) % LogSize = IF y = LogSize THEN 0 ELSE y
    <2> SUFFICES ASSUME Len(segs) > 1
                 PROVE  (f - MainSize) % LogSize = IF y = LogSize THEN 0 ELSE y
      OBVIOUS
    <2> HIDE DEF k, y
    <2>1. k \in Nat /\ y \in 1..LogSize /\ f - MainSize = k * LogSize + y
      BY <1>5, <1>9
    <2>2. CASE y # LogSize
      <3>1. y \in 0..(LogSize - 1)  BY <1>5, <2>1, <2>2
      <3>2. (k * LogSize + y) % LogSize = y  BY <1>5, <2>1, <3>1, ModuloOfBlock
      <3> QED  BY <2>1, <2>2, <3>2
    <2>3. CASE y = LogSize
      <3>1. k + 1 \in Nat /\ 0 \in 0..(LogSize - 1)  BY <1>5, <2>1
      <3>2. ((k + 1) * LogSize + 0) % LogSize = 0  BY <1>5, <3>1, ModuloOfBlock
      <3>3. (k + 1) * LogSize + 0 = k * LogSize + y  BY <1>5, <2>1, <2>3
      <3>4. (k * LogSize + y) % LogSize = 0  BY <3>2, <3>3
      <3> QED  BY <2>1, <2>3, <3>4
    <2> QED  BY <2>2, <2>3
  <1> HIDE DEF y, k, a
  <1>11. CASE InMain(m, g, f, size, p)
    <2>1. /\ Len(segs) = 1 /\ n.segs = m.segs /\ seg = g /\ p.loc.off = f /\ p.front = f + size
      BY <1>11 DEF InMain
    <2>2. FrontOf(n.segs[g], n.segFront) = f + size
      BY <1>2, <1>4, <2>1 DEF FrontOf
    <2>3. p.loc.off = m.segFront[seg]  BY <1>4, <1>8, <2>1 DEF y
    <2>4. n.segs[g] # <<>> /\ ~ (Len(n.segs[g]) > 1)
      <3>1. n.segs[g] = segs  BY <2>1
      <3>2. ~ (Len(segs) > 1)  BY <1>l, <2>1
      <3> QED  BY <3>1, <3>2
    <2> QED  BY <2>1, <2>2, <2>3, <2>4 DEF Aligned
  <1>12. CASE InLast(m, g, f, size, p)
    <2>1. /\ Len(segs) > 1 /\ n.segs = m.segs /\ p.loc.off = (f - MainSize) % LogSize
          /\ p.loc.off # 0 /\ p.front = f + size
      BY <1>12 DEF InLast
    <2>2. p.loc.off = y /\ seg = Last(segs)  BY <1>2, <1>10, <2>1
    <2>3. FrontOf(n.segs[g], n.segFront) = MainSize + a + (y + size)
      <3>0. Len(segs) # 1  BY <1>l, <2>1, OneOrMore, Zenon
      <3>1. n.segs[g] = segs /\ n.segFront[Last(segs)] = y + size
        BY <1>2, <2>1, <2>2
      <3>2. FrontOf(segs, n.segFront) = MainSize + a + n.segFront[Last(segs)]
        BY <3>0, Zenon DEF FrontOf, a, k
      <3> QED  BY <3>1, <3>2
    <2>4. p.front = MainSize + a + (y + size)
      <3>1. a \in Nat /\ y \in Nat /\ f = MainSize + a + y  BY <1>7, <1>9, <2>1
      <3> QED  BY <1>5, <2>1, <3>1
    <2>5. n.segFront[Last(n.segs[g])] > 0  BY <1>2, <1>9, <2>1, <2>2
    <2> QED  BY <1>4, <2>1, <2>2, <2>3, <2>4, <2>5 DEF Aligned, y
  <1>13. CASE InFresh(m, g, f, size, p)
    <2>1. seg \in LogSeg \ m.used /\ p.loc.off = 0 /\ n.segs = [m.segs EXCEPT ![g] = Append(segs, seg)]
      BY <1>13 DEF InFresh
    <2>2. n.segs[g] = Append(segs, seg)  BY <2>1 DEF Own
    <2>3. Len(n.segs[g]) = Len(segs) + 1 /\ n.segs[g] # <<>>  BY <1>2, <1>4, <2>2
    <2>4. seg \notin ToSet(segs)  BY <2>1, OwnFacts DEF LogsOf
    <2>5. n.segFront[Last(n.segs[g])] = size /\ size > 0  BY <1>2, <2>1
    <2>6. FrontOf(n.segs[g], n.segFront) = MainSize + (Len(segs) - 1) * LogSize + size
      <3>1. Len(segs) + 1 - 2 = Len(segs) - 1 /\ Len(segs) + 1 # 1  BY <1>4
      <3> QED  BY <2>3, <2>5, <3>1 DEF FrontOf
    <2>7. p.front = MainSize + (Len(segs) - 1) * LogSize + size
      <3>1. CASE Len(segs) = 1
        <4>1. f <= MainSize /\ p.front = MainSize + size  BY <1>5, <1>8, <1>13, <3>1 DEF InFresh
        <4>2. (Len(segs) - 1) * LogSize = 0  BY <1>5, <3>1
        <4> QED  BY <1>5, <4>1, <4>2
      <3>2. CASE Len(segs) > 1
        <4>1. (Len(segs) - 1) * LogSize = a + LogSize  BY <1>4, <1>5 DEF a, k
        <4>2. p.front = f + (LogSize - y) + size
          <5>1. \/ (f - MainSize) % LogSize = 0 /\ p.front = f + size
                \/ /\ (f - MainSize) % LogSize # 0
                   /\ p.front = f + (LogSize - ((f - MainSize) % LogSize)) + size
            BY <1>5, <1>9, <1>13, <3>2 DEF InFresh
          <5>2. (f - MainSize) % LogSize = (IF y = LogSize THEN 0 ELSE y) /\ y \in 1..LogSize
            BY <1>9, <1>10, <3>2
          <5> HIDE DEF y
          <5> QED  BY <1>5, <5>1, <5>2
        <4> DEFINE b == (Len(segs) - 1) * LogSize
        <4>3. b = a + LogSize  BY <4>1
        <4> HIDE DEF b
        <4>4. p.front = MainSize + b + size  BY <1>5, <1>9, <3>2, <4>2, <4>3
        <4> QED  BY <4>4 DEF b
      <3>3. Len(segs) = 1 \/ Len(segs) > 1  BY <1>l, OneOrMore, Zenon
      <3> QED  BY <3>1, <3>2, <3>3, Zenon
    <2> QED  BY <2>3, <2>4, <2>5, <2>6, <2>7 DEF Aligned
  <1> QED  BY <1>1, <1>11, <1>12, <1>13

----------------------------------------------------------------------------
(* The fronts stay aligned in memory                                        *)

LEMMA FFacts ==
  ASSUME IInv, Bounds, FInv, pc # "down"
  PROVE  /\ MemoryAligned /\ Ends /\ Untouched /\ Unmodified /\ DurableAligned /\ Course
         /\ Own(meta) /\ MetaFits(meta) /\ DurableFits /\ Phases /\ Behind /\ Buffer
         /\ \A g \in Group : Shape(meta.segs[g], g) /\ Shape(groupMeta[g].segs, g)
  BY RunningFacts DEF FInv, Bounds, MemoryFits

LEMMA NewMainParts ==
  ASSUME NEW m, Own(m), MetaFits(m), NEW g \in Group, NEW n, n = GetNewMainSegment(m, g)
  PROVE  /\ n.segFront = m.segFront
         /\ \A h \in Group : h # g \/ m.segs[h] # <<>> => n.segs[h] = m.segs[h] /\ n.front[h] = m.front[h]
         /\ m.segs[g] = <<>> => n.segs[g] = <<g>> /\ n.front[g] = 0
  <1>1. CASE m.segs[g] # <<>>  BY <1>1 DEF GetNewMainSegment
  <1>2. CASE m.segs[g] = <<>>
    <2>1. n = [segs |-> [m.segs EXCEPT ![g] = <<g>>], front |-> [m.front EXCEPT ![g] = 0],
               segFront |-> m.segFront, used |-> m.used, free |-> m.free]
      BY <1>2 DEF Own, GetNewMainSegment
    <2>2. /\ n.segs = [m.segs EXCEPT ![g] = <<g>>] /\ n.front = [m.front EXCEPT ![g] = 0]
          /\ n.segFront = m.segFront
      BY <2>1
    <2>3. DOMAIN m.segs = Group /\ DOMAIN m.front = Group  BY DEF Own, MetaFits
    <2> QED  BY <1>2, <2>2, <2>3
  <1> QED  BY <1>1, <1>2

LEMMA ReleaseParts ==
  ASSUME NEW m, Own(m), MetaFits(m), NEW g \in Group, NEW n, n = ReleaseGroup(m, g)
  PROVE  /\ n.segs[g] = <<g>> /\ n.front[g] = 0
         /\ \A h \in Group \ {g} :
              /\ n.segs[h] = m.segs[h] /\ n.front[h] = m.front[h]
              /\ n.segFront[h] = m.segFront[h]
              /\ \A s \in ToSet(m.segs[h]) : n.segFront[s] = m.segFront[s]
  <1> DEFINE logs == ToSet(LogSegments(m, g))
             fronts == [s \in Segment |-> IF s \in logs THEN 0 ELSE m.segFront[s]]
  <1>1. n = [m EXCEPT !.segs[g] = <<g>>, !.front[g] = 0, !.used = @ \ logs,
                      !.free = @ + Cardinality(logs), !.segFront = fronts]
    BY DEF ReleaseGroup
  <1> HIDE DEF fronts, logs
  <1>2. n = [segs |-> [m.segs EXCEPT ![g] = <<g>>], front |-> [m.front EXCEPT ![g] = 0],
             segFront |-> fronts, used |-> m.used \ logs, free |-> m.free + Cardinality(logs)]
    BY <1>1 DEF Own
  <1>3. /\ n.segs = [m.segs EXCEPT ![g] = <<g>>] /\ n.front = [m.front EXCEPT ![g] = 0]
        /\ n.segFront = fronts
    BY <1>2
  <1>4. DOMAIN m.segs = Group /\ DOMAIN m.front = Group  BY DEF Own, MetaFits
  <1>5. logs = LogsOf(m.segs[g])  BY LogsOfTail DEF Own, logs
  <1>6. ASSUME NEW h \in Group \ {g}, NEW s \in ToSet(m.segs[h]) \cup {h}
        PROVE  n.segFront[s] = m.segFront[s]
    <2>1. Shape(m.segs[h], h) /\ ToSet(m.segs[g]) \cap ToSet(m.segs[h]) = {}
      BY OwnDisjoint DEF Own
    <2>2. s \in Segment  BY <2>1, ListMembers, SegmentFacts
    <2>3. s \notin logs  BY <1>5, <2>1, SegmentFacts DEF LogsOf
    <2> QED  BY <1>3, <2>2, <2>3 DEF fronts
  <1> QED  BY <1>3, <1>4, <1>6

(* A group that a step does not touch stays aligned.                        *)
LEMMA StaysAligned ==
  ASSUME NEW g \in Group, Shape(meta.segs[g], g),
         NotBegun(g) \/ Aligned(FrontNow(g), meta.segs[g], meta.segFront, g),
         FrontNow(g)' = FrontNow(g), meta'.segs[g] = meta.segs[g],
         \A s \in ToSet(meta.segs[g]) \cup {g} : meta'.segFront[s] = meta.segFront[s],
         NotBegun(g) => NotBegun(g)'
  PROVE  (NotBegun(g) \/ Aligned(FrontNow(g), meta.segs[g], meta.segFront, g))'
  <1>1. CASE NotBegun(g)  BY <1>1
  <1>2. CASE Aligned(FrontNow(g), meta.segs[g], meta.segFront, g)
    <2>1. Aligned(FrontNow(g), meta.segs[g], meta'.segFront, g)
      <3> DEFINE f == FrontNow(g)
                 sg == meta.segs[g]
                 F == meta.segFront
                 G == meta'.segFront
      <3>1. Shape(sg, g) /\ Aligned(f, sg, F, g) /\ \A s \in ToSet(sg) : F[s] = G[s]
        BY <1>2
      <3>2. F[g] = G[g]  OBVIOUS
      <3> HIDE DEF f, sg, F, G
      <3>3. Aligned(f, sg, G, g)  BY <3>1, <3>2, AlignedSame
      <3> QED  BY <3>3 DEF f, sg, G
    <2>2. Aligned(FrontNow(g)', meta'.segs[g], meta'.segFront, g)  BY <2>1
    <2> QED  BY <2>2
  <1> QED  BY <1>1, <1>2

(* The first record of a collected group goes to the start of its main      *)
(* segment.                                                                 *)
LEMMA FirstPlace ==
  ASSUME NEW m, Own(m), MetaFits(m), NEW g \in Group, m.segs[g] = <<g>>,
         NEW size \in 1..LogSize, size <= MainSize,
         NEW f \in Nat, f = 0, CanPlace(m, g, f, size), NEW p, p = Place(m, g, f, size)
  PROVE  /\ Aligned(p.front, p.meta.segs[g], p.meta.segFront, g)
         /\ p.loc.seg = g /\ p.meta.segs[g] = <<g>> /\ p.loc.off = 0
  <1>1. MainSize \in Nat \ {0} /\ LogSize \in Nat \ {0}  BY SizeFacts
  <1>2. m.segs[g] # <<>> /\ f <= Room(m.segs[g])
    <2>1. Room(<<g>>) = MainSize
      <3>1. <<g>> \in Seq(Segment) /\ Len(<<g>>) = 1  BY SegmentFacts
      <3> QED  BY <3>1, RoomFacts
    <2> QED  BY <1>1, <2>1
  <1>3. FitsMain(m, g, f, size)
    <2>1. LogSegments(m, g) = <<>>
      <3>1. Tail(<<g>>) = <<>>  OBVIOUS
      <3> QED  BY <3>1 DEF LogSegments
    <2> QED  BY <1>1, <2>1 DEF FitsMain
  <1>4. FitsMain(m, g, f, size) => InMain(m, g, f, size, p)  BY <1>2, PlaceCases
  <1>s. /\ p.loc = [seg |-> p.loc.seg, off |-> p.loc.off, size |-> size]
        /\ p.loc.seg = Last(p.meta.segs[g]) /\ p.meta.front = m.front
        /\ p.meta.segFront = [m.segFront EXCEPT ![p.loc.seg] = p.loc.off + size]
        /\ InMain(m, g, f, size, p) \/ InLast(m, g, f, size, p) \/ InFresh(m, g, f, size, p)
    BY <1>2, PlaceCases DEF Placement
  <1>5. p.meta.segs = m.segs /\ p.loc.seg = g /\ p.loc.off = 0 /\ p.front = 0 + size
    BY <1>3, <1>4 DEF InMain
  <1>6. p.meta.segFront[p.loc.seg] = p.loc.off + size  BY <1>5, <1>s, SegmentFacts DEF MetaFits
  <1>7. p.meta.segFront[g] = size /\ p.front = size  BY <1>1, <1>5, <1>6
  <1>8. <<g>> # <<>> /\ Len(<<g>>) = 1 /\ <<g>>[1] = g  OBVIOUS
  <1>9. Aligned(size, <<g>>, p.meta.segFront, g)  BY <1>7, <1>8 DEF Aligned, FrontOf
  <1> QED  BY <1>5, <1>7, <1>9

LEMMA MemoryAlignedKept ==
  ASSUME IInv, Bounds, FInv, pc # "down", Next, pc' # "down"
  PROVE  MemoryAligned'
  <1>0. /\ MemoryAligned /\ Course /\ Own(meta) /\ MetaFits(meta) /\ Phases /\ Buffer
        /\ \A g \in Group : Shape(meta.segs[g], g)
    BY FFacts
  <1>i. pc = "idle" => cur = None  BY DEF Bounds, MemoryFits
  <1>1. ASSUME torn \subseteq torn',
               \A g \in Sound :
                 /\ FrontNow(g)' = FrontNow(g) /\ meta'.segs[g] = meta.segs[g]
                 /\ \A s \in ToSet(meta.segs[g]) \cup {g} : meta'.segFront[s] = meta.segFront[s]
                 /\ NotBegun(g) => NotBegun(g)'
        PROVE  MemoryAligned'
    <2>1. ASSUME NEW g \in Sound
          PROVE  (NotBegun(g) \/ Aligned(FrontNow(g), meta.segs[g], meta.segFront, g))'
      <3>1. g \in Group  BY DEF Sound
      <3>2. NotBegun(g) \/ Aligned(FrontNow(g), meta.segs[g], meta.segFront, g)
        BY <1>0 DEF MemoryAligned
      <3> QED  BY <1>0, <1>1, <3>1, <3>2, StaysAligned
    <2>2. Sound' \subseteq Sound  BY <1>1 DEF Sound
    <2> QED  BY <2>1, <2>2 DEF MemoryAligned
  <1>2. ASSUME NEW k \in Key, NEW s \in Sizes[k], Put(k, s) \/ FlushBeforeWrite(k, s)
        PROVE  MemoryAligned'
    <2> DEFINE h == Hash[k]
    <2>1. /\ pc = "idle" /\ pc' \in {"idle", "flush"} /\ meta' = GetNewMainSegment(meta, h)
          /\ UNCHANGED <<cur, victim, torn>>
      BY <1>2 DEF Put, FlushBeforeWrite, history
    <2>2. h \in Group  BY HashKVAssumption
    <2>3. \A g \in Group : FrontNow(g) = meta.front[g] /\ FrontNow(g)' = meta'.front[g] /\ ~ NotBegun(g)
      BY <1>i, <2>1 DEF FrontNow, Flushing, NotBegun
    <2> HIDE DEF h
    <2>4. /\ meta'.segFront = meta.segFront
          /\ \A g \in Group : g # h \/ meta.segs[g] # <<>> =>
               meta'.segs[g] = meta.segs[g] /\ meta'.front[g] = meta.front[g]
          /\ meta.segs[h] = <<>> => meta'.segs[h] = <<h>> /\ meta'.front[h] = 0
      BY <1>0, <2>1, <2>2, NewMainParts
    <2>5. ASSUME NEW g \in Sound PROVE Aligned(FrontNow(g)', meta'.segs[g], meta'.segFront, g)
      <3>1. g \in Group /\ Aligned(meta.front[g], meta.segs[g], meta.segFront, g)
        BY <1>0, <2>3 DEF Sound, MemoryAligned
      <3>2. CASE g # h \/ meta.segs[g] # <<>>
        BY <2>3, <2>4, <3>1, <3>2
      <3>3. CASE g = h /\ meta.segs[g] = <<>>
        <4>1. meta'.segs[g] = <<g>> /\ meta'.front[g] = 0 /\ meta'.segFront[g] = 0
          BY <2>4, <3>1, <3>3 DEF Aligned
        <4>2. <<g>> # <<>> /\ Len(<<g>>) = 1 /\ <<g>>[1] = g  OBVIOUS
        <4> QED  BY <2>3, <3>1, <4>1, <4>2 DEF Aligned, FrontOf
      <3> QED  BY <3>2, <3>3
    <2>6. Sound' = Sound  BY <2>1 DEF Sound
    <2> QED  BY <2>5, <2>6 DEF MemoryAligned
  <1>3. ASSUME NEW h \in Group, PickGroup(h) PROVE MemoryAligned'
    <2>1. /\ pc = "flush" /\ pc' = pc /\ cur = None /\ cur' = h /\ curFront' = meta.front[h] /\ meta' = meta
          /\ UNCHANGED <<victim, touched, unwritten, torn>>
      BY <1>3 DEF PickGroup, history
    <2>2. \A g \in Group : FrontNow(g) = meta.front[g] /\ FrontNow(g)' = meta.front[g]
      BY <2>1 DEF FrontNow, Flushing
    <2>3. \A g : ~ NotBegun(g)  BY <2>1 DEF NotBegun
    <2> QED  BY <1>1, <2>1, <2>2, <2>3 DEF Sound
  <1>4. ASSUME NEW h \in Group, GCOneGroup(h) PROVE MemoryAligned'
    <2>1. /\ pc = "gc" /\ pc' = "rewrite" /\ meta' = ReleaseGroup(meta, h) /\ victim' = h
          /\ curFront' = 0 /\ UNCHANGED <<cur, touched, unwritten>> /\ torn \subseteq torn'
      BY <1>4 DEF GCOneGroup
    <2>2. touched = {} /\ unwritten = {}  BY <1>0, <2>1 DEF Course
    <2>3. /\ meta'.segs[h] = <<h>> /\ meta'.front[h] = 0
          /\ \A g \in Group \ {h} :
               /\ meta'.segs[g] = meta.segs[g] /\ meta'.front[g] = meta.front[g]
               /\ meta'.segFront[g] = meta.segFront[g]
               /\ \A s \in ToSet(meta.segs[g]) : meta'.segFront[s] = meta.segFront[s]
      BY <1>0, <2>1, ReleaseParts
    <2>4. h # None  BY SegmentFacts
    <2>5. NotBegun(h)'  BY <2>1, <2>2, <2>3, <2>4 DEF NotBegun, FrontNow, Flushing
    <2>6. \A g \in Group \ {h} : FrontNow(g) = meta.front[g] /\ FrontNow(g)' = meta'.front[g]
      BY <2>1, <2>4 DEF FrontNow, Flushing
    <2>7. \A g : ~ NotBegun(g)  BY <2>1 DEF NotBegun
    <2>8. ASSUME NEW g \in Sound, g # h
          PROVE  (NotBegun(g) \/ Aligned(FrontNow(g), meta.segs[g], meta.segFront, g))'
      <3>1. g \in Group \ {h}  BY <2>8 DEF Sound
      <3>2. NotBegun(g) \/ Aligned(FrontNow(g), meta.segs[g], meta.segFront, g)
        BY <1>0 DEF MemoryAligned
      <3>3. FrontNow(g)' = FrontNow(g)  BY <2>3, <2>6, <3>1
      <3>4. Shape(meta.segs[g], g)  BY <1>0, <3>1
      <3>5. /\ meta'.segs[g] = meta.segs[g]
            /\ \A s \in ToSet(meta.segs[g]) \cup {g} : meta'.segFront[s] = meta.segFront[s]
        BY <2>3, <3>1
      <3> QED  BY <2>7, <3>1, <3>2, <3>3, <3>4, <3>5, StaysAligned
    <2>9. Sound' \subseteq Sound  BY <2>1 DEF Sound
    <2> QED  BY <2>5, <2>8, <2>9 DEF MemoryAligned
  <1>5. ASSUME NEW r \in survivors, RewriteRecord(r) PROVE MemoryAligned'
    <2> DEFINE p == Place(meta, victim, curFront, r.size)
    <2>1. /\ pc = "rewrite" /\ pc' = pc /\ meta' = p.meta /\ curFront' = p.front
          /\ UNCHANGED <<cur, victim, torn>>
      BY <1>5 DEF RewriteRecord, history
    <2>2. /\ victim \in Group /\ meta.segs[victim] # <<>> /\ r \in Rec
          /\ curFront \in Nat /\ curFront <= Room(meta.segs[victim])
          /\ r.size \in 1..LogSize /\ CanPlace(meta, victim, curFront, r.size)
      BY <1>5, RewritePlace
    <2>3. r.size <= MainSize  BY <2>2, SizeFacts DEF Bounds, RecordsFit
    <2>4. p = Place(meta, victim, curFront, r.size)  OBVIOUS
    <2> HIDE DEF p
    <2>5. /\ p.loc.seg \in Segment /\ p.meta.front = meta.front
          /\ \A h \in Group \ {victim} :
               p.meta.segs[h] = meta.segs[h] /\ p.loc.seg \notin ToSet(meta.segs[h])
          /\ \A s \in Segment \ {p.loc.seg} : p.meta.segFront[s] = meta.segFront[s]
          /\ p.loc.seg \in ToSet(p.meta.segs[victim])
      BY <1>0, <2>2, <2>4, PlaceEffects
    <2>6. victim # None  BY <2>2, SegmentFacts
    <2>7. FrontNow(victim) = curFront /\ FrontNow(victim)' = p.front
      BY <2>1 DEF FrontNow
    <2>8. victim \in Sound => Aligned(p.front, p.meta.segs[victim], p.meta.segFront, victim)
      <3>1. CASE NotBegun(victim)
        <4>1. curFront = 0 /\ meta.segs[victim] = <<victim>>  BY <2>7, <3>1 DEF NotBegun
        <4> QED  BY <1>0, <2>2, <2>3, <2>4, <4>1, FirstPlace
      <3>2. CASE Aligned(curFront, meta.segs[victim], meta.segFront, victim)
        BY <1>0, <2>2, <2>4, <3>2, PlaceAligned
      <3> QED  BY <1>0, <2>7, <3>1, <3>2 DEF MemoryAligned
    <2>9. ASSUME NEW g \in Sound, g # victim
          PROVE  (NotBegun(g) \/ Aligned(FrontNow(g), meta.segs[g], meta.segFront, g))'
      <3>1. g \in Group \ {victim}  BY <2>9 DEF Sound
      <3>2. NotBegun(g) \/ Aligned(FrontNow(g), meta.segs[g], meta.segFront, g)
        BY <1>0 DEF MemoryAligned
      <3>3. FrontNow(g)' = FrontNow(g)
        <4>1. FrontNow(g) = meta.front[g] /\ FrontNow(g)' = meta'.front[g]
          BY <2>1, <2>6, <2>9 DEF FrontNow, Flushing
        <4> QED  BY <2>1, <2>5, <4>1
      <3>4. Shape(meta.segs[g], g)  BY <1>0, <3>1
      <3>5. g # p.loc.seg
        <4>1. Own(p.meta)  BY <1>0, <2>2, <2>4, PlaceOwn
        <4>2. g \notin ToSet(p.meta.segs[victim])  BY <2>2, <3>1, <4>1, OwnDisjoint
        <4> QED  BY <2>5, <4>2
      <3>6. \A s \in ToSet(meta.segs[g]) \cup {g} : s \in Segment \ {p.loc.seg}
        BY <2>5, <3>1, <3>4, <3>5, ListMembers, SegmentFacts
      <3>7. /\ meta'.segs[g] = meta.segs[g]
            /\ \A s \in ToSet(meta.segs[g]) \cup {g} : meta'.segFront[s] = meta.segFront[s]
        BY <2>1, <2>5, <3>1, <3>6
      <3>8. ~ NotBegun(g)  BY <2>9 DEF NotBegun
      <3> QED  BY <3>1, <3>2, <3>3, <3>4, <3>7, <3>8, StaysAligned
    <2>10. Sound' = Sound  BY <2>1 DEF Sound
    <2>11. victim \in Sound => Aligned(FrontNow(victim)', meta'.segs[victim], meta'.segFront, victim)
      BY <2>1, <2>7, <2>8
    <2>12. ASSUME NEW g \in Sound
           PROVE  (NotBegun(g) \/ Aligned(FrontNow(g), meta.segs[g], meta.segFront, g))'
      <3>1. CASE g = victim  BY <2>1, <2>11, <3>1
      <3>2. CASE g # victim  BY <2>9, <3>2
      <3> QED  BY <3>1, <3>2
    <2> QED  BY <2>10, <2>12 DEF MemoryAligned
  <1>6. ASSUME FlushRecord PROVE MemoryAligned'
    <2> DEFINE r == pool[NextUpdate(cur)]
               p == Place(meta, cur, curFront, r.size)
    <2>1. /\ pc = "flush" /\ pc' = pc /\ cur # None /\ meta' = p.meta /\ curFront' = p.front
          /\ UNCHANGED <<cur, victim, torn>>
      BY <1>6 DEF FlushRecord, history
    <2>2. /\ cur \in Group /\ meta.segs[cur] # <<>> /\ victim = None
          /\ curFront \in Nat /\ curFront <= Room(meta.segs[cur])
          /\ r.size \in 1..LogSize /\ CanPlace(meta, cur, curFront, r.size)
      BY <1>6, FlushRecordPlace
    <2>4. p = Place(meta, cur, curFront, r.size)  OBVIOUS
    <2> HIDE DEF p, r
    <2>5. /\ p.loc.seg \in Segment /\ p.meta.front = meta.front
          /\ \A h \in Group \ {cur} :
               p.meta.segs[h] = meta.segs[h] /\ p.loc.seg \notin ToSet(meta.segs[h])
          /\ \A s \in Segment \ {p.loc.seg} : p.meta.segFront[s] = meta.segFront[s]
          /\ p.loc.seg \in ToSet(p.meta.segs[cur])
      BY <1>0, <2>2, <2>4, PlaceEffects
    <2>6. \A g : ~ NotBegun(g)  BY <2>1 DEF NotBegun
    <2>7. FrontNow(cur) = curFront /\ FrontNow(cur)' = p.front
      BY <2>1, <2>2 DEF FrontNow, Flushing
    <2>8. cur \in Sound => Aligned(FrontNow(cur)', meta'.segs[cur], meta'.segFront, cur)
      <3> SUFFICES ASSUME cur \in Sound
                   PROVE  Aligned(FrontNow(cur)', meta'.segs[cur], meta'.segFront, cur)
        OBVIOUS
      <3>1. Aligned(curFront, meta.segs[cur], meta.segFront, cur)
        BY <1>0, <2>6, <2>7 DEF MemoryAligned
      <3>2. Aligned(p.front, p.meta.segs[cur], p.meta.segFront, cur)
        BY <1>0, <2>2, <2>4, <3>1, PlaceAligned
      <3> QED  BY <2>1, <2>7, <3>2
    <2>9. ASSUME NEW g \in Sound, g # cur
          PROVE  (NotBegun(g) \/ Aligned(FrontNow(g), meta.segs[g], meta.segFront, g))'
      <3>1. g \in Group \ {cur}  BY <2>9 DEF Sound
      <3>2. NotBegun(g) \/ Aligned(FrontNow(g), meta.segs[g], meta.segFront, g)
        BY <1>0 DEF MemoryAligned
      <3>3. FrontNow(g)' = FrontNow(g)
        <4>1. FrontNow(g) = meta.front[g] /\ FrontNow(g)' = meta'.front[g]
          BY <2>1, <2>9 DEF FrontNow, Flushing
        <4> QED  BY <2>1, <2>5, <4>1
      <3>4. Shape(meta.segs[g], g)  BY <1>0, <3>1
      <3>5. g # p.loc.seg
        <4>1. Own(p.meta)  BY <1>0, <2>2, <2>4, PlaceOwn
        <4>2. g \notin ToSet(p.meta.segs[cur])  BY <2>2, <3>1, <4>1, OwnDisjoint
        <4> QED  BY <2>5, <4>2
      <3>6. \A s \in ToSet(meta.segs[g]) \cup {g} : s \in Segment \ {p.loc.seg}
        BY <2>5, <3>1, <3>4, <3>5, ListMembers, SegmentFacts
      <3>7. /\ meta'.segs[g] = meta.segs[g]
            /\ \A s \in ToSet(meta.segs[g]) \cup {g} : meta'.segFront[s] = meta.segFront[s]
        BY <2>1, <2>5, <3>1, <3>6
      <3> QED  BY <2>6, <3>1, <3>2, <3>3, <3>4, <3>7, StaysAligned
    <2>10. Sound' = Sound  BY <2>1 DEF Sound
    <2>12. ASSUME NEW g \in Sound
           PROVE  (NotBegun(g) \/ Aligned(FrontNow(g), meta.segs[g], meta.segFront, g))'
      <3>1. CASE g = cur  BY <2>1, <2>8, <3>1
      <3>2. CASE g # cur  BY <2>9, <3>2
      <3> QED  BY <3>1, <3>2
    <2> QED  BY <2>10, <2>12 DEF MemoryAligned
  <1>7. ASSUME LeaveGroup \/ AckBeforeGC PROVE MemoryAligned'
    <2>1. /\ pc \in {"flush", "ack"} /\ cur # None /\ meta' = [meta EXCEPT !.front[cur] = curFront]
          /\ UNCHANGED <<victim, torn>> /\ curFront' = curFront
          /\ (pc' = "flush" /\ cur' = None) \/ pc' = "gc"
      BY <1>7 DEF LeaveGroup, AckBeforeGC, history
    <2>2. victim = None
      <3>1. CASE LeaveGroup  BY <1>0, <3>1 DEF LeaveGroup, Phases
      <3>2. CASE AckBeforeGC  BY <3>2 DEF AckBeforeGC
      <3> QED  BY <1>7, <3>1, <3>2
    <2>3. curFront \in Nat /\ curFront <= Room(meta.segs[cur]) /\ cur \in Group
      <3>1. curFront \in Fronts /\ curFront <= Room(meta.segs[cur])
        BY <2>1, <2>2 DEF Bounds, MemoryFits, Flushing
      <3> QED  BY <1>0, <2>1, <3>1 DEF Buffer, Fronts
    <2>4. /\ meta'.front[cur] = curFront /\ \A h \in Group \ {cur} : meta'.front[h] = meta.front[h]
          /\ meta'.segs = meta.segs /\ meta'.segFront = meta.segFront
      BY <1>0, <2>1, <2>3, NewFrontFits
    <2>5. \A g : ~ NotBegun(g)  BY <2>1 DEF NotBegun
    <2>6. \A g \in Group : FrontNow(g)' = meta'.front[g]
      BY <2>1 DEF FrontNow, Flushing
    <2>7. FrontNow(cur) = curFront /\ \A g \in Group \ {cur} : FrontNow(g) = meta.front[g]
      BY <2>1, <2>2 DEF FrontNow, Flushing
    <2>8. \A g \in Group : FrontNow(g)' = FrontNow(g)  BY <2>3, <2>4, <2>6, <2>7
    <2> QED  BY <1>1, <2>1, <2>4, <2>5, <2>8 DEF Sound
  <1>8. ASSUME SetBatchGCKeyValue PROVE MemoryAligned'
    <2>1. /\ pc = "rewrite" /\ pc' = "gcdata" /\ meta' = [meta EXCEPT !.front[victim] = curFront]
          /\ UNCHANGED <<victim, cur, touched, unwritten, torn>>
      BY <1>8 DEF SetBatchGCKeyValue, history
    <2>2. victim # None /\ victim \in Group  BY <1>0, <2>1 DEF Phases, Buffer
    <2>3. curFront \in Nat /\ curFront <= Room(meta.segs[victim])
      <3>1. curFront \in Fronts /\ curFront <= Room(meta.segs[victim])
        BY <2>1 DEF Bounds, MemoryFits
      <3> QED  BY <3>1 DEF Fronts
    <2>4. /\ meta'.front[victim] = curFront /\ \A h \in Group \ {victim} : meta'.front[h] = meta.front[h]
          /\ meta'.segs = meta.segs /\ meta'.segFront = meta.segFront
      BY <1>0, <2>1, <2>2, <2>3, NewFrontFits
    <2>5. \A g \in Group : FrontNow(g)' = meta'.front[g]
      BY <2>1, <2>2 DEF FrontNow, Flushing
    <2>6. FrontNow(victim) = curFront /\ \A g \in Group \ {victim} : FrontNow(g) = meta.front[g]
      BY <2>1, <2>2 DEF FrontNow, Flushing
    <2>7. \A g \in Group : FrontNow(g)' = FrontNow(g)  BY <2>2, <2>4, <2>5, <2>6
    <2>8. \A g \in Group : NotBegun(g) => NotBegun(g)'
      BY <2>1, <2>4, <2>7 DEF NotBegun
    <2> QED  BY <1>1, <2>1, <2>4, <2>7, <2>8 DEF Sound
  <1>9. ASSUME ReservedOverflow \/ EndOfUpdates \/ SetBatchUpdateKeyValue \/ WriteKeyBatch
                 \/ WriteKeyBatchFails \/ LogMetaPersist
        PROVE  MemoryAligned'
    <2>1. /\ UNCHANGED <<meta, cur, curFront, victim>> /\ torn \subseteq torn'
          /\ pc \in {"flush", "log", "keys", "meta"} /\ pc' \in {"log", "keys", "meta", "ack"}
      BY <1>9 DEF ReservedOverflow, EndOfUpdates, SetBatchUpdateKeyValue, WriteKeyBatch,
                  WriteKeyBatchFails, LogMetaPersist, volatile, history
    <2>2. \A g \in Group : FrontNow(g)' = FrontNow(g) /\ ~ NotBegun(g)
      BY <2>1 DEF FrontNow, Flushing, NotBegun
    <2> QED  BY <1>1, <2>1, <2>2 DEF Sound
  <1>10. ASSUME NEW s \in Segment, WriteSegment(s) PROVE MemoryAligned'
    <2>1. UNCHANGED <<meta, cur, curFront, victim, torn>> /\ pc = "gcdata" /\ pc' \in {"keys", "gcdata"}
          /\ unwritten # {}
      BY <1>10 DEF WriteSegment, history
    <2>2. victim # None  BY <1>0, <2>1 DEF Phases
    <2>3. \A g \in Group : FrontNow(g)' = FrontNow(g) /\ ~ NotBegun(g)
      BY <2>1, <2>2 DEF FrontNow, Flushing, NotBegun
    <2> QED  BY <1>1, <2>1, <2>3 DEF Sound
  <1>11. ASSUME FinishFlush \/ FinishGC PROVE MemoryAligned'
    <2>1. /\ UNCHANGED <<meta, curFront, torn>> /\ pc = "ack" /\ victim' = None
          /\ victim # None \/ cur = None
          /\ (pc' = "idle" /\ cur' = cur) \/ pc' = "gc" \/ (pc' = "flush" /\ cur' = None)
      BY <1>11 DEF FinishFlush, FinishGC, history
    <2>2. \A g \in Group : FrontNow(g) = meta.front[g] /\ ~ NotBegun(g)
      BY <2>1 DEF FrontNow, Flushing, NotBegun
    <2>3. \A g \in Group : FrontNow(g)' = meta.front[g]
      BY <2>1 DEF FrontNow, Flushing
    <2> QED  BY <1>1, <2>1, <2>2, <2>3 DEF Sound
  <1>12. ASSUME Crash \/ Recover PROVE MemoryAligned'
    BY <1>12 DEF Crash, Recover
  <1>13. ASSUME GCGreedyInVain PROVE MemoryAligned'
    <2>1. pc = "gc" /\ UNCHANGED <<meta, cur, curFront, victim, torn, pc>>
      BY <1>13 DEF GCGreedyInVain, history
    <2>2. \A g \in Group : FrontNow(g)' = FrontNow(g) /\ ~ NotBegun(g)
      BY <2>1 DEF FrontNow, Flushing, NotBegun
    <2> QED  BY <1>1, <2>1, <2>2 DEF Sound
  <1> QED
    BY <1>2, <1>3, <1>4, <1>5, <1>6, <1>7, <1>8, <1>9, <1>10, <1>11, <1>12, <1>13 DEF Next

----------------------------------------------------------------------------
(* When there is a batch, and when a group is exposed                       *)

LEMMA CourseKept ==
  ASSUME IInv, Bounds, FInv, pc # "down", Next, pc' # "down"
  PROVE  Course'
  <1>0. /\ Course /\ Own(meta) /\ MetaFits(meta) /\ Phases /\ Buffer
        /\ \A g \in Group : Shape(meta.segs[g], g)
    BY FFacts
  <1>i. pc = "idle" => cur = None  BY DEF Bounds, MemoryFits
  <1>n. None \notin Group  BY SegmentFacts
  <1>p. ASSUME UNCHANGED <<pool, pending>> PROVE \A g : PendingOf(g)' = PendingOf(g)
    BY <1>p DEF PendingOf
  <1>2. ASSUME NEW k \in Key, NEW s \in Sizes[k], Put(k, s) \/ FlushBeforeWrite(k, s)
        PROVE  Course'
    <2>1. /\ pc = "idle" /\ pc' \in {"idle", "flush"}
          /\ UNCHANGED <<cur, victim, batch, modified, touched, unwritten, updateLog, exposed>>
      BY <1>2 DEF Put, FlushBeforeWrite, durable, history
    <2> QED  BY <1>0, <1>i, <2>1 DEF Course, Flushing, Stale
  <1>3. ASSUME NEW h \in Group, PickGroup(h) PROVE Course'
    <2>1. /\ pc = "flush" /\ pc' = pc /\ cur = None /\ cur' = h /\ modified' = modified \cup {h}
          /\ PendingOf(h) # {} /\ UNCHANGED <<pool, pending, meta, victim, batch, touched, unwritten,
                                              updateLog, exposed>>
      BY <1>3 DEF PickGroup, durable, history
    <2>2. meta.segs[h] # <<>>
      <3>1. PICK i \in PendingOf(h) : TRUE  BY <2>1
      <3> QED  BY <1>0, <3>1 DEF PendingOf, Buffer
    <2>3. \A g : PendingOf(g)' = PendingOf(g)  BY <1>p, <2>1
    <2> QED  BY <1>0, <2>1, <2>2, <2>3 DEF Course, Flushing, Stale
  <1>4. ASSUME NEW h \in Group, GCOneGroup(h) PROVE Course'
    <2>1. /\ pc = "gc" /\ pc' = "rewrite" /\ meta' = ReleaseGroup(meta, h) /\ victim' = h
          /\ pending' = pending \ PendingOf(h) /\ modified' = {h}
          /\ UNCHANGED <<pool, cur, batch, touched, unwritten, updateLog, exposed>>
      BY <1>4 DEF GCOneGroup, durable, history
    <2>2. meta'.segs[h] = <<h>>  BY <1>0, <2>1, ReleaseParts
    <2>3. meta'.segs[h] # <<>>  BY <2>2
    <2>4. \A g \in Group \ {h} : PendingOf(g)' = PendingOf(g)  BY <2>1 DEF PendingOf
    <2>5. exposed \subseteq {g \in Group : PendingOf(g) # {}}  BY <1>0, <2>1 DEF Course
    <2>6. exposed' \subseteq {g \in Group : PendingOf(g)' # {}} \cup modified'
      BY <2>1, <2>4, <2>5
    <2>7. updateLog # NoLog => updateLog.keys = batch  BY <1>0 DEF Course
    <2> QED  BY <1>n, <2>1, <2>3, <2>6, <2>7 DEF Course, Flushing, Stale
  <1>5. ASSUME NEW r \in survivors, RewriteRecord(r) PROVE Course'
    <2> DEFINE p == Place(meta, victim, curFront, r.size)
    <2>1. /\ pc = "rewrite" /\ pc' = pc /\ meta' = p.meta
          /\ UNCHANGED <<pool, pending, cur, victim, modified, updateLog, exposed>>
      BY <1>5 DEF RewriteRecord, durable, history
    <2>2. /\ victim \in Group /\ meta.segs[victim] # <<>> /\ r \in Rec
          /\ curFront \in Nat /\ curFront <= Room(meta.segs[victim])
          /\ r.size \in 1..LogSize /\ CanPlace(meta, victim, curFront, r.size)
      BY <1>5, RewritePlace
    <2>3. modified = {victim} /\ updateLog = NoLog /\ victim # None
      BY <1>0, <1>n, <2>2 DEF Phases
    <2>4. p.meta.segs[victim] # <<>>  BY <1>0, <2>2, PlaceOwn
    <2> HIDE DEF p
    <2>5. \A g : PendingOf(g)' = PendingOf(g)  BY <1>p, <2>1
    <2> QED  BY <1>0, <2>1, <2>3, <2>4, <2>5 DEF Course, Flushing, Stale
  <1>6. ASSUME FlushRecord PROVE Course'
    <2> DEFINE r == pool[NextUpdate(cur)]
               p == Place(meta, cur, curFront, r.size)
    <2>1. /\ pc = "flush" /\ pc' = pc /\ cur # None /\ meta' = p.meta
          /\ pending' = pending \ {NextUpdate(cur)}
          /\ UNCHANGED <<pool, cur, victim, modified, unwritten, updateLog, exposed>>
      BY <1>6 DEF FlushRecord, history
    <2>2. /\ cur \in Group /\ meta.segs[cur] # <<>> /\ victim = None
          /\ NextUpdate(cur) \in PendingOf(cur)
          /\ curFront \in Nat /\ curFront <= Room(meta.segs[cur])
          /\ r.size \in 1..LogSize /\ CanPlace(meta, cur, curFront, r.size)
      BY <1>6, FlushRecordPlace
    <2>3. p.meta.segs[cur] # <<>> /\ \A h \in Group \ {cur} : p.meta.segs[h] = meta.segs[h]
      BY <1>0, <2>2, PlaceOwn
    <2> HIDE DEF p, r
    <2>4. cur \in modified  BY <1>0, <2>1, <2>2 DEF Course, Flushing
    <2>5. \A g \in Group \ {cur} : PendingOf(g)' = PendingOf(g)
      BY <2>1, <2>2 DEF PendingOf
    <2>6. updateLog = NoLog  BY <1>0, <2>1, <2>2 DEF Phases
    <2>7. exposed' \subseteq {g \in Group : PendingOf(g)' # {}} \cup modified'
      <3>1. exposed \subseteq {g \in Group : PendingOf(g) # {}} \cup modified
        BY <1>0, <2>1 DEF Course
      <3> QED  BY <2>1, <2>4, <2>5, <3>1
    <2>8. \A g \in modified' : meta'.segs[g] # <<>>
      <3>1. \A g \in modified : meta.segs[g] # <<>> /\ g \in Group  BY <1>0 DEF Course, Buffer
      <3> QED  BY <2>1, <2>3, <3>1
    <2>9. unwritten = {}  BY <1>0, <2>1 DEF Course
    <2> QED  BY <2>1, <2>4, <2>6, <2>7, <2>8, <2>9 DEF Course, Flushing, Stale
  <1>7. ASSUME LeaveGroup PROVE Course'
    <2>1. /\ pc = "flush" /\ pc' = pc /\ cur # None /\ meta' = [meta EXCEPT !.front[cur] = curFront]
          /\ cur' = None /\ UNCHANGED <<pool, pending, victim, batch, modified, touched, unwritten,
                                        updateLog, exposed>>
      BY <1>7 DEF LeaveGroup, durable, history
    <2>2. meta'.segs = meta.segs  BY <1>0, <2>1 DEF Own
    <2>3. \A g : PendingOf(g)' = PendingOf(g)  BY <1>p, <2>1
    <2> QED  BY <1>0, <2>1, <2>2, <2>3 DEF Course, Flushing, Stale
  <1>8. ASSUME SetBatchGCKeyValue PROVE Course'
    <2>1. /\ pc = "rewrite" /\ pc' = "gcdata" /\ meta' = [meta EXCEPT !.front[victim] = curFront]
          /\ UNCHANGED <<pool, pending, cur, victim, batch, modified, touched, unwritten, updateLog,
                         exposed>>
      BY <1>8 DEF SetBatchGCKeyValue, history
    <2>2. meta'.segs = meta.segs  BY <1>0, <2>1 DEF Own
    <2>3. \A g : PendingOf(g)' = PendingOf(g)  BY <1>p, <2>1
    <2> QED  BY <1>0, <2>1, <2>2, <2>3 DEF Course, Flushing, Stale
  <1>9. ASSUME ReservedOverflow \/ EndOfUpdates PROVE Course'
    <2>1. /\ pc = "flush" /\ pc' = "log"
          /\ cur = None \/ PendingOf(cur) # {}
          /\ UNCHANGED <<pool, pending, meta, cur, victim, batch, modified, touched, unwritten,
                         updateLog, exposed>>
      BY <1>9 DEF ReservedOverflow, EndOfUpdates, volatile, durable, history
    <2>3. \A g : PendingOf(g)' = PendingOf(g)  BY <1>p, <2>1
    <2>4. Flushing' => Flushing  BY <2>1 DEF Flushing
    <2>5. Flushing' => cur' \in modified' /\ PendingOf(cur)' # {}
      BY <1>0, <2>1, <2>3, <2>4 DEF Course, Flushing
    <2> QED  BY <1>0, <2>1, <2>3, <2>5 DEF Course, Stale
  <1>s. pc \in {"log", "keys", "meta"} => Stale \subseteq {g \in Group : PendingOf(g) # {}}
    BY <1>0 DEF Course, Flushing, Stale, Buffer
  <1>10. ASSUME SetBatchUpdateKeyValue PROVE Course'
    <2>1. /\ pc = "log" /\ pc' = "keys" /\ exposed' = exposed \cup Stale
          /\ updateLog' = NoLog \/ updateLog' = [keys |-> batch, groups |-> GroupsOf(meta, modified)]
          /\ UNCHANGED volatile
      BY <1>10 DEF SetBatchUpdateKeyValue
    <2>2. UNCHANGED <<pool, pending, meta, cur, curFront, victim, batch, modified, touched, unwritten>>
      BY <2>1 DEF volatile
    <2>3. \A g : PendingOf(g)' = PendingOf(g)  BY <1>p, <2>2
    <2>4. Stale' = Stale  BY <2>2 DEF Stale
    <2>5. updateLog' # NoLog => updateLog'.keys = batch'  BY <2>1, <2>2
    <2> QED  BY <1>0, <1>s, <2>1, <2>2, <2>3, <2>4, <2>5 DEF Course, Flushing
  <1>11. ASSUME WriteKeyBatch \/ WriteKeyBatchFails PROVE Course'
    <2>1. pc = "keys" /\ pc' = "meta" /\ UNCHANGED volatile /\ UNCHANGED <<updateLog, exposed>>
      BY <1>11 DEF WriteKeyBatch, WriteKeyBatchFails, durable, history
    <2>2. UNCHANGED <<pool, pending, meta, cur, curFront, victim, batch, modified, touched, unwritten>>
      BY <2>1 DEF volatile
    <2>3. \A g : PendingOf(g)' = PendingOf(g)  BY <1>p, <2>2
    <2>4. Stale' = Stale  BY <2>2 DEF Stale
    <2> QED  BY <1>0, <2>1, <2>2, <2>3, <2>4 DEF Course, Flushing
  <1>12. ASSUME LogMetaPersist PROVE Course'
    <2>1. pc = "meta" /\ pc' = "ack" /\ UNCHANGED volatile /\ updateLog' = updateLog
          /\ exposed' = (exposed \ modified) \cup Stale
      BY <1>12 DEF LogMetaPersist
    <2>2. UNCHANGED <<pool, pending, meta, cur, curFront, victim, batch, modified, touched, unwritten>>
      BY <2>1 DEF volatile
    <2>3. \A g : PendingOf(g)' = PendingOf(g)  BY <1>p, <2>2
    <2>4. Stale' = Stale  BY <2>2 DEF Stale
    <2>5. exposed' \subseteq {g \in Group : PendingOf(g)' # {}}
      <3>1. exposed \subseteq {g \in Group : PendingOf(g) # {}} \cup modified
        BY <1>0, <2>1 DEF Course
      <3> QED  BY <1>s, <2>1, <2>3, <3>1
    <2> QED  BY <1>0, <2>1, <2>2, <2>3, <2>4, <2>5 DEF Course, Flushing
  <1>13. ASSUME NEW s \in Segment, WriteSegment(s) PROVE Course'
    <2>1. /\ pc = "gcdata" /\ pc' = IF unwritten' = {} THEN "keys" ELSE "gcdata"
          /\ UNCHANGED <<pool, pending, meta, cur, curFront, victim, batch, modified, touched,
                         updateLog, exposed>>
      BY <1>13 DEF WriteSegment, history
    <2>2. victim # None  BY <1>0, <2>1 DEF Phases
    <2>3. \A g : PendingOf(g)' = PendingOf(g)  BY <1>p, <2>1
    <2> QED  BY <1>0, <2>1, <2>2, <2>3 DEF Course, Flushing, Stale
  <1>14. ASSUME FinishFlush PROVE Course'
    <2>1. /\ pc = "ack" /\ pc' = "idle" /\ victim = None /\ cur = None /\ updateLog' = NoLog
          /\ batch' = <<>> /\ modified' = {} /\ touched' = {}
          /\ UNCHANGED <<pending, cur, victim, unwritten, exposed>>
      BY <1>14 DEF FinishFlush, ForgetBatch
    <2>2. pending = {}  BY <1>0, <2>1 DEF Phases
    <2>3. exposed = {}
      <3>1. exposed \subseteq {g \in Group : PendingOf(g) # {}}  BY <1>0, <2>1 DEF Course
      <3> QED  BY <2>2, <3>1 DEF PendingOf
    <2> QED  BY <1>0, <2>1, <2>3 DEF Course, Flushing, Stale
  <1>15. ASSUME AckBeforeGC \/ FinishGC PROVE Course'
    <2>1. /\ pc = "ack"
          /\ pc' = "gc" \/ (pc' = "flush" /\ cur' = None)
          /\ victim' = None /\ batch' = <<>> /\ modified' = {} /\ touched' = {}
          /\ UNCHANGED <<pool, pending, unwritten, exposed>>
          /\ updateLog' \in {updateLog, NoLog}
          /\ victim # None => updateLog' = updateLog
          /\ victim = None => updateLog' = NoLog
      BY <1>15 DEF AckBeforeGC, FinishGC, ForgetBatch, history
    <2>2. updateLog' = NoLog  BY <1>0, <2>1 DEF Phases
    <2>3. \A g : PendingOf(g)' = PendingOf(g)  BY <1>p, <2>1
    <2>4. ~ Flushing'  BY <2>1 DEF Flushing
    <2>5. exposed \subseteq {g \in Group : PendingOf(g) # {}} /\ unwritten = {}
      BY <1>0, <2>1 DEF Course
    <2> QED  BY <2>1, <2>2, <2>3, <2>4, <2>5 DEF Course, Stale
  <1>16. ASSUME Crash \/ Recover PROVE Course'
    BY <1>16 DEF Crash, Recover
  <1>17. ASSUME GCGreedyInVain PROVE Course'
    <2>1. /\ pc = "gc" /\ pc' = pc
          /\ UNCHANGED <<pool, pending, meta, cur, victim, batch, modified, touched, unwritten,
                         updateLog, exposed>>
      BY <1>17 DEF GCGreedyInVain, durable, history
    <2>2. \A g : PendingOf(g)' = PendingOf(g)  BY <1>p, <2>1
    <2> QED  BY <1>0, <2>1, <2>2 DEF Course, Flushing, Stale
  <1> QED
    BY <1>2, <1>3, <1>4, <1>5, <1>6, <1>7, <1>8, <1>9, <1>10, <1>11, <1>12, <1>13, <1>14, <1>15,
       <1>16, <1>17 DEF Next

----------------------------------------------------------------------------
(* What the two steps that place a record have in common                    *)

Placed(g, k, loc) ==
  /\ pc' = pc /\ pc \in {"flush", "rewrite"}
  /\ UNCHANGED <<modified, victim, torn, segMeta, groupMeta, exposed>>
  /\ g \in modified /\ victim \in {None, g}
  /\ batch' = Append(batch, [key |-> k, loc |-> loc]) /\ touched' = touched \cup {loc.seg}
  /\ ToSet(meta'.segs[g]) = ToSet(meta.segs[g]) \cup {loc.seg}
  /\ \A h \in Group \ {g} : meta'.segs[h] = meta.segs[h] /\ loc.seg \notin ToSet(meta.segs[h])
  /\ meta'.front = meta.front /\ meta'.segFront[loc.seg] = loc.off + loc.size
  /\ \A s \in Segment \ {loc.seg} : meta'.segFront[s] = meta.segFront[s]
  /\ g \in Sound /\ loc.seg \in ToSet(meta.segs[g]) /\ touched # {} =>
       loc.off = meta.segFront[loc.seg]
  /\ victim # None => ToSet(meta'.segs[victim]) \subseteq touched'

LEMMA FlushRecordPlaced ==
  ASSUME IInv, Bounds, FInv, pc # "down", FlushRecord
  PROVE  \E g \in Group, k \in Key, loc \in Loc : Placed(g, k, loc)
  <1>0. /\ MemoryAligned /\ Course /\ Own(meta) /\ MetaFits(meta)
    BY FFacts
  <1> DEFINE r == pool[NextUpdate(cur)]
             p == Place(meta, cur, curFront, r.size)
  <1>1. /\ pc = "flush" /\ pc' = pc /\ cur # None /\ meta' = p.meta
        /\ batch' = Append(batch, [key |-> r.key, loc |-> p.loc])
        /\ touched' = touched \cup {p.loc.seg}
        /\ UNCHANGED <<modified, victim, torn, segMeta, groupMeta, exposed>>
    BY DEF FlushRecord, history
  <1>2. /\ cur \in Group /\ meta.segs[cur] # <<>> /\ victim = None
        /\ curFront \in Nat /\ curFront <= Room(meta.segs[cur])
        /\ r.size \in 1..LogSize /\ CanPlace(meta, cur, curFront, r.size)
        /\ r \in Rec /\ p.loc \in Loc /\ p.loc.size = r.size
    BY FlushRecordPlace
  <1>3. p = Place(meta, cur, curFront, r.size)  OBVIOUS
  <1>4. r.key \in Key  BY <1>2 DEF Rec, Record
  <1> HIDE DEF p, r
  <1>5. /\ p.loc.seg \in Segment /\ p.meta.front = meta.front
        /\ \A h \in Group \ {cur} :
             p.meta.segs[h] = meta.segs[h] /\ p.loc.seg \notin ToSet(meta.segs[h])
        /\ \A s \in Segment \ {p.loc.seg} : p.meta.segFront[s] = meta.segFront[s]
    BY <1>0, <1>2, <1>3, PlaceEffects
  <1>a. ToSet(p.meta.segs[cur]) = ToSet(meta.segs[cur]) \cup {p.loc.seg}
    <2>1. Grown(p.meta.segs[cur], meta.segs[cur], p.loc.seg)  BY <1>0, <1>2, <1>3, PlaceEffects
    <2> QED  BY <2>1 DEF Grown
  <1>b. p.meta.segFront[p.loc.seg] = p.loc.off + p.loc.size
    <2>1. p.meta.segFront[p.loc.seg] = p.loc.off + r.size  BY <1>0, <1>2, <1>3, PlaceEffects
    <2> QED  BY <1>2, <2>1
  <1>6. cur \in modified  BY <1>0, <1>1, <1>2 DEF Course, Flushing
  <1>7. cur \in Sound /\ p.loc.seg \in ToSet(meta.segs[cur]) => p.loc.off = meta.segFront[p.loc.seg]
    <2> SUFFICES ASSUME cur \in Sound
                 PROVE  p.loc.seg \in ToSet(meta.segs[cur]) => p.loc.off = meta.segFront[p.loc.seg]
      OBVIOUS
    <2>1. ~ NotBegun(cur) /\ FrontNow(cur) = curFront
      BY <1>1, <1>2 DEF NotBegun, FrontNow, Flushing
    <2>2. Aligned(curFront, meta.segs[cur], meta.segFront, cur)
      BY <1>0, <2>1 DEF MemoryAligned
    <2> QED  BY <1>0, <1>2, <1>3, <2>2, PlaceAligned
  <1>8. Placed(cur, r.key, p.loc)
    BY <1>1, <1>2, <1>5, <1>6, <1>7, <1>a, <1>b DEF Placed
  <1> QED  BY <1>2, <1>4, <1>8

LEMMA RewriteRecordPlaced ==
  ASSUME IInv, Bounds, FInv, pc # "down", NEW r \in survivors, RewriteRecord(r)
  PROVE  \E g \in Group, k \in Key, loc \in Loc : Placed(g, k, loc)
  <1>0. /\ MemoryAligned /\ Untouched /\ Own(meta) /\ MetaFits(meta) /\ Phases
    BY FFacts
  <1> DEFINE p == Place(meta, victim, curFront, r.size)
  <1>1. /\ pc = "rewrite" /\ pc' = pc /\ meta' = p.meta
        /\ batch' = Append(batch, [key |-> r.key, loc |-> p.loc])
        /\ touched' = touched \cup {p.loc.seg}
        /\ UNCHANGED <<modified, victim, torn, segMeta, groupMeta, exposed>>
    BY DEF RewriteRecord, durable, history
  <1>2. /\ victim \in Group /\ meta.segs[victim] # <<>>
        /\ curFront \in Nat /\ curFront <= Room(meta.segs[victim])
        /\ r.size \in 1..LogSize /\ CanPlace(meta, victim, curFront, r.size)
        /\ r \in Rec /\ p.loc \in Loc /\ p.loc.size = r.size
    BY RewritePlace
  <1>3. p = Place(meta, victim, curFront, r.size)  OBVIOUS
  <1>4. r.key \in Key /\ r.size <= MainSize
    <2>1. r.key \in Key  BY <1>2 DEF Rec, Record
    <2>2. r.size <= MainSize  BY <1>2, SizeFacts DEF Bounds, RecordsFit
    <2> QED  BY <2>1, <2>2
  <1> HIDE DEF p
  <1>5. /\ p.loc.seg \in Segment /\ p.meta.front = meta.front
        /\ \A h \in Group \ {victim} :
             p.meta.segs[h] = meta.segs[h] /\ p.loc.seg \notin ToSet(meta.segs[h])
        /\ \A s \in Segment \ {p.loc.seg} : p.meta.segFront[s] = meta.segFront[s]
    BY <1>0, <1>2, <1>3, PlaceEffects
  <1>a. ToSet(p.meta.segs[victim]) = ToSet(meta.segs[victim]) \cup {p.loc.seg}
    <2>1. Grown(p.meta.segs[victim], meta.segs[victim], p.loc.seg)  BY <1>0, <1>2, <1>3, PlaceEffects
    <2> QED  BY <2>1 DEF Grown
  <1>b. p.meta.segFront[p.loc.seg] = p.loc.off + p.loc.size
    <2>1. p.meta.segFront[p.loc.seg] = p.loc.off + r.size  BY <1>0, <1>2, <1>3, PlaceEffects
    <2> QED  BY <1>2, <2>1
  <1>6. victim \in modified /\ victim # None  BY <1>0, <1>2, SegmentFacts DEF Phases
  <1>7. FrontNow(victim) = curFront  BY <1>1 DEF FrontNow
  <1>8. victim \in Sound /\ p.loc.seg \in ToSet(meta.segs[victim]) /\ touched # {} =>
          p.loc.off = meta.segFront[p.loc.seg]
    <2> SUFFICES ASSUME victim \in Sound, touched # {}
                 PROVE  p.loc.seg \in ToSet(meta.segs[victim]) => p.loc.off = meta.segFront[p.loc.seg]
      OBVIOUS
    <2>1. ~ NotBegun(victim)  BY DEF NotBegun
    <2>2. Aligned(curFront, meta.segs[victim], meta.segFront, victim)
      BY <1>0, <1>7, <2>1 DEF MemoryAligned
    <2> QED  BY <1>0, <1>2, <1>3, <2>2, PlaceAligned
  <1>9. ToSet(p.meta.segs[victim]) \subseteq touched \cup {p.loc.seg}
    <2>1. CASE NotBegun(victim)
      <3>1. curFront = 0 /\ meta.segs[victim] = <<victim>>  BY <1>7, <2>1 DEF NotBegun
      <3>2. p.loc.seg = victim /\ p.meta.segs[victim] = <<victim>>
        BY <1>0, <1>2, <1>3, <1>4, <3>1, FirstPlace
      <3>3. ToSet(<<victim>>) = {victim}  BY DEF ToSet
      <3> QED  BY <3>2, <3>3
    <2>2. CASE ToSet(meta.segs[victim]) \subseteq touched  BY <1>a, <2>2
    <2> QED  BY <1>0, <1>6, <2>1, <2>2 DEF Untouched
  <1>10. Placed(victim, r.key, p.loc)
    BY <1>1, <1>2, <1>5, <1>6, <1>8, <1>9, <1>a, <1>b DEF Placed
  <1> QED  BY <1>2, <1>4, <1>10

----------------------------------------------------------------------------
(* The batch names the segments it filled                                   *)

LEMMA EndsPlaced ==
  ASSUME Bounds, modified \subseteq Group, Ends, NEW g \in Group, NEW k \in Key, NEW loc \in Loc, Placed(g, k, loc)
  PROVE  Ends'
  <1> DEFINE e == [key |-> k, loc |-> loc]
             end(i) == batch[i].loc.off + batch[i].loc.size
  <1>1. /\ batch \in Seq(KeyLoc) /\ e \in KeyLoc /\ touched \subseteq Segment
        /\ \A s \in Segment : meta.segFront[s] \in Nat
    BY DEF KeyLoc, Bounds, Locations, MemoryFits, MetaFits
  <1>2. loc.seg \in Segment /\ loc.off \in Nat /\ loc.size \in Nat  BY DEF Loc
  <1>3. /\ Len(batch) \in Nat /\ DOMAIN batch = 1..Len(batch) /\ DOMAIN batch' = 1..(Len(batch) + 1)
        /\ \A i \in DOMAIN batch : batch'[i] = batch[i] /\ i \in DOMAIN batch'
        /\ batch'[Len(batch) + 1] = e /\ Len(batch) + 1 \in DOMAIN batch'
    BY <1>1 DEF Placed
  <1>4. \A i \in DOMAIN batch : batch[i].loc.seg \in Segment /\ end(i) \in Nat
    <2> SUFFICES ASSUME NEW i \in DOMAIN batch
                 PROVE  batch[i].loc.seg \in Segment /\ end(i) \in Nat
      OBVIOUS
    <2>1. batch[i] \in KeyLoc  BY <1>1
    <2>2. batch[i].loc \in Loc  BY <2>1 DEF KeyLoc
    <2> QED  BY <2>2, SizeFacts DEF Loc
  <1>5. /\ touched' = touched \cup {loc.seg} /\ modified' = modified /\ Sound' = Sound
        /\ g \in modified
        /\ ToSet(meta'.segs[g]) = ToSet(meta.segs[g]) \cup {loc.seg}
        /\ \A h \in Group \ {g} : meta'.segs[h] = meta.segs[h] /\ loc.seg \notin ToSet(meta.segs[h])
        /\ meta'.segFront[loc.seg] = loc.off + loc.size
        /\ \A s \in Segment \ {loc.seg} : meta'.segFront[s] = meta.segFront[s]
        /\ g \in Sound /\ loc.seg \in ToSet(meta.segs[g]) /\ touched # {} =>
             loc.off = meta.segFront[loc.seg]
    BY DEF Placed, Sound
  <1>6. e.loc = loc  OBVIOUS
  <1> HIDE DEF e
  <1>7. ASSUME NEW i \in DOMAIN batch'
        PROVE  batch'[i].loc.seg \in touched' /\ \E h \in modified' : batch'[i].loc.seg \in ToSet(meta'.segs[h])
    <2>1. CASE i \in DOMAIN batch
      <3>1. batch[i].loc.seg \in touched /\ \E h \in modified : batch[i].loc.seg \in ToSet(meta.segs[h])
        BY <2>1 DEF Ends
      <3>3. PICK h \in modified : batch[i].loc.seg \in ToSet(meta.segs[h])  BY <3>1
      <3>4. CASE h = g  BY <1>3, <1>5, <2>1, <3>1, <3>3, <3>4
      <3>5. CASE h # g  BY <1>3, <1>5, <2>1, <3>1, <3>3, <3>5
      <3> QED  BY <3>4, <3>5
    <2>2. CASE i = Len(batch) + 1  BY <1>3, <1>5, <1>6, <2>2
    <2> QED  BY <1>3, <2>1, <2>2
  <1>8. ASSUME NEW h \in Sound, NEW i \in DOMAIN batch', batch'[i].loc.seg \in ToSet(meta'.segs[h])
        PROVE  batch'[i].loc.off + batch'[i].loc.size <= meta'.segFront[batch'[i].loc.seg]
    <2> DEFINE s == batch'[i].loc.seg
    <2>0. h \in Group  BY DEF Sound
    <2>1. CASE i \in DOMAIN batch
      <3>1. batch'[i] = batch[i] /\ s \in Segment /\ end(i) \in Nat /\ s \in touched
        BY <1>3, <1>4, <2>1 DEF Ends
      <3>2. CASE s # loc.seg
        <4>1. s \in ToSet(meta.segs[h])  BY <1>5, <1>8, <2>0, <3>2
        <4>2. end(i) <= meta.segFront[s]  BY <2>1, <3>1, <4>1 DEF Ends
        <4> QED  BY <1>5, <3>1, <3>2, <4>2
      <3>3. CASE s = loc.seg
        <4>1. PICK x \in modified : s \in ToSet(meta.segs[x])  BY <2>1, <3>1 DEF Ends
        <4>2. x = g  BY <1>5, <3>3, <4>1
        <4>3. h = g  BY <1>5, <1>8, <2>0, <3>3
        <4>4. loc.off = meta.segFront[s] /\ end(i) <= meta.segFront[s]
          BY <1>5, <2>1, <3>1, <3>3, <4>1, <4>2, <4>3 DEF Ends
        <4>5. end(i) <= loc.off + loc.size  BY <1>2, <3>1, <4>4
        <4> QED  BY <1>5, <3>1, <3>3, <4>5
      <3> QED  BY <3>2, <3>3
    <2>2. CASE i = Len(batch) + 1  BY <1>2, <1>3, <1>5, <1>6, <2>2
    <2> QED  BY <1>3, <2>1, <2>2
  <1>9. ASSUME NEW s \in touched' PROVE \E i \in DOMAIN batch' : batch'[i].loc.seg = s
    <2>1. CASE s = loc.seg  BY <1>3, <1>6, <2>1
    <2>2. CASE s \in touched
      <3>1. PICK i \in DOMAIN batch : batch[i].loc.seg = s  BY <2>2 DEF Ends
      <3> QED  BY <1>3, <3>1
    <2> QED  BY <1>5, <2>1, <2>2
  <1>10. ASSUME NEW h \in Sound, NEW s \in touched' \cap ToSet(meta'.segs[h])
         PROVE  \E i \in DOMAIN batch' : batch'[i].loc.seg = s /\
                  batch'[i].loc.off + batch'[i].loc.size = meta'.segFront[s]
    <2>0. h \in Group  BY DEF Sound
    <2>1. CASE s = loc.seg  BY <1>3, <1>5, <1>6, <2>1
    <2>2. CASE s # loc.seg
      <3>1. s \in touched /\ s \in ToSet(meta.segs[h])  BY <1>5, <2>0, <2>2
      <3>2. PICK i \in DOMAIN batch : batch[i].loc.seg = s /\ end(i) = meta.segFront[s]
        BY <3>1 DEF Ends
      <3>3. meta'.segFront[s] = meta.segFront[s]  BY <1>1, <1>5, <2>2, <3>1
      <3> QED  BY <1>3, <3>2, <3>3
    <2> QED  BY <2>1, <2>2
  <1> QED  BY <1>5, <1>7, <1>8, <1>9, <1>10 DEF Ends

LEMMA EndsKept ==
  ASSUME IInv, Bounds, FInv, pc # "down", Next, pc' # "down"
  PROVE  Ends'
  <1>0. /\ Course /\ Ends /\ Own(meta) /\ MetaFits(meta) /\ Phases
    BY FFacts
  <1>g. modified \subseteq Group  BY FFacts DEF Buffer
  <1>1. ASSUME UNCHANGED <<batch, touched>>, torn \subseteq torn', modified \subseteq modified',
               meta'.segs = meta.segs, meta'.segFront = meta.segFront
        PROVE  Ends'
    <2>1. Sound' \subseteq Sound  BY <1>1 DEF Sound
    <2> QED  BY <1>0, <1>1, <2>1 DEF Ends
  <1>2. ASSUME batch' = <<>>, touched' = {} PROVE Ends'
    <2>1. DOMAIN batch' = {}  BY <1>2
    <2> QED  BY <1>2, <2>1 DEF Ends
  <1>3. ASSUME NEW k \in Key, NEW s \in Sizes[k], Put(k, s) \/ FlushBeforeWrite(k, s) PROVE Ends'
    <2>1. pc = "idle" /\ UNCHANGED <<batch, touched>>  BY <1>3 DEF Put, FlushBeforeWrite
    <2> QED  BY <1>0, <1>2, <2>1 DEF Course
  <1>4. ASSUME NEW h \in Group, PickGroup(h) \/ GCOneGroup(h) PROVE Ends'
    <2>1. CASE PickGroup(h)
      <3>1. UNCHANGED <<batch, touched, torn, meta>> /\ modified \subseteq modified'
        BY <2>1 DEF PickGroup, history
      <3> QED  BY <1>1, <3>1
    <2>2. CASE GCOneGroup(h)
      <3>1. pc = "gc" /\ UNCHANGED <<batch, touched>>  BY <2>2 DEF GCOneGroup
      <3> QED  BY <1>0, <1>2, <3>1 DEF Course
    <2> QED  BY <1>4, <2>1, <2>2
  <1>5. ASSUME NEW r \in survivors, RewriteRecord(r) PROVE Ends'
    BY <1>0, <1>g, <1>5, RewriteRecordPlaced, EndsPlaced
  <1>6. ASSUME FlushRecord PROVE Ends'
    BY <1>0, <1>g, <1>6, FlushRecordPlaced, EndsPlaced
  <1>7. ASSUME LeaveGroup \/ SetBatchGCKeyValue PROVE Ends'
    <2>1. /\ UNCHANGED <<batch, touched, torn, modified>>
          /\ \E g : meta' = [meta EXCEPT !.front[g] = curFront]
      BY <1>7 DEF LeaveGroup, SetBatchGCKeyValue, history
    <2>2. meta'.segs = meta.segs /\ meta'.segFront = meta.segFront  BY <1>0, <2>1 DEF Own
    <2> QED  BY <1>1, <2>1, <2>2
  <1>8. ASSUME ReservedOverflow \/ EndOfUpdates \/ SetBatchUpdateKeyValue \/ WriteKeyBatch
                 \/ WriteKeyBatchFails \/ LogMetaPersist \/ GCGreedyInVain
        PROVE  Ends'
    <2>1. UNCHANGED <<batch, touched, modified, meta>> /\ torn \subseteq torn'
      BY <1>8 DEF ReservedOverflow, EndOfUpdates, SetBatchUpdateKeyValue, WriteKeyBatch,
                  WriteKeyBatchFails, LogMetaPersist, GCGreedyInVain, volatile, history
    <2> QED  BY <1>1, <2>1
  <1>9. ASSUME NEW s \in Segment, WriteSegment(s) PROVE Ends'
    <2>1. UNCHANGED <<batch, touched, torn, modified, meta>>  BY <1>9 DEF WriteSegment, history
    <2> QED  BY <1>1, <2>1
  <1>10. ASSUME FinishFlush \/ AckBeforeGC \/ FinishGC PROVE Ends'
    <2>1. batch' = <<>> /\ touched' = {}
      BY <1>10 DEF FinishFlush, AckBeforeGC, FinishGC, ForgetBatch
    <2> QED  BY <1>2, <2>1
  <1>11. ASSUME Crash \/ Recover PROVE Ends'
    BY <1>11 DEF Crash, Recover
  <1> QED
    BY <1>3, <1>4, <1>5, <1>6, <1>7, <1>8, <1>9, <1>10, <1>11 DEF Next

----------------------------------------------------------------------------
(* What the batch has not touched is as it was persisted                    *)

LEMMA EmptyIsNoGroup ==
  ASSUME DurableFits, NEW g \in Group, groupMeta[g].segs = <<>>
  PROVE  groupMeta[g] = NoGroup
  <1>1. Fitting(groupMeta[g].front, <<>>)  BY DEF DurableFits
  <1>2. groupMeta[g].front = 0  BY <1>1 DEF Fitting, Room
  <1>3. groupMeta[g] = [front |-> groupMeta[g].front, segs |-> groupMeta[g].segs]
    BY DEF DurableFits
  <1> QED  BY <1>2, <1>3 DEF NoGroup

(* A segment the batch touched belongs to a group that it modified.         *)
LEMMA TouchedOwner ==
  ASSUME Ends, Own(meta), modified \subseteq Group, NEW s \in touched
  PROVE  \A g \in Group : s \in ToSet(meta.segs[g]) \/ s = g => g \in modified
  <1>1. PICK i \in DOMAIN batch : batch[i].loc.seg = s  BY DEF Ends
  <1>2. PICK h \in modified : s \in ToSet(meta.segs[h])  BY <1>1 DEF Ends
  <1> SUFFICES ASSUME NEW g \in Group, s \in ToSet(meta.segs[g]) \/ s = g, g # h
               PROVE  FALSE
    BY <1>2
  <1>3. ToSet(meta.segs[g]) \cap ToSet(meta.segs[h]) = {} /\ g \notin ToSet(meta.segs[h])
    BY <1>2, OwnDisjoint
  <1> QED  BY <1>2, <1>3

(* A collection begins with the main segment alone.                         *)
LEMMA GCBegins ==
  ASSUME IInv, Bounds, FInv, pc # "down", NEW h \in Group, GCOneGroup(h)
  PROVE  NotBegun(h)' /\ victim' = h /\ touched = {} /\ victim = None
  <1>0. Course /\ Own(meta) /\ MetaFits(meta) /\ Phases  BY FFacts
  <1>1. /\ pc = "gc" /\ pc' = "rewrite" /\ meta' = ReleaseGroup(meta, h) /\ victim' = h
        /\ curFront' = 0 /\ UNCHANGED <<cur, touched, unwritten>>
    BY DEF GCOneGroup
  <1>2. touched = {} /\ unwritten = {}  BY <1>0, <1>1 DEF Course
  <1>3. meta'.segs[h] = <<h>> /\ meta'.front[h] = 0  BY <1>0, <1>1, ReleaseParts
  <1>4. h # None  BY SegmentFacts
  <1>5. victim = None  BY <1>0, <1>1 DEF Phases
  <1> QED  BY <1>1, <1>2, <1>3, <1>4, <1>5 DEF NotBegun, FrontNow, Flushing

LEMMA UntouchedKept ==
  ASSUME IInv, Bounds, FInv, pc # "down", Next, pc' # "down"
  PROVE  Untouched'
  <1>0. /\ MemoryAligned /\ Course /\ Ends /\ Untouched /\ Unmodified /\ Own(meta) /\ MetaFits(meta)
        /\ Phases /\ DurableFits
        /\ \A g \in Group : Shape(meta.segs[g], g)
    BY FFacts
  <1>g. modified \subseteq Group  BY FFacts DEF Buffer
  <1>n. None \notin Group  BY SegmentFacts
  <1>1. ASSUME UNCHANGED <<touched, victim, groupMeta, segMeta>>, torn \subseteq torn', pc' # "ack",
               meta'.segs = meta.segs, meta'.segFront = meta.segFront,
               NotBegun(victim) => NotBegun(victim)'
        PROVE  Untouched'
    <2>1. Sound' \subseteq Sound  BY <1>1 DEF Sound
    <2>2. victim' # None => NotBegun(victim)' \/ ToSet(meta.segs[victim])' \subseteq touched'
      BY <1>0, <1>1 DEF Untouched
    <2> QED  BY <1>0, <1>1, <2>1, <2>2 DEF Untouched
  <1>2. ASSUME NEW k \in Key, NEW s \in Sizes[k], Put(k, s) \/ FlushBeforeWrite(k, s)
        PROVE  Untouched'
    <2> DEFINE h == Hash[k]
    <2>1. /\ pc = "idle" /\ pc' \in {"idle", "flush"} /\ meta' = GetNewMainSegment(meta, h)
          /\ UNCHANGED <<victim, torn, touched, groupMeta, segMeta>>
      BY <1>2 DEF Put, FlushBeforeWrite, durable, history
    <2>2. h \in Group  BY HashKVAssumption
    <2> HIDE DEF h
    <2>3. /\ meta'.segFront = meta.segFront
          /\ \A g \in Group : g # h \/ meta.segs[g] # <<>> =>
               meta'.segs[g] = meta.segs[g] /\ meta'.front[g] = meta.front[g]
          /\ meta.segs[h] = <<>> => meta'.segs[h] = <<h>> /\ meta'.front[h] = 0
      BY <1>0, <2>1, <2>2, NewMainParts
    <2>4. victim = None /\ modified = {}  BY <1>0, <2>1 DEF Phases, Course
    <2>5. Sound' = Sound  BY <2>1 DEF Sound
    <2>6. ASSUME NEW g \in Sound, NEW x \in ToSet(meta'.segs[g]), x \notin touched
          PROVE  segMeta[x] = meta'.segFront[x] /\ x \in ToSet(groupMeta[g].segs) \cup {g}
      <3>1. g \in Group /\ g # victim  BY <1>n, <2>4 DEF Sound
      <3>2. CASE g # h \/ meta.segs[g] # <<>>
        BY <1>0, <2>3, <2>6, <3>1, <3>2 DEF Untouched
      <3>3. CASE g = h /\ meta.segs[g] = <<>>
        <4>1. ToSet(<<g>>) = {g}  BY DEF ToSet
        <4>2. x = g  BY <2>3, <2>6, <3>3, <4>1
        <4>3. groupMeta[g] = NoGroup
          BY <1>0, <2>4, <3>1, <3>3, EmptyIsNoGroup DEF Unmodified
        <4>4. segMeta[g] = 0  BY <1>0, <4>3 DEF Untouched
        <4>5. ~ NotBegun(g)  BY <2>1 DEF NotBegun
        <4>6. meta.segFront[g] = 0  BY <1>0, <3>3, <4>5 DEF MemoryAligned, Aligned
        <4> QED  BY <2>3, <4>2, <4>4, <4>6
      <3> QED  BY <3>2, <3>3
    <2> QED  BY <1>0, <2>1, <2>4, <2>5, <2>6 DEF Untouched
  <1>3. ASSUME NEW h \in Group, PickGroup(h) PROVE Untouched'
    <2>1. pc = "flush" /\ pc' = pc /\ UNCHANGED <<meta, victim, touched, torn, groupMeta, segMeta>>
      BY <1>3 DEF PickGroup, durable, history
    <2>2. ~ NotBegun(victim)  BY <2>1 DEF NotBegun
    <2> QED  BY <1>1, <2>1, <2>2
  <1>4. ASSUME NEW h \in Group, GCOneGroup(h) PROVE Untouched'
    <2>1. /\ pc' = "rewrite" /\ meta' = ReleaseGroup(meta, h)
          /\ UNCHANGED <<touched, groupMeta, segMeta>> /\ torn \subseteq torn'
      BY <1>4 DEF GCOneGroup, durable
    <2>2. NotBegun(h)' /\ victim' = h /\ touched = {} /\ victim = None  BY <1>4, GCBegins
    <2>3. \A g \in Group \ {h} :
            /\ meta'.segs[g] = meta.segs[g]
            /\ \A s \in ToSet(meta.segs[g]) : meta'.segFront[s] = meta.segFront[s]
      BY <1>0, <2>1, ReleaseParts
    <2>4. Sound' \subseteq Sound  BY <2>1 DEF Sound
    <2>5. NotBegun(victim)'  BY <2>2
    <2>6. ASSUME NEW g \in Sound, g # h, NEW s \in ToSet(meta'.segs[g])
          PROVE  segMeta[s] = meta'.segFront[s] /\ s \in ToSet(groupMeta[g].segs) \cup {g}
      <3>1. g \in Group \ {h} /\ g # victim  BY <1>n, <2>2, <2>6 DEF Sound
      <3>2. s \in ToSet(meta.segs[g])  BY <2>3, <2>6, <3>1
      <3> QED  BY <1>0, <2>2, <2>3, <3>1, <3>2 DEF Untouched
    <2> QED  BY <1>0, <2>1, <2>2, <2>4, <2>5, <2>6 DEF Untouched
  <1>5. ASSUME NEW a \in Group, NEW k \in Key, NEW loc \in Loc, Placed(a, k, loc)
        PROVE  Untouched'
    <2>1. /\ pc' # "ack" /\ UNCHANGED <<victim, torn, segMeta, groupMeta>>
          /\ touched' = touched \cup {loc.seg} /\ victim \in {None, a}
          /\ ToSet(meta'.segs[a]) = ToSet(meta.segs[a]) \cup {loc.seg}
          /\ \A h \in Group \ {a} : meta'.segs[h] = meta.segs[h] /\ loc.seg \notin ToSet(meta.segs[h])
          /\ \A s \in Segment \ {loc.seg} : meta'.segFront[s] = meta.segFront[s]
          /\ victim # None => ToSet(meta'.segs[victim]) \subseteq touched'
      BY <1>5 DEF Placed
    <2>2. Sound' = Sound  BY <2>1 DEF Sound
    <2>3. ASSUME NEW g \in Sound, NEW s \in ToSet(meta'.segs[g]), s \notin touched', g # victim
          PROVE  segMeta[s] = meta'.segFront[s] /\ s \in ToSet(groupMeta[g].segs) \cup {g}
      <3>1. g \in Group /\ s # loc.seg /\ s \notin touched  BY <2>1, <2>3 DEF Sound
      <3>2. s \in ToSet(meta.segs[g])  BY <2>1, <3>1
      <3>3. s \in Segment  BY <1>0, <3>1, <3>2, ListMembers
      <3> QED  BY <1>0, <2>1, <2>3, <3>1, <3>2, <3>3 DEF Untouched
    <2> QED  BY <1>0, <2>1, <2>2, <2>3 DEF Untouched
  <1>6. ASSUME LeaveGroup PROVE Untouched'
    <2>1. /\ pc = "flush" /\ pc' = pc /\ UNCHANGED <<victim, touched, torn, groupMeta, segMeta>>
          /\ meta' = [meta EXCEPT !.front[cur] = curFront]
      BY <1>6 DEF LeaveGroup, durable, history
    <2>2. meta'.segs = meta.segs /\ meta'.segFront = meta.segFront  BY <1>0, <2>1 DEF Own
    <2>3. ~ NotBegun(victim)  BY <2>1 DEF NotBegun
    <2> QED  BY <1>1, <2>1, <2>2, <2>3
  <1>7. ASSUME SetBatchGCKeyValue PROVE Untouched'
    <2>1. /\ pc = "rewrite" /\ pc' = "gcdata" /\ meta' = [meta EXCEPT !.front[victim] = curFront]
          /\ UNCHANGED <<victim, cur, touched, unwritten, torn, groupMeta, segMeta>>
      BY <1>7 DEF SetBatchGCKeyValue, history
    <2>2. victim # None /\ victim \in Group
      BY <1>0, <2>1, FFacts DEF Phases, Buffer
    <2>3. meta'.segs = meta.segs /\ meta'.segFront = meta.segFront /\ meta'.front[victim] = curFront
      BY <1>0, <2>1, <2>2 DEF Own, MetaFits
    <2>4. FrontNow(victim) = curFront /\ FrontNow(victim)' = curFront
      BY <2>1, <2>2, <2>3 DEF FrontNow, Flushing
    <2>5. NotBegun(victim) => NotBegun(victim)'  BY <2>1, <2>3, <2>4 DEF NotBegun
    <2> QED  BY <1>1, <2>1, <2>3, <2>5
  <1>8. ASSUME ReservedOverflow \/ EndOfUpdates \/ SetBatchUpdateKeyValue \/ WriteKeyBatch
                 \/ WriteKeyBatchFails \/ GCGreedyInVain
        PROVE  Untouched'
    <2>1. /\ UNCHANGED <<meta, touched, victim, groupMeta, segMeta>> /\ torn \subseteq torn'
          /\ pc \in {"flush", "log", "keys", "gc"} /\ pc' \in {"log", "keys", "meta", "gc"}
      BY <1>8 DEF ReservedOverflow, EndOfUpdates, SetBatchUpdateKeyValue, WriteKeyBatch,
                  WriteKeyBatchFails, GCGreedyInVain, volatile, durable, history
    <2>2. ~ NotBegun(victim)  BY <2>1 DEF NotBegun
    <2> QED  BY <1>1, <2>1, <2>2
  <1>9. ASSUME NEW s \in Segment, WriteSegment(s) PROVE Untouched'
    <2>1. /\ UNCHANGED <<meta, touched, torn, victim, groupMeta, segMeta>>
          /\ unwritten # {} /\ pc' \in {"keys", "gcdata"}
      BY <1>9 DEF WriteSegment, history
    <2>2. ~ NotBegun(victim)  BY <2>1 DEF NotBegun
    <2> QED  BY <1>1, <2>1, <2>2
  <1>10. ASSUME LogMetaPersist PROVE Untouched'
    <2>1. /\ pc = "meta" /\ pc' = "ack" /\ UNCHANGED <<meta, touched, torn, victim>>
          /\ groupMeta' = Persisted(meta, modified)
          /\ segMeta' = [s \in Segment |-> IF s \in touched THEN meta.segFront[s] ELSE segMeta[s]]
      BY <1>10 DEF LogMetaPersist, volatile
    <2>2. Sound' = Sound /\ ~ NotBegun(victim)  BY <2>1 DEF Sound, NotBegun
    <2>3. /\ \A g \in modified : groupMeta'[g] = [front |-> meta.front[g], segs |-> meta.segs[g]]
          /\ \A g \in Group \ modified : groupMeta'[g] = groupMeta[g]
      BY <1>0, <1>g, <2>1, PersistedFits
    <2>4. \A g \in modified : groupMeta'[g].segs = meta.segs[g] /\ meta.segs[g] # <<>>
      <3>1. \A g \in modified : meta.segs[g] # <<>>  BY <1>0 DEF Course
      <3>2. ASSUME NEW g \in modified PROVE groupMeta'[g].segs = meta.segs[g]
        <4>1. groupMeta'[g] = [front |-> meta.front[g], segs |-> meta.segs[g]]  BY <2>3
        <4> QED  BY <4>1
      <3> QED  BY <3>1, <3>2
    <2>5. ASSUME NEW g \in Sound, groupMeta'[g] = NoGroup PROVE segMeta'[g] = 0
      <3>1. g \in Group /\ g \in Segment  BY SegmentFacts DEF Sound
      <3>2. g \notin modified  BY <2>4, <2>5 DEF NoGroup
      <3>3. g \notin touched  BY <1>0, <1>g, <3>1, <3>2, TouchedOwner
      <3>4. segMeta[g] = 0  BY <1>0, <2>3, <2>5, <3>1, <3>2 DEF Untouched
      <3> QED  BY <2>1, <3>1, <3>3, <3>4
    <2>6. ASSUME NEW g \in Sound, NEW s \in ToSet(meta.segs[g])
          PROVE  segMeta'[s] = meta.segFront[s] /\ s \in ToSet(groupMeta'[g].segs) \cup {g}
      <3>1. g \in Group  BY DEF Sound
      <3>2. s \in Segment  BY <1>0, <3>1, ListMembers
      <3>3. CASE s \in touched
        <4>1. g \in modified  BY <1>0, <1>g, <3>1, <3>3, TouchedOwner
        <4> QED  BY <2>1, <2>4, <3>2, <3>3, <4>1
      <3>4. CASE s \notin touched
        <4>1. g # victim  BY <1>0, <1>n, <2>2, <3>1, <3>4 DEF Untouched
        <4>2. segMeta[s] = meta.segFront[s] /\ s \in ToSet(groupMeta[g].segs) \cup {g}
          BY <1>0, <3>4, <4>1 DEF Untouched
        <4>3. s \in ToSet(groupMeta'[g].segs) \cup {g}
          <5>1. CASE g \in modified  BY <2>4, <5>1
          <5>2. CASE g \notin modified  BY <2>3, <3>1, <4>2, <5>2
          <5> QED  BY <5>1, <5>2
        <4> QED  BY <2>1, <3>2, <3>4, <4>2, <4>3
      <3> QED  BY <3>3, <3>4
    <2>7. victim # None => ToSet(meta.segs[victim]) \subseteq touched
      BY <1>0, <2>2 DEF Untouched
    <2> QED  BY <2>1, <2>2, <2>5, <2>6, <2>7 DEF Untouched
  <1>11. ASSUME FinishFlush \/ AckBeforeGC \/ FinishGC PROVE Untouched'
    <2>1. /\ pc = "ack" /\ victim' = None /\ UNCHANGED <<torn, groupMeta, segMeta>>
          /\ meta' = meta \/ meta' = [meta EXCEPT !.front[cur] = curFront]
      BY <1>11 DEF FinishFlush, AckBeforeGC, FinishGC, history
    <2>2. meta'.segs = meta.segs /\ meta'.segFront = meta.segFront  BY <1>0, <2>1 DEF Own
    <2>3. Sound' = Sound  BY <2>1 DEF Sound
    <2> QED  BY <1>0, <2>1, <2>2, <2>3 DEF Untouched
  <1>12. ASSUME NEW r \in survivors, RewriteRecord(r) PROVE Untouched'
    BY <1>5, <1>12, RewriteRecordPlaced
  <1>13. ASSUME FlushRecord PROVE Untouched'
    BY <1>5, <1>13, FlushRecordPlaced
  <1>14. ASSUME Crash \/ Recover PROVE Untouched'
    BY <1>14 DEF Crash, Recover
  <1> QED
    BY <1>2, <1>3, <1>4, <1>6, <1>7, <1>8, <1>9, <1>10, <1>11, <1>12, <1>13, <1>14 DEF Next

LEMMA UnmodifiedKept ==
  ASSUME IInv, Bounds, FInv, pc # "down", Next, pc' # "down"
  PROVE  Unmodified'
  <1> DEFINE U(g) == \/ /\ groupMeta[g] = NoGroup /\ g \notin modified
                        /\ meta.segs[g] \in {<<>>, <<g>>} /\ meta.front[g] = 0
                     \/ /\ groupMeta[g].segs = meta.segs[g] /\ groupMeta[g] # NoGroup
                        /\ g \in exposed \/ groupMeta[g].front = meta.front[g]
  <1>0. /\ Course /\ Unmodified /\ Own(meta) /\ MetaFits(meta) /\ Phases /\ DurableFits
    BY FFacts
  <1>g. modified \subseteq Group  BY FFacts DEF Buffer
  <1>u. \A g \in Sound : g \notin modified \/ pc = "ack" => U(g)  BY <1>0 DEF Unmodified
  <1>1. ASSUME torn \subseteq torn', groupMeta' = groupMeta, exposed \subseteq exposed', pc' # "ack",
               \A g \in Sound : g \notin modified' =>
                 /\ g \notin modified \/ pc = "ack"
                 /\ meta'.segs[g] = meta.segs[g] /\ meta'.front[g] = meta.front[g]
        PROVE  Unmodified'
    <2>1. Sound' \subseteq Sound  BY <1>1 DEF Sound
    <2>2. ASSUME NEW g \in Sound, g \notin modified' PROVE U(g)'
      BY <1>1, <1>u, <2>2
    <2> QED  BY <1>1, <2>1, <2>2 DEF Unmodified
  <1>2. ASSUME NEW k \in Key, NEW s \in Sizes[k], Put(k, s) \/ FlushBeforeWrite(k, s)
        PROVE  Unmodified'
    <2> DEFINE h == Hash[k]
    <2>1. /\ pc = "idle" /\ pc' \in {"idle", "flush"} /\ meta' = GetNewMainSegment(meta, h)
          /\ UNCHANGED <<modified, torn, groupMeta, exposed>>
      BY <1>2 DEF Put, FlushBeforeWrite, durable, history
    <2>2. h \in Group  BY HashKVAssumption
    <2> HIDE DEF h
    <2>3. /\ \A g \in Group : g # h \/ meta.segs[g] # <<>> =>
               meta'.segs[g] = meta.segs[g] /\ meta'.front[g] = meta.front[g]
          /\ meta.segs[h] = <<>> => meta'.segs[h] = <<h>> /\ meta'.front[h] = 0
      BY <1>0, <2>1, <2>2, NewMainParts
    <2>4. Sound' = Sound /\ modified = {}  BY <1>0, <2>1 DEF Sound, Course
    <2>5. ASSUME NEW g \in Sound PROVE U(g)'
      <3>1. g \in Group /\ U(g)  BY <1>u, <2>4 DEF Sound
      <3>2. CASE g # h \/ meta.segs[g] # <<>>  BY <2>1, <2>3, <3>1, <3>2
      <3>3. CASE g = h /\ meta.segs[g] = <<>>
        <4>1. groupMeta[g] = NoGroup  BY <1>0, <3>1, <3>3, EmptyIsNoGroup
        <4> QED  BY <2>1, <2>3, <2>4, <3>3, <4>1
      <3> QED  BY <3>2, <3>3
    <2> QED  BY <2>4, <2>5 DEF Unmodified
  <1>3. ASSUME NEW h \in Group, PickGroup(h) PROVE Unmodified'
    <2>1. pc = "flush" /\ pc' = pc /\ UNCHANGED <<meta, torn, groupMeta, exposed>> /\ modified' = modified \cup {h}
      BY <1>3 DEF PickGroup, durable, history
    <2> QED  BY <1>1, <2>1
  <1>4. ASSUME NEW h \in Group, GCOneGroup(h) PROVE Unmodified'
    <2>1. /\ pc = "gc" /\ pc' = "rewrite" /\ meta' = ReleaseGroup(meta, h) /\ modified' = {h}
          /\ UNCHANGED <<groupMeta, exposed>> /\ torn \subseteq torn'
      BY <1>4 DEF GCOneGroup, durable
    <2>2. \A g \in Group \ {h} : meta'.segs[g] = meta.segs[g] /\ meta'.front[g] = meta.front[g]
      BY <1>0, <2>1, ReleaseParts
    <2>3. modified = {}  BY <1>0, <2>1 DEF Course
    <2> QED  BY <1>1, <2>1, <2>2, <2>3 DEF Sound
  <1>5. ASSUME NEW a \in Group, NEW k \in Key, NEW loc \in Loc, Placed(a, k, loc)
        PROVE  Unmodified'
    <2>1. /\ pc' # "ack" /\ UNCHANGED <<modified, torn, groupMeta, exposed>> /\ a \in modified
          /\ \A h \in Group \ {a} : meta'.segs[h] = meta.segs[h]
          /\ meta'.front = meta.front
      BY <1>5 DEF Placed
    <2> QED  BY <1>1, <2>1 DEF Sound
  <1>6. ASSUME NEW a \in modified, pc' # "ack", UNCHANGED <<modified, torn, groupMeta, exposed>>,
               meta' = [meta EXCEPT !.front[a] = curFront]
        PROVE  Unmodified'
    <2>1. meta'.segs = meta.segs /\ \A g \in Group \ {a} : meta'.front[g] = meta.front[g]
      BY <1>0, <1>6 DEF Own, MetaFits
    <2> QED  BY <1>1, <1>6, <2>1 DEF Sound
  <1>7. ASSUME LeaveGroup \/ SetBatchGCKeyValue PROVE Unmodified'
    <2>1. CASE LeaveGroup
      <3>1. /\ pc = "flush" /\ pc' = pc /\ cur # None /\ UNCHANGED <<modified, torn, groupMeta, exposed>>
            /\ meta' = [meta EXCEPT !.front[cur] = curFront]
        BY <2>1 DEF LeaveGroup, durable, history
      <3>2. cur \in modified  BY <1>0, <3>1 DEF Phases, Course, Flushing
      <3> QED  BY <1>6, <3>1, <3>2
    <2>2. CASE SetBatchGCKeyValue
      <3>1. /\ pc = "rewrite" /\ pc' = "gcdata" /\ UNCHANGED <<modified, torn, groupMeta, exposed>>
            /\ meta' = [meta EXCEPT !.front[victim] = curFront]
        BY <2>2 DEF SetBatchGCKeyValue, history
      <3>2. victim \in modified  BY <1>0, <3>1 DEF Phases
      <3> QED  BY <1>6, <3>1, <3>2
    <2> QED  BY <1>7, <2>1, <2>2
  <1>8. ASSUME ReservedOverflow \/ EndOfUpdates \/ SetBatchUpdateKeyValue \/ WriteKeyBatch
                 \/ WriteKeyBatchFails \/ GCGreedyInVain
        PROVE  Unmodified'
    <2>1. /\ UNCHANGED <<meta, modified, groupMeta>> /\ torn \subseteq torn'
          /\ exposed \subseteq exposed' /\ pc' \in {"log", "keys", "meta", "gc"}
          /\ pc # "ack"
      BY <1>8 DEF ReservedOverflow, EndOfUpdates, SetBatchUpdateKeyValue, WriteKeyBatch,
                  WriteKeyBatchFails, GCGreedyInVain, volatile, durable, history
    <2> QED  BY <1>1, <2>1
  <1>9. ASSUME NEW s \in Segment, WriteSegment(s) PROVE Unmodified'
    <2>1. UNCHANGED <<meta, torn, modified, groupMeta, exposed>> /\ pc' \in {"keys", "gcdata"}
      BY <1>9 DEF WriteSegment, history
    <2> QED  BY <1>1, <2>1
  <1>10. ASSUME LogMetaPersist PROVE Unmodified'
    <2>1. /\ pc = "meta" /\ pc' = "ack" /\ UNCHANGED <<meta, torn, modified>>
          /\ groupMeta' = Persisted(meta, modified) /\ exposed' = (exposed \ modified) \cup Stale
      BY <1>10 DEF LogMetaPersist, volatile
    <2>2. /\ \A g \in modified : groupMeta'[g] = [front |-> meta.front[g], segs |-> meta.segs[g]]
          /\ \A g \in Group \ modified : groupMeta'[g] = groupMeta[g]
      BY <1>0, <1>g, <2>1, PersistedFits
    <2>3. Sound' = Sound  BY <2>1 DEF Sound
    <2>4. ASSUME NEW g \in Sound PROVE U(g)'
      <3>1. CASE g \in modified
        <4>1. groupMeta'[g] = [front |-> meta.front[g], segs |-> meta.segs[g]] /\ meta.segs[g] # <<>>
          BY <1>0, <2>2, <3>1 DEF Course
        <4>2. groupMeta'[g].segs = meta'.segs[g] /\ groupMeta'[g].front = meta'.front[g]
              /\ groupMeta'[g] # NoGroup
          BY <2>1, <4>1 DEF NoGroup
        <4> QED  BY <4>2
      <3>2. CASE g \notin modified
        <4>1. g \in Group /\ U(g)  BY <1>u, <3>2 DEF Sound
        <4>2. groupMeta'[g] = groupMeta[g]  BY <2>2, <3>2, <4>1
        <4> QED  BY <2>1, <3>2, <4>1, <4>2
      <3> QED  BY <3>1, <3>2
    <2> QED  BY <2>3, <2>4 DEF Unmodified
  <1>11. ASSUME FinishFlush \/ FinishGC PROVE Unmodified'
    <2>1. pc = "ack" /\ pc' # "ack" /\ UNCHANGED <<torn, groupMeta, exposed, meta>>
      BY <1>11 DEF FinishFlush, FinishGC, history
    <2> QED  BY <1>1, <2>1
  <1>12. ASSUME AckBeforeGC PROVE Unmodified'
    <2>1. /\ pc = "ack" /\ pc' = "gc" /\ victim = None /\ cur # None /\ modified' = {}
          /\ UNCHANGED <<torn, groupMeta, exposed>> /\ meta' = [meta EXCEPT !.front[cur] = curFront]
      BY <1>12 DEF AckBeforeGC, ForgetBatch, history
    <2>2. /\ meta'.segs = meta.segs /\ meta'.front[cur] = curFront
          /\ \A g \in Group \ {cur} : meta'.front[g] = meta.front[g]
      BY <1>0, <2>1, FFacts DEF Own, MetaFits, Buffer
    <2>3. Stale \subseteq exposed /\ cur \in modified  BY <1>0, <2>1 DEF Course, Flushing
    <2>4. meta.front[cur] = curFront \/ cur \in exposed  BY <2>1, <2>3 DEF Stale
    <2>5. Sound' = Sound  BY <2>1 DEF Sound
    <2>6. ASSUME NEW g \in Sound PROVE U(g)'
      <3>1. g \in Group /\ U(g)  BY <1>u, <2>1 DEF Sound
      <3>2. CASE g # cur  BY <2>1, <2>2, <3>1, <3>2
      <3>3. CASE g = cur
        BY <2>1, <2>2, <2>3, <2>4, <3>1, <3>3
      <3> QED  BY <3>2, <3>3
    <2> QED  BY <2>5, <2>6 DEF Unmodified
  <1>13. ASSUME NEW r \in survivors, RewriteRecord(r) PROVE Unmodified'
    BY <1>5, <1>13, RewriteRecordPlaced
  <1>14. ASSUME FlushRecord PROVE Unmodified'
    BY <1>5, <1>14, FlushRecordPlaced
  <1>15. ASSUME Crash \/ Recover PROVE Unmodified'
    BY <1>15 DEF Crash, Recover
  <1> QED
    BY <1>2, <1>3, <1>4, <1>7, <1>8, <1>9, <1>10, <1>11, <1>12, <1>13, <1>14, <1>15 DEF Next

(* What is persisted of a group is consistent, but for the exposed ones.    *)
LEMMA DurableAlignedKept ==
  ASSUME IInv, Bounds, FInv, pc # "down", Next, pc' # "down"
  PROVE  DurableAligned'
  <1>0. /\ MemoryAligned /\ Course /\ Ends /\ Unmodified /\ DurableAligned /\ Own(meta)
        /\ MetaFits(meta) /\ DurableFits
        /\ \A g \in Group : Shape(meta.segs[g], g) /\ Shape(groupMeta[g].segs, g)
    BY FFacts
  <1>g. modified \subseteq Group  BY FFacts DEF Buffer
  <1>1. ASSUME torn \subseteq torn', exposed \subseteq exposed', UNCHANGED <<groupMeta, segMeta>>
        PROVE  DurableAligned'
    <2>1. Sound' \subseteq Sound  BY <1>1 DEF Sound
    <2> QED  BY <1>0, <1>1, <2>1 DEF DurableAligned
  <1>2. ASSUME LogMetaPersist PROVE DurableAligned'
    <2>1. /\ pc = "meta" /\ pc' = "ack" /\ UNCHANGED <<meta, torn, modified>>
          /\ groupMeta' = Persisted(meta, modified) /\ exposed' = (exposed \ modified) \cup Stale
          /\ segMeta' = [s \in Segment |-> IF s \in touched THEN meta.segFront[s] ELSE segMeta[s]]
      BY <1>2 DEF LogMetaPersist, volatile
    <2>2. /\ \A g \in modified : groupMeta'[g] = [front |-> meta.front[g], segs |-> meta.segs[g]]
          /\ \A g \in Group \ modified : groupMeta'[g] = groupMeta[g]
      BY <1>0, <1>g, <2>1, PersistedFits
    <2>3. Sound' = Sound  BY <2>1 DEF Sound
    <2>4. ASSUME NEW g \in Sound, g \notin exposed', groupMeta'[g] # NoGroup
          PROVE  Aligned(groupMeta'[g].front, groupMeta'[g].segs, segMeta', g)
      <3> DEFINE G == segMeta'
      <3>1. g \in Group  BY DEF Sound
      <3>2. CASE g \in modified
        <4> DEFINE f == meta.front[g]
                   sg == meta.segs[g]
                   F == meta.segFront
        <4>1. groupMeta'[g] = [front |-> f, segs |-> sg] /\ sg # <<>>
          BY <1>0, <2>2, <3>2 DEF Course
        <4>2. groupMeta'[g].front = f /\ groupMeta'[g].segs = sg  BY <4>1
        <4>3. FrontNow(g) = f
          BY <2>1, <2>4 DEF FrontNow, Flushing, Stale
        <4>4. ~ NotBegun(g)  BY <2>1 DEF NotBegun
        <4>5. Aligned(f, sg, F, g)  BY <1>0, <4>3, <4>4 DEF MemoryAligned
        <4>6. \A s \in ToSet(sg) : F[s] = G[s]
          <5>1. Untouched'  BY <1>2, UntouchedKept DEF Next
          <5>2. \A s \in ToSet(meta'.segs[g]) : segMeta'[s] = meta'.segFront[s]
            BY <2>1, <2>3, <5>1 DEF Untouched
          <5> QED  BY <2>1, <5>2
        <4>7. Shape(sg, g)  BY <1>0, <3>1
        <4> HIDE DEF f, sg, F, G
        <4>8. Aligned(f, sg, G, g)  BY <3>1, <4>1, <4>5, <4>6, <4>7, AlignedSame
        <4> QED  BY <4>2, <4>8 DEF G
      <3>3. CASE g \notin modified
        <4> DEFINE f == groupMeta[g].front
                   sg == groupMeta[g].segs
                   F == segMeta
        <4>1. groupMeta'[g] = groupMeta[g] /\ g \notin exposed  BY <2>1, <2>2, <2>4, <3>1, <3>3
        <4>2. Aligned(f, sg, F, g)  BY <1>0, <2>4, <4>1 DEF DurableAligned
        <4>3. sg = meta.segs[g] /\ sg # <<>>
          <5>1. sg = meta.segs[g]  BY <1>0, <2>4, <3>3, <4>1 DEF Unmodified
          <5>2. sg # <<>>  BY <1>0, <2>4, <3>1, <4>1, EmptyIsNoGroup
          <5> QED  BY <5>1, <5>2
        <4>4. \A s \in ToSet(sg) : F[s] = G[s]
          <5> SUFFICES ASSUME NEW s \in ToSet(sg) PROVE F[s] = G[s]  OBVIOUS
          <5>1. s \in Segment  BY <1>0, <3>1, ListMembers
          <5>2. s \notin touched  BY <1>0, <1>g, <3>1, <3>3, <4>3, TouchedOwner
          <5> QED  BY <2>1, <5>1, <5>2
        <4>5. Shape(sg, g)  BY <1>0, <3>1
        <4> HIDE DEF f, sg, F, G
        <4>6. Aligned(f, sg, G, g)  BY <3>1, <4>2, <4>3, <4>4, <4>5, AlignedSame
        <4> QED  BY <4>1, <4>6 DEF f, sg, G
      <3> QED  BY <3>2, <3>3
    <2> QED  BY <2>3, <2>4 DEF DurableAligned
  <1>3. ASSUME ~ LogMetaPersist PROVE DurableAligned'
    <2>1. torn \subseteq torn' /\ exposed \subseteq exposed' /\ UNCHANGED <<groupMeta, segMeta>>
      BY <1>3 DEF Next, Put, FlushBeforeWrite, PickGroup, GCOneGroup, RewriteRecord, FlushRecord,
           LeaveGroup, ReservedOverflow, EndOfUpdates, SetBatchUpdateKeyValue, WriteKeyBatch,
           WriteKeyBatchFails, SetBatchGCKeyValue, FinishFlush, AckBeforeGC, FinishGC,
           GCGreedyInVain, WriteSegment, Crash, Recover, durable, history
    <2> QED  BY <1>1, <2>1
  <1> QED  BY <1>2, <1>3

----------------------------------------------------------------------------
(* A crash leaves what a recovery needs                                     *)

(* The log of a flush gives each segment the front that it has in memory.   *)
LEMMA LoggedFronts ==
  ASSUME IInv, Bounds, FInv, pc # "down", updateLog # NoLog
  PROVE  /\ victim = None /\ pc \in {"keys", "meta", "ack"} /\ updateLog.keys = batch
         /\ updateLog.groups = GroupsOf(meta, modified)
         /\ \A s : s \in touched <=> EndsIn(batch, s) # {}
         /\ \A g \in Sound : \A s \in ToSet(meta.segs[g]) :
              FrontsFrom(segMeta, batch)[s] = meta.segFront[s]
  <1> DEFINE F == FrontsFrom(segMeta, batch)
  <1>0. /\ Ends /\ Untouched /\ Course /\ Phases /\ \A g \in Group : Shape(meta.segs[g], g)
    BY FFacts
  <1>1. /\ victim = None /\ pc \in {"keys", "meta", "ack"} /\ updateLog.keys = batch
        /\ updateLog.groups = GroupsOf(meta, modified)
    BY <1>0 DEF Phases, Course
  <1>5. \A s : s \in touched <=> EndsIn(batch, s) # {}
    <2>1. \A s : EndsIn(batch, s) # {} => \E i \in DOMAIN batch : batch[i].loc.seg = s
      BY DEF EndsIn
    <2>2. \A s : \A i \in DOMAIN batch : batch[i].loc.seg = s => EndsIn(batch, s) # {}
      BY DEF EndsIn
    <2> QED  BY <1>0, <2>1, <2>2 DEF Ends
  <1>6. ASSUME NEW g \in Sound, NEW s \in ToSet(meta.segs[g]) PROVE F[s] = meta.segFront[s]
    <2>1. g \in Group /\ g # victim  BY <1>1, SegmentFacts DEF Sound
    <2>2. s \in Segment  BY <1>0, <2>1, ListMembers
    <2>3. CASE s \notin touched
      <3>1. segMeta[s] = meta.segFront[s]  BY <1>0, <2>1, <2>3 DEF Untouched
      <3> QED  BY <1>5, <2>2, <2>3, <3>1 DEF FrontsFrom
    <2>4. CASE s \in touched
      <3> DEFINE E == EndsIn(batch, s)
                 y == meta.segFront[s]
      <3>1. PICK i \in DOMAIN batch :
              batch[i].loc.seg = s /\ batch[i].loc.off + batch[i].loc.size = y
        BY <1>0, <2>4 DEF Ends
      <3>2. y \in E  BY <3>1 DEF EndsIn
      <3>3. \A e \in E : e <= y
        <4> SUFFICES ASSUME NEW j \in DOMAIN batch, batch[j].loc.seg = s
                     PROVE  batch[j].loc.off + batch[j].loc.size <= y
          BY DEF EndsIn
        <4> QED  BY <1>0 DEF Ends
      <3>4. E \in SUBSET (0..Cap(s)) /\ Max(E) \in E /\ \A e \in E : e <= Max(E)
        BY <2>2, <3>2, EndsFit DEF Bounds, Locations
      <3>5. Cap(s) \in Nat  BY SizeFacts
      <3>6. F[s] = Max(E)  BY <2>2, <3>2 DEF FrontsFrom
      <3> HIDE DEF E, y, F
      <3>7. Max(E) \in E /\ Max(E) <= y /\ y <= Max(E)  BY <3>2, <3>3, <3>4
      <3>i. \A e \in E : e \in Int  BY <3>4, <3>5
      <3>8. Max(E) = y
        <4> DEFINE x == Max(E)
        <4>1. x \in Int /\ y \in Int /\ x <= y /\ y <= x  BY <3>2, <3>7, <3>i
        <4> HIDE DEF x
        <4>2. x = y  BY <4>1
        <4> QED  BY <4>2 DEF x
      <3> QED  BY <3>6, <3>8 DEF y
    <2> QED  BY <2>3, <2>4
  <1> QED  BY <1>1, <1>5, <1>6

LEMMA CrashRecoverable ==
  ASSUME IInv, Bounds, FInv, pc # "down", Crash
  PROVE  Recoverable'
  <1>0. /\ MemoryAligned /\ Ends /\ Untouched /\ DurableAligned /\ Course /\ Phases
        /\ \A g \in Group : Shape(meta.segs[g], g)
    BY FFacts
  <1>1. /\ torn' = torn \cup exposed \cup Unborn \cup DOMAIN gcLog /\ exposed' = {}
        /\ UNCHANGED <<groupMeta, segMeta, updateLog, gcLog>>
        /\ batch' = <<>> /\ modified' = {} /\ touched' = {} /\ unwritten' = {}
    BY DEF Crash, ForgetBatch, durable
  <1>2. /\ Sound' \subseteq Sound /\ Sound' \cap exposed = {} /\ Sound' \cap Unborn = {}
        /\ Sound' \cap DOMAIN gcLog = {}
    BY <1>1 DEF Sound
  <1>3. CASE updateLog = NoLog
    <2>1. DOMAIN updateLog.keys = {} /\ DOMAIN updateLog.groups = {}  BY <1>3 DEF NoLog
    <2>2. \A g \in Sound' : groupMeta[g] = NoGroup => segMeta[g] = 0
      BY <1>0, <1>2 DEF Untouched
    <2>3. \A g \in Sound' :
            groupMeta[g] # NoGroup => Aligned(groupMeta[g].front, groupMeta[g].segs, segMeta, g)
      BY <1>0, <1>2 DEF DurableAligned
    <2> QED  BY <1>1, <1>2, <2>1, <2>2, <2>3 DEF Recoverable
  <1>4. CASE updateLog # NoLog
    <2> DEFINE groups == updateLog.groups
               F == FrontsFrom(segMeta, batch)
    <2>1. /\ victim = None /\ pc \in {"keys", "meta", "ack"} /\ updateLog.keys = batch
          /\ groups = GroupsOf(meta, modified)
      BY <1>4, LoggedFronts
    <2>2. /\ DOMAIN groups = modified
          /\ \A g \in modified : groups[g] = [front |-> meta.front[g], segs |-> meta.segs[g]]
      BY <2>1 DEF GroupsOf
    <2>3. \A g \in modified : groups[g].front = meta.front[g] /\ groups[g].segs = meta.segs[g]
      <3> SUFFICES ASSUME NEW g \in modified
                   PROVE  groups[g].front = meta.front[g] /\ groups[g].segs = meta.segs[g]
        OBVIOUS
      <3>1. groups[g] = [front |-> meta.front[g], segs |-> meta.segs[g]]  BY <2>2
      <3> QED  BY <3>1
    <2>4. ASSUME NEW i \in DOMAIN batch
          PROVE  \E g \in DOMAIN groups : batch[i].loc.seg \in ToSet(groups[g].segs)
      <3>1. PICK g \in modified : batch[i].loc.seg \in ToSet(meta.segs[g])  BY <1>0 DEF Ends
      <3> QED  BY <2>2, <2>3, <3>1
    <2>5. \A s : s \in touched <=> EndsIn(batch, s) # {}  BY <1>4, LoggedFronts
    <2>6. \A g \in Sound : \A s \in ToSet(meta.segs[g]) : F[s] = meta.segFront[s]
      BY <1>4, LoggedFronts
    <2>7. ASSUME NEW g \in Sound', g \in modified
          PROVE  /\ groupMeta[g] # NoGroup
                 /\ Aligned(groups[g].front, groups[g].segs, F, g)
                 /\ \A s \in ToSet(groups[g].segs) :
                      EndsIn(batch, s) = {} => s \in ToSet(groupMeta[g].segs) \cup {g}
      <3> DEFINE f == meta.front[g]
                 sg == meta.segs[g]
                 S == meta.segFront
      <3>1. g \in Group /\ g \in Sound /\ g \notin exposed /\ g # victim
        BY <1>2, <2>1, SegmentFacts DEF Sound
      <3>2. groupMeta[g] # NoGroup  BY <1>2, <2>2, <2>7 DEF Unborn
      <3>3. groups[g].front = f /\ groups[g].segs = sg  BY <2>3, <2>7
      <3>4. FrontNow(g) = f
        <4>1. Stale \subseteq exposed  BY <1>0, <2>1 DEF Course
        <4> QED  BY <2>1, <3>1, <4>1 DEF FrontNow, Flushing, Stale
      <3>5. ~ NotBegun(g)  BY <2>1 DEF NotBegun
      <3>6. Aligned(f, sg, S, g)  BY <1>0, <3>1, <3>4, <3>5 DEF MemoryAligned
      <3>7. \A s \in ToSet(sg) : S[s] = F[s]  BY <2>6, <3>1
      <3>8. Shape(sg, g) /\ sg # <<>>  BY <1>0, <2>7, <3>1 DEF Course
      <3>9. \A s \in ToSet(sg) : EndsIn(batch, s) = {} => s \in ToSet(groupMeta[g].segs) \cup {g}
        BY <1>0, <2>5, <3>1 DEF Untouched
      <3> HIDE DEF f, sg, S, F
      <3>10. Aligned(f, sg, F, g)  BY <3>1, <3>6, <3>7, <3>8, AlignedSame
      <3> QED  BY <3>2, <3>3, <3>9, <3>10
    <2>8. \A g \in Sound' : groupMeta[g] = NoGroup => segMeta[g] = 0
      BY <1>0, <1>2 DEF Untouched
    <2>9. \A g \in Sound' :
            groupMeta[g] # NoGroup => Aligned(groupMeta[g].front, groupMeta[g].segs, segMeta, g)
      BY <1>0, <1>2 DEF DurableAligned
    <2> HIDE DEF groups
    <2>10. /\ groupMeta' = groupMeta /\ segMeta' = segMeta /\ updateLog'.keys = batch
           /\ updateLog'.groups = groups
      BY <1>1, <2>1 DEF groups
    <2> QED  BY <1>1, <1>2, <2>2, <2>4, <2>7, <2>8, <2>9, <2>10 DEF Recoverable
  <1> QED  BY <1>3, <1>4

----------------------------------------------------------------------------
(* A recovery brings the three accounts together                            *)

\* the accounts of one group agree
Agree(g) ==
  /\ groupMeta[g] = [front |-> meta.front[g], segs |-> meta.segs[g]]
  /\ \A s \in ToSet(meta.segs[g]) \cup {g} : segMeta[s] = meta.segFront[s]
  /\ Aligned(meta.front[g], meta.segs[g], meta.segFront, g)

\* between two operations, with nothing buffered and nothing half done
Settled ==
  /\ pc = "idle" /\ cur = None /\ victim = None
  /\ batch = <<>> /\ modified = {} /\ touched = {} /\ unwritten = {} /\ exposed = {}
  /\ updateLog = NoLog
  /\ \A g \in Sound : Agree(g) /\ Shape(meta.segs[g], g)

LEMMA AgreeFInv == Settled => FInv
  <1> SUFFICES ASSUME Settled PROVE FInv  OBVIOUS
  <1> USE DEF Settled
  <1>1. DOMAIN batch = {}  OBVIOUS
  <1>2. \A g \in Sound : FrontNow(g) = meta.front[g]  BY DEF FrontNow, Flushing
  <1>3. MemoryAligned  BY <1>2 DEF MemoryAligned, Agree
  <1>4. Ends  BY <1>1 DEF Ends
  <1>5. ASSUME NEW g \in Sound
        PROVE  groupMeta[g].segs = meta.segs[g] /\ groupMeta[g].front = meta.front[g]
    <2>1. groupMeta[g] = [front |-> meta.front[g], segs |-> meta.segs[g]]  BY DEF Agree
    <2> QED  BY <2>1
  <1>6. ASSUME NEW g \in Sound, groupMeta[g] = NoGroup
        PROVE  segMeta[g] = 0 /\ meta.segs[g] = <<>> /\ meta.front[g] = 0
    <2>1. meta.segs[g] = <<>> /\ meta.front[g] = 0  BY <1>5, <1>6 DEF NoGroup
    <2>2. meta.segFront[g] = 0  BY <2>1 DEF Agree, Aligned
    <2> QED  BY <2>1, <2>2 DEF Agree
  <1>7. Untouched  BY <1>5, <1>6 DEF Untouched, Agree
  <1>8. Unmodified  BY <1>5, <1>6 DEF Unmodified
  <1>9. ASSUME NEW g \in Sound PROVE Aligned(groupMeta[g].front, groupMeta[g].segs, segMeta, g)
    <2> DEFINE f == meta.front[g]
               sg == meta.segs[g]
               S == meta.segFront
    <2>1. Aligned(f, sg, S, g) /\ Shape(sg, g) /\ \A s \in ToSet(sg) \cup {g} : S[s] = segMeta[s]
      BY DEF Agree
    <2>2. groupMeta[g].front = f /\ groupMeta[g].segs = sg /\ g \in Group  BY <1>5 DEF Sound
    <2> HIDE DEF f, sg, S
    <2>3. Aligned(f, sg, segMeta, g)  BY <2>1, <2>2, AlignedSame
    <2> QED  BY <2>2, <2>3
  <1>10. DurableAligned  BY <1>9 DEF DurableAligned
  <1>11. Course  BY DEF Course, Flushing, Stale
  <1> QED  BY <1>3, <1>4, <1>7, <1>8, <1>10, <1>11 DEF FInv

\* a recovery takes the group from the log of a flush, or as it was persisted
Taken(g) ==
  IF g \in DOMAIN updateLog.groups
  THEN /\ meta'.segs[g] = updateLog.groups[g].segs
       /\ \A s \in ToSet(updateLog.groups[g].segs) :
            meta'.segFront[s] = FrontsFrom(segMeta, updateLog.keys)[s]
  ELSE /\ meta'.segs[g] = groupMeta[g].segs
       /\ \A s \in ToSet(groupMeta[g].segs) : meta'.segFront[s] = segMeta[s]

LEMMA RecoverAgree ==
  ASSUME IInv, Bounds, Recoverable, Recover
  PROVE  \A g \in Sound : Agree(g)' /\ Taken(g)
  <1> DEFINE base == RestoreMetaFromDB
             keys == updateLog.keys
             groups == updateLog.groups
             gs == DOMAIN updateLog.groups \cup DOMAIN gcLog
             ends == {updateLog.keys[i].loc.seg : i \in DOMAIN updateLog.keys}
  <1>1. /\ pc = "down" /\ meta' = Restored /\ groupMeta' = Persisted(Restored, gs)
        /\ segMeta' = [s \in Segment |-> IF s \in ends THEN Restored.segFront[s] ELSE segMeta[s]]
    BY DEF Recover, Restored, Ended, Based
  <1>2. /\ Own(base) /\ Own(Based) /\ Own(Ended) /\ Own(Restored)
        /\ DOMAIN groups \subseteq Group /\ DOMAIN gcLog \subseteq Group
        /\ \A g \in DOMAIN groups : Shape(groups[g].segs, g)
    BY <1>1, RecoverySteps
  <1>3. /\ base.segs = [g \in Group |-> groupMeta[g].segs]
        /\ base.front = [g \in Group |-> groupMeta[g].front]
        /\ base.segFront = [s \in Segment |->
                              IF \E g \in Group : s \in ToSet(groupMeta[g].segs) THEN segMeta[s] ELSE 0]
    BY DEF RestoreMetaFromDB
  <1>4. Fits(groups) /\ \A g \in Group : Shape(groupMeta[g].segs, g)
    BY <1>1 DEF IInv, Crashed, Restorable
  <1>5. DurableFits /\ MetaFits(Restored)  BY <1>1, RestoredFits DEF Bounds
  <1> HIDE DEF base
  <1>6. /\ Based.segs = [g \in Group |-> IF g \in DOMAIN groups THEN groups[g].segs ELSE base.segs[g]]
        /\ Based.front = [g \in Group |-> IF g \in DOMAIN groups
                                          THEN IF base.segs[g] = <<>> THEN 0 ELSE groups[g].front
                                          ELSE base.front[g]]
        /\ Based.segFront = base.segFront
    <2>1. Based = RestoreGroups(base, groups)  BY DEF Based, base
    <2> HIDE DEF groups
    <2> QED  BY <1>2, <2>1, RestoreGroupsParts
  <1>7. /\ Ended.segs = Based.segs /\ Ended.front = Based.front
        /\ Ended.segFront = FrontsFrom(Based.segFront, keys)
    BY <1>2, SegmentEndsParts DEF Ended
  <1>8. /\ Restored.segs = [g \in Group |-> IF g \in DOMAIN gcLog THEN gcLog[g].segs ELSE Ended.segs[g]]
        /\ Restored.front = [g \in Group |-> IF g \in DOMAIN gcLog
                                             THEN IF Ended.segs[g] = <<>> THEN 0 ELSE gcLog[g].front
                                             ELSE Ended.front[g]]
        /\ Restored.segFront = Ended.segFront
    BY <1>2, RestoreGroupsParts DEF Restored
  <1>9. /\ gs \in SUBSET Group
        /\ \A g \in gs : groupMeta'[g] = [front |-> Restored.front[g], segs |-> Restored.segs[g]]
        /\ \A g \in Group \ gs : groupMeta'[g] = groupMeta[g]
    <2>1. gs \in SUBSET Group  BY <1>2
    <2> HIDE DEF gs
    <2> QED  BY <1>1, <1>5, <2>1, PersistedFits
  <1>10. \A s : s \in ends <=> EndsIn(keys, s) # {}
    <2>1. \A s : EndsIn(keys, s) # {} => \E i \in DOMAIN keys : keys[i].loc.seg = s
      BY DEF EndsIn
    <2>2. \A s : \A i \in DOMAIN keys : keys[i].loc.seg = s => EndsIn(keys, s) # {}
      BY DEF EndsIn
    <2> QED  BY <2>1, <2>2
  <1> HIDE DEF ends, keys
  <1>11. \A s \in Segment : Restored.segFront[s] =
           IF s \in ends THEN Max(EndsIn(keys, s))
           ELSE IF \E g \in Group : s \in ToSet(groupMeta[g].segs) THEN segMeta[s] ELSE 0
    BY <1>3, <1>6, <1>7, <1>8, <1>10 DEF FrontsFrom
  <1> SUFFICES ASSUME NEW g \in Sound PROVE Agree(g)' /\ Taken(g)
    OBVIOUS
  <1>12. g \in Group /\ g \in Segment /\ g \notin DOMAIN gcLog  BY SegmentFacts DEF Sound, Recoverable
  <1>13. Restored.segs[g] = Based.segs[g] /\ Restored.front[g] = Based.front[g]
    BY <1>7, <1>8, <1>12
  <1>14. CASE g \in DOMAIN groups
    <2> DEFINE f == groups[g].front
               sg == groups[g].segs
               F == FrontsFrom(segMeta, keys)
               G == Restored.segFront
    <2>1. /\ groupMeta[g] # NoGroup /\ Aligned(f, sg, F, g)
          /\ \A s \in ToSet(sg) : EndsIn(keys, s) = {} => s \in ToSet(groupMeta[g].segs) \cup {g}
      BY <1>14 DEF Recoverable, keys
    <2>2. groupMeta[g].segs # <<>>  BY <1>5, <1>12, <2>1, EmptyIsNoGroup
    <2>3. g \in ToSet(groupMeta[g].segs)  BY <1>4, <1>12, <2>2, ListMembers
    <2>4. Restored.segs[g] = sg /\ Restored.front[g] = f
      BY <1>3, <1>6, <1>12, <1>13, <1>14, <2>2
    <2>5. Shape(sg, g)  BY <1>2, <1>14
    <2>6. ASSUME NEW s \in ToSet(sg) \cup {g} PROVE F[s] = G[s] /\ segMeta'[s] = G[s]
      <3>1. s \in Segment  BY <1>12, <2>5, ListMembers
      <3>2. CASE s \in ends
        BY <1>1, <1>10, <1>11, <3>1, <3>2 DEF FrontsFrom
      <3>3. CASE s \notin ends
        <4>1. s \in ToSet(groupMeta[g].segs)  BY <1>10, <2>1, <2>3, <3>3
        <4>2. G[s] = segMeta[s]  BY <1>11, <1>12, <3>1, <3>3, <4>1
        <4>3. F[s] = segMeta[s]  BY <1>10, <3>1, <3>3 DEF FrontsFrom
        <4> QED  BY <1>1, <3>1, <3>3, <4>2, <4>3
      <3> QED  BY <3>2, <3>3
    <2>7. groupMeta'[g] = [front |-> meta'.front[g], segs |-> meta'.segs[g]]
      BY <1>1, <1>9, <1>14
    <2> HIDE DEF f, sg, F, G
    <2>8. Aligned(f, sg, G, g)  BY <1>12, <2>1, <2>5, <2>6, AlignedSame
    <2>9. Aligned(meta'.front[g], meta'.segs[g], meta'.segFront, g)
      BY <1>1, <2>4, <2>8 DEF G
    <2>10. \A s \in ToSet(meta'.segs[g]) \cup {g} : segMeta'[s] = meta'.segFront[s]
      BY <1>1, <2>4, <2>6 DEF G
    <2>11. /\ meta'.segs[g] = groups[g].segs
           /\ \A s \in ToSet(groups[g].segs) : meta'.segFront[s] = FrontsFrom(segMeta, keys)[s]
      BY <1>1, <2>4, <2>6 DEF F, G, sg
    <2>12. Taken(g)  BY <1>14, <2>11 DEF Taken, keys
    <2>13. Agree(g)'  BY <2>7, <2>9, <2>10 DEF Agree
    <2> QED  BY <2>12, <2>13
  <1>15. CASE g \notin DOMAIN groups
    <2> DEFINE f == groupMeta[g].front
               sg == groupMeta[g].segs
               G == Restored.segFront
    <2>1. groupMeta[g] # NoGroup => Aligned(f, sg, segMeta, g)
      BY <1>15 DEF Recoverable
    <2>2. groupMeta[g] = NoGroup => segMeta[g] = 0  BY DEF Recoverable
    <2>3. Restored.segs[g] = sg /\ Restored.front[g] = f
      BY <1>3, <1>6, <1>12, <1>13, <1>15
    <2>4. Shape(sg, g)  BY <1>4, <1>12
    <2>5. ASSUME NEW s \in ToSet(sg) \cup {g}, s \in ends PROVE FALSE
      <3>1. PICK i \in DOMAIN keys : keys[i].loc.seg = s  BY <2>5 DEF ends, keys
      <3>2. PICK h \in DOMAIN groups : s \in ToSet(groups[h].segs)
        BY <3>1 DEF Recoverable, keys
      <3>3. h \in Group /\ h # g  BY <1>2, <1>15, <3>2
      <3>4. LogsOf(groups[h].segs) \cap LogsOf(sg) = {} /\ Shape(groups[h].segs, h)
        BY <1>2, <1>4, <1>12, <3>2, <3>3 DEF Fits
      <3>5. ToSet(sg) \cap ToSet(groups[h].segs) = {} /\ g \notin ToSet(groups[h].segs)
        BY <1>12, <2>4, <3>3, <3>4, ListsDisjoint
      <3> QED  BY <3>2, <3>5
    <2>6. ASSUME NEW s \in ToSet(sg) PROVE segMeta[s] = G[s] /\ segMeta'[s] = G[s]
      <3>1. s \in Segment  BY <1>12, <2>4, ListMembers
      <3>2. s \notin ends  BY <2>5
      <3> QED  BY <1>1, <1>11, <1>12, <3>1, <3>2
    <2>7. ASSUME sg = <<>> PROVE Aligned(f, sg, G, g) /\ segMeta'[g] = G[g]
      <3>1. groupMeta[g] = NoGroup /\ f = 0
        BY <1>5, <1>12, <2>7, EmptyIsNoGroup DEF NoGroup
      <3>2. \A h \in Group : g \notin ToSet(groupMeta[h].segs)
        <4> SUFFICES ASSUME NEW h \in Group PROVE g \notin ToSet(groupMeta[h].segs)  OBVIOUS
        <4>1. CASE h = g
          <5>1. ToSet(<<>>) = {}  BY DEF ToSet
          <5> QED  BY <2>7, <4>1, <5>1
        <4>2. CASE h # g
          <5>1. ToSet(groupMeta[h].segs) \subseteq LogsOf(groupMeta[h].segs) \cup {h}
            BY <1>4, ListMembers
          <5> QED  BY <1>12, <4>2, <5>1, SegmentFacts DEF LogsOf
        <4> QED  BY <4>1, <4>2
      <3>3. g \notin ends  BY <2>5
      <3>4. G[g] = 0 /\ segMeta'[g] = 0  BY <1>1, <1>11, <1>12, <2>2, <3>1, <3>2, <3>3
      <3> QED  BY <2>7, <3>1, <3>4 DEF Aligned
    <2>8. ASSUME sg # <<>> PROVE Aligned(f, sg, G, g) /\ segMeta'[g] = G[g]
      <3>1. groupMeta[g] # NoGroup  BY <2>8 DEF NoGroup
      <3>2. g \in ToSet(sg)  BY <1>12, <2>4, <2>8, ListMembers
      <3>3. Aligned(f, sg, segMeta, g)  BY <2>1, <3>1
      <3> HIDE DEF f, sg, G
      <3>4. Aligned(f, sg, G, g)  BY <1>12, <2>4, <2>6, <2>8, <3>3, AlignedSame
      <3> QED  BY <2>6, <3>2, <3>4
    <2>9. Aligned(f, sg, G, g) /\ segMeta'[g] = G[g]
      BY <2>7, <2>8
    <2>10. groupMeta'[g] = [front |-> f, segs |-> sg]
      <3>1. groupMeta'[g] = groupMeta[g]  BY <1>9, <1>12, <1>15
      <3> QED  BY <1>5, <1>12, <3>1 DEF DurableFits
    <2>11. groupMeta'[g] = [front |-> meta'.front[g], segs |-> meta'.segs[g]]
      BY <1>1, <2>3, <2>10
    <2>12. Aligned(meta'.front[g], meta'.segs[g], meta'.segFront, g)
      BY <1>1, <2>3, <2>9
    <2>13. \A s \in ToSet(meta'.segs[g]) \cup {g} : segMeta'[s] = meta'.segFront[s]
      BY <1>1, <2>3, <2>6, <2>9
    <2>14. Taken(g)  BY <1>1, <1>15, <2>3, <2>6 DEF Taken
    <2>15. Agree(g)'  BY <2>11, <2>12, <2>13 DEF Agree
    <2> QED  BY <2>14, <2>15
  <1> QED  BY <1>14, <1>15

LEMMA RecoverFInv ==
  ASSUME IInv, Bounds, FInv, pc = "down", Recover
  PROVE  FInv'
  <1>1. Recoverable  BY DEF FInv
  <1>2. /\ pc' = "idle" /\ updateLog' = NoLog
        /\ UNCHANGED <<cur, victim, batch, modified, touched, unwritten, exposed, torn>>
    BY DEF Recover
  <1>3. /\ batch = <<>> /\ modified = {} /\ touched = {} /\ unwritten = {} /\ exposed = {}
    BY <1>1 DEF Recoverable
  <1>4. cur = None /\ victim = None  BY DEF IInv, Crashed, Bounds, MemoryFits
  <1>5. Sound' = Sound  BY <1>2 DEF Sound
  <1>6. \A g \in Sound' : Agree(g)'  BY <1>1, <1>5, RecoverAgree
  <1>7. \A g \in Sound' : Shape(meta.segs[g], g)'
    <2>1. IInv'  BY NextIInv DEF Next
    <2> QED  BY <1>2, <1>5, <2>1, RunningFacts DEF IInv, Running, Own, Sound
  <1>8. Settled'  BY <1>2, <1>3, <1>4, <1>6, <1>7 DEF Settled
  <1> QED  BY <1>8, AgreeFInv, PTL

LEMMA InitFInv == Init => FInv
  <1> SUFFICES ASSUME Init PROVE FInv  OBVIOUS
  <1>1. /\ pc = "idle" /\ cur = None /\ victim = None /\ batch = <<>> /\ modified = {}
        /\ touched = {} /\ unwritten = {} /\ exposed = {} /\ updateLog = NoLog
    BY DEF Init
  <1>2. ASSUME NEW g \in Sound PROVE Agree(g) /\ Shape(meta.segs[g], g)
    <2>1. g \in Group /\ g \in Segment  BY SegmentFacts DEF Sound
    <2>2. /\ meta.segs[g] = <<>> /\ meta.front[g] = 0 /\ meta.segFront[g] = 0 /\ segMeta[g] = 0
          /\ groupMeta[g] = NoGroup
      BY <2>1 DEF Init, NoMeta
    <2>3. ToSet(<<>>) = {}  BY DEF ToSet
    <2>4. Shape(<<>>, g)  BY <2>1, LogsOfMain
    <2> QED  BY <2>2, <2>3, <2>4 DEF Agree, Aligned, NoGroup
  <1>3. Settled  BY <1>1, <1>2 DEF Settled
  <1> QED  BY <1>3, AgreeFInv

LEMMA NextFInv ==
  ASSUME IInv, Bounds, FInv, [Next]_vars
  PROVE  FInv'
  <1>1. CASE UNCHANGED vars
    BY <1>1 DEF vars, volatile, durable, history, FInv, MemoryAligned, Ends, Untouched, Unmodified,
                DurableAligned, Course, Recoverable, Sound, FrontNow, NotBegun, Flushing, PendingOf,
                Stale
  <1>2. CASE Next /\ pc = "down"
    <2>1. Recover
      BY <1>2 DEF Next, Put, FlushBeforeWrite, PickGroup, GCOneGroup, RewriteRecord, FlushRecord,
           LeaveGroup, ReservedOverflow, EndOfUpdates, SetBatchUpdateKeyValue, WriteKeyBatch,
           WriteKeyBatchFails, LogMetaPersist, SetBatchGCKeyValue, FinishFlush, AckBeforeGC,
           FinishGC, GCGreedyInVain, WriteSegment,
           Crash
    <2> QED  BY <1>2, <2>1, RecoverFInv
  <1>3. CASE Next /\ pc # "down" /\ pc' = "down"
    <2>1. Crash
      BY <1>3 DEF Next, Put, FlushBeforeWrite, PickGroup, GCOneGroup, RewriteRecord, FlushRecord,
           LeaveGroup, ReservedOverflow, EndOfUpdates, SetBatchUpdateKeyValue, WriteKeyBatch,
           WriteKeyBatchFails, LogMetaPersist, SetBatchGCKeyValue, FinishFlush, AckBeforeGC,
           FinishGC, GCGreedyInVain, WriteSegment,
           Recover
    <2> QED  BY <1>3, <2>1, CrashRecoverable DEF FInv
  <1>4. CASE Next /\ pc # "down" /\ pc' # "down"
    <2>1. /\ MemoryAligned' /\ Ends' /\ Untouched' /\ Unmodified' /\ DurableAligned' /\ Course'
      BY <1>4, MemoryAlignedKept, EndsKept, UntouchedKept, UnmodifiedKept, DurableAlignedKept,
         CourseKept
    <2> QED  BY <1>4, <2>1 DEF FInv
  <1> QED  BY <1>1, <1>2, <1>3, <1>4

LEMMA FInvFrontsAgree ==
  ASSUME IInv, Bounds, FInv
  PROVE  FrontsAgree
  <1> SUFFICES ASSUME pc = "idle", NEW g \in Group \ torn, groupMeta[g] # NoGroup
               PROVE  /\ groupMeta[g] = [front |-> meta.front[g], segs |-> meta.segs[g]]
                      /\ meta.front[g] = FrontOf(meta.segs[g], meta.segFront)
                      /\ meta.front[g] = FrontOf(meta.segs[g], segMeta)
    BY DEF FrontsAgree
  <1>1. /\ MemoryAligned /\ Unmodified /\ DurableAligned /\ Course /\ DurableFits
    BY FFacts
  <1>2. g \in Sound /\ modified = {} /\ exposed = {}  BY <1>1 DEF Sound, Course
  <1>3. groupMeta[g].segs = meta.segs[g] /\ groupMeta[g].front = meta.front[g]
    BY <1>1, <1>2 DEF Unmodified
  <1>4. groupMeta[g] = [front |-> groupMeta[g].front, segs |-> groupMeta[g].segs]
    BY <1>1 DEF DurableFits
  <1>5. meta.segs[g] # <<>>  BY <1>1, <1>3, EmptyIsNoGroup
  <1>6. FrontNow(g) = meta.front[g] /\ ~ NotBegun(g)
    BY DEF FrontNow, Flushing, NotBegun
  <1>7. meta.front[g] = FrontOf(meta.segs[g], meta.segFront)
    BY <1>1, <1>2, <1>5, <1>6 DEF MemoryAligned, Aligned
  <1>8. meta.front[g] = FrontOf(meta.segs[g], segMeta)
    BY <1>1, <1>2, <1>3, <1>5 DEF DurableAligned, Aligned
  <1> QED  BY <1>3, <1>4, <1>7, <1>8

LEMMA FInvInvariant == RecordsFit /\ Spec => []FInv
  <1>1. Init => FInv  BY InitFInv
  <1>2. IInv /\ Bounds /\ FInv /\ [Next]_vars => FInv'  BY NextFInv
  <1>3. RecordsFit /\ Spec => [](IInv /\ Bounds)  BY BoundsInvariant
  <1> QED  BY <1>1, <1>2, <1>3, PTL DEF Spec

(* Between two operations the front of a group in memory, the one that is  *)
(* persisted, and the one that recovery would compute from the fronts of   *)
(* its segments are the same, for every group but those a crash has torn:  *)
(* the log of a flush (LogManager), the key batch and the writes of the    *)
(* metadata bring them together again whenever the process dies.           *)
THEOREM FrontsAlwaysAgree == RecordsFit => (Spec => []FrontsAgree)
  <1>1. IInv /\ Bounds /\ FInv => FrontsAgree  BY FInvFrontsAgree
  <1> QED  BY <1>1, BoundsInvariant, FInvInvariant, PTL

----------------------------------------------------------------------------
(* Why there is a group to collect                                          *)

\* a flush that turns to garbage collection has run into the reserve
Short ==
  (pc \in {"log", "keys", "meta", "ack"} /\ victim = None /\ cur # None) \/ pc = "gc" =>
    meta.free <= MinFree

LEMMA NextShort ==
  ASSUME IInv, Short, [Next]_vars
  PROVE  Short'
  <1>0. CASE UNCHANGED vars  BY <1>0 DEF vars, volatile, Short
  <1>1. CASE pc = "down" /\ Next
    BY <1>1 DEF Short, Next, Put, FlushBeforeWrite, PickGroup, GCOneGroup, RewriteRecord,
         FlushRecord, LeaveGroup, ReservedOverflow, EndOfUpdates, SetBatchUpdateKeyValue,
         WriteKeyBatch, WriteKeyBatchFails, LogMetaPersist, SetBatchGCKeyValue, FinishFlush,
         AckBeforeGC, FinishGC, GCGreedyInVain, WriteSegment, Crash, Recover
  <1>2. CASE pc # "down" /\ Next
    <2>1. Own(meta) /\ Phases  BY <1>2, RunningFacts
    <2>2. CASE ReservedOverflow
      BY <2>2 DEF ReservedOverflow, OutOfReservedSpaceForObject, Short
    <2>3. CASE EndOfUpdates  BY <2>3 DEF EndOfUpdates, volatile, Short
    <2>4. CASE SetBatchUpdateKeyValue \/ WriteKeyBatch \/ WriteKeyBatchFails \/ LogMetaPersist
               \/ GCGreedyInVain
      BY <2>4 DEF SetBatchUpdateKeyValue, WriteKeyBatch, WriteKeyBatchFails, LogMetaPersist,
                  GCGreedyInVain, volatile, Short
    <2>5. CASE AckBeforeGC
      <3>1. meta' = [meta EXCEPT !.front[cur] = curFront] /\ meta.free <= MinFree
        BY <2>5 DEF AckBeforeGC, Short
      <3>2. meta'.free = meta.free  BY <2>1, <3>1 DEF Own
      <3> QED  BY <3>1, <3>2 DEF Short
    <2>6. CASE FinishGC
      BY <2>6 DEF FinishGC, OutOfReservedSpaceForObject, Short
    <2>7. CASE \E s \in Segment : WriteSegment(s)
      BY <2>1, <2>7 DEF WriteSegment, Phases, Short
    <2>8. CASE Crash \/ Recover \/ FinishFlush \/ SetBatchGCKeyValue \/ LeaveGroup \/ FlushRecord
      BY <2>8 DEF Crash, Recover, FinishFlush, SetBatchGCKeyValue, LeaveGroup, FlushRecord, Short
    <2>9. CASE \E k \in Key : \E s \in Sizes[k] : Put(k, s) \/ FlushBeforeWrite(k, s)
      BY <2>9 DEF Put, FlushBeforeWrite, Short
    <2>10. CASE \E g \in Group : PickGroup(g) \/ GCOneGroup(g)
      BY <2>10 DEF PickGroup, GCOneGroup, Short
    <2>11. CASE \E r \in survivors : RewriteRecord(r)
      BY <2>11 DEF RewriteRecord, Short
    <2> QED  BY <1>2, <2>2, <2>3, <2>4, <2>5, <2>6, <2>7, <2>8, <2>9, <2>10, <2>11 DEF Next
  <1> QED  BY <1>0, <1>1, <1>2

LEMMA ShortInvariant == Spec => []Short
  <1>1. Init => Short  BY DEF Init, Short
  <1>2. IInv /\ Short /\ [Next]_vars => Short'  BY NextShort
  <1>3. Spec => []IInv  BY Inductive
  <1> QED  BY <1>1, <1>2, <1>3, PTL DEF Spec

(* A group that owns a log segment is filled past its main segment.         *)
LEMMA LogsMeanFront ==
  ASSUME IInv, Bounds, FInv, pc = "gc", NEW g \in Sound, LogsOf(meta.segs[g]) # {}
  PROVE  meta.front[g] > MainSize
  <1> DEFINE segs == meta.segs[g]
  <1>1. g \in Group  BY DEF Sound
  <1>2. MemoryAligned /\ MetaFits(meta) /\ Shape(segs, g)  BY <1>1, FFacts
  <1>3. segs # <<>> /\ Len(segs) # 1
    <2>1. ToSet(<<>>) = {} /\ ToSet(<<g>>) = {g}  BY <1>1 DEF ToSet
    <2>2. segs # <<>>  BY <2>1 DEF LogsOf
    <2>3. Len(segs) = 1 => segs = <<g>>  BY <1>1, <1>2, <2>2, ListFacts
    <2> QED  BY <1>1, <2>1, <2>2, <2>3, SegmentFacts DEF LogsOf
  <1>4. Len(segs) \in Nat /\ Len(segs) > 1 /\ Last(segs) \in Segment
    BY <1>1, <1>2, <1>3, ListFacts
  <1>5. FrontNow(g) = meta.front[g] /\ ~ NotBegun(g)  BY DEF FrontNow, Flushing, NotBegun
  <1>6. meta.front[g] = FrontOf(segs, meta.segFront) /\ meta.segFront[Last(segs)] > 0
    BY <1>2, <1>3, <1>4, <1>5 DEF MemoryAligned, Aligned
  <1>7. meta.segFront[Last(segs)] \in Nat  BY <1>2, <1>4 DEF MetaFits
  <1>8. meta.front[g] = MainSize + (Len(segs) - 2) * LogSize + meta.segFront[Last(segs)]
    BY <1>3, <1>6 DEF FrontOf
  <1> HIDE DEF segs
  <1>9. (Len(segs) - 2) * LogSize \in Nat  BY <1>4, SizeFacts
  <1> QED  BY <1>6, <1>7, <1>8, <1>9, SizeFacts

(* Of two groups the one that is filled further has the lower ratio.        *)
LEMMA FurtherIsLower ==
  ASSUME NEW f \in Nat, NEW h \in Nat, h <= f, f > MainSize
  PROVE  MinRatio(f) # MaxRatio /\ AtMost(MinRatio(f), MinRatio(h))
  <1>1. AtMost(RatioAll(f), RatioLogOnly(f)) /\ AtMost(RatioAll(h), RatioLogOnly(h))
    <2>1. GetGCMode(f) = "ALL" /\ GetGCMode(h) = "ALL"  BY LogOnlyNeverChosen
    <2> QED  BY <2>1 DEF GetGCMode
  <1>2. MinRatio(f) = RatioAll(f) /\ MinRatio(h) = RatioAll(h)  BY <1>1 DEF MinRatio
  <1>3. RatioAll(f) = <<MainSize, f - MainSize>> /\ f - MainSize \in Nat \ {0}
    BY SizeFacts DEF RatioAll
  <1>4. MinRatio(f) # MaxRatio  BY <1>2, <1>3 DEF MaxRatio
  <1>5. CASE h > MainSize
    <2> DEFINE x == h - MainSize
               y == f - MainSize
    <2>1. RatioAll(h) = <<MainSize, x>> /\ x \in Nat \ {0} /\ y \in Nat \ {0} /\ x <= y
      BY <1>5, SizeFacts DEF RatioAll
    <2>2. RatioAll(f) = <<MainSize, y>>  BY <1>3
    <2> HIDE DEF x, y
    <2>3. MainSize * x <= MainSize * y  BY <2>1, SizeFacts
    <2>4. AtMost(<<MainSize, y>>, <<MainSize, x>>)  BY <2>1, <2>3 DEF AtMost
    <2> QED  BY <1>2, <1>4, <2>1, <2>2, <2>4
  <1>6. CASE ~ (h > MainSize)
    <2>1. RatioAll(h) = MaxRatio  BY <1>6 DEF RatioAll
    <2> QED  BY <1>2, <1>4, <2>1 DEF AtMost, MaxRatio
  <1> QED  BY <1>5, <1>6

LEMMA LowFront ==
  ASSUME NEW f \in Int, f <= MainSize
  PROVE  MinRatio(f) = MaxRatio
  <1>1. MainSize \in Nat \ {0}  BY SizeFacts
  <1>2. RatioAll(f) = MaxRatio  BY <1>1 DEF RatioAll
  <1>3. RatioLogOnly(f) = MaxRatio
    <2>1. ~ (2 * f > 3 * MainSize)  BY <1>1
    <2> QED  BY <2>1 DEF RatioLogOnly
  <1> QED  BY <1>2, <1>3 DEF MinRatio

LEMMA EntryTypes ==
  ASSUME Bounds
  PROVE  /\ MainSize + NumLog * LogSize \in Nat /\ None \in Int /\ None < 0
         /\ \A g \in Group : heap.front[g] \in 0..(MainSize + NumLog * LogSize) \cup {None}
         /\ \A g \in Group : heap.front[g] \in Int
  <1>1. MainSize + NumLog * LogSize \in Nat  BY HashKVAssumption
  <1>2. \A g \in Group : heap.front[g] \in 0..(MainSize + NumLog * LogSize) \cup {None}
    BY DEF Bounds, HeapFits, Fronts
  <1>3. None \in Int /\ None < 0  BY DEF None
  <1> HIDE DEF None
  <1>4. \A n \in Nat : 0..n \subseteq Int  OBVIOUS
  <1> QED  BY <1>1, <1>2, <1>3, <1>4

(* If an entry of the heap says that a group is filled past its main        *)
(* segment, one of the entries that are filled furthest is taken.           *)
LEMMA FullestIsTaken ==
  ASSUME Bounds, NEW g \in Group, heap.front[g] > MainSize
  PROVE  \E f \in Group : Greedy(f)
  <1> DEFINE top == MainSize + NumLog * LogSize
             S   == {heap.front[h] : h \in {h \in Group : heap.front[h] > MainSize}}
  <1>1. top \in Nat /\ \A h \in Group : heap.front[h] \in 0..top \cup {None} /\ heap.front[h] \in Int
    BY EntryTypes
  <1>2. MainSize \in Nat \ {0}  BY SizeFacts
  <1>3. S \subseteq 0..top /\ heap.front[g] \in S
    <2> HIDE DEF top
    <2>1. \A h \in Group : heap.front[h] > MainSize => heap.front[h] \in 0..top
      BY <1>1, <1>2, EntryTypes
    <2> QED  BY <2>1
  <1>4. Max(S) \in S /\ \A y \in S : y <= Max(S)
    <2> HIDE DEF top, S
    <2> QED  BY <1>1, <1>3, MaxIn
  <1>5. PICK f \in Group : heap.front[f] = Max(S) /\ heap.front[f] > MainSize  BY <1>4
  <1>6. \A h \in Group : heap.front[h] > MainSize => heap.front[h] <= heap.front[f]
    BY <1>4, <1>5
  <1>7. heap.front[f] \in Nat  BY <1>1, <1>2, <1>5
  <1> HIDE DEF S, top
  <1>8. MinRatio(heap.front[f]) # MaxRatio
    BY <1>5, <1>7, FurtherIsLower
  <1>9. ASSUME NEW h \in Group PROVE AtMost(MinRatio(heap.front[f]), MinRatio(heap.front[h]))
    <2>1. CASE heap.front[h] > MainSize
      <3>1. heap.front[h] \in Nat  BY <1>1, <1>2, <2>1
      <3> QED  BY <1>5, <1>6, <1>7, <2>1, <3>1, FurtherIsLower
    <2>2. CASE ~ (heap.front[h] > MainSize)
      <3>1. heap.front[h] <= MainSize  BY <1>1, <1>2, <2>2
      <3>2. MinRatio(heap.front[h]) = MaxRatio  BY <1>1, <3>1, LowFront
      <3> QED  BY <3>2 DEF AtMost, MaxRatio
    <2> QED  BY <2>1, <2>2
  <1> QED  BY <1>8, <1>9 DEF Greedy

----------------------------------------------------------------------------
(* The heap is up to date                                                   *)

\* the ratios, and what the moments at which one is computed have to do with
\* them: a flush leaves a group that it filled, garbage collection a main segment
Ranked ==
  /\ \A g \in Group \ unranked : MinRatio(heap.front[g]) = MinRatio(meta.front[g])
  /\ pc = "rewrite" => MinRatio(heap.front[victim]) = MaxRatio
  /\ Flushing => (pc = "flush" /\ PendingOf(cur) # {}) \/ curFront # 0
  /\ pc = "gc" \/ victim # None => cur \notin unranked

LEMMA RankedNext ==
  Ranked' = (/\ \A g \in Group \ unranked' : MinRatio(heap'.front[g]) = MinRatio(meta'.front[g])
             /\ pc' = "rewrite" => MinRatio(heap'.front[victim']) = MaxRatio
             /\ Flushing' => (pc' = "flush" /\ PendingOf(cur)' # {}) \/ curFront' # 0
             /\ pc' = "gc" \/ victim' # None => cur' \notin unranked')
  BY DEF Ranked, MinRatio, RatioAll, RatioLogOnly, AtMost, MaxRatio, None

LEMMA RankParts ==
  ASSUME Bounds, NEW g \in Group, NEW f, f # 0, heap' = Rank(g, f)
  PROVE  heap'.front[g] = f /\ \A h \in Group \ {g} : heap'.front[h] = heap.front[h]
  <1> DEFINE F == [heap.front EXCEPT ![g] = f]
  <1>1. DOMAIN heap.front = Group  BY DEF Bounds, HeapFits
  <1>2. heap'.front = F  BY DEF Rank
  <1>3. F[g] = f /\ \A h \in Group \ {g} : F[h] = heap.front[h]  BY <1>1
  <1> QED  BY <1>2, <1>3

LEMMA NextRanked ==
  ASSUME IInv, Bounds, Ranked, [Next]_vars
  PROVE  Ranked'
  <1>n. None \notin Group  BY SegmentFacts
  <1>b. cur \in Group \cup {None} /\ victim \in Group \cup {None} /\ unranked \subseteq Group
    BY DEF IInv, Buffer, Bounds, Control
  <1>m. MaxRatio = MinRatio(None) /\ MaxRatio = MinRatio(0) /\ MaxRatio = MinRatio(MainSize)
    <2>1. None \in Int /\ None <= MainSize  BY SizeFacts DEF None
    <2>2. 0 \in Int /\ 0 <= MainSize /\ MainSize \in Int /\ MainSize <= MainSize  BY SizeFacts
    <2> QED  BY <2>1, <2>2, LowFront
  <1>1. ASSUME UNCHANGED <<heap, unranked>>, meta'.front = meta.front, pc' # "rewrite", ~ Flushing',
               pc' = "gc" \/ victim' # None => cur' = cur /\ (pc = "gc" \/ victim # None)
        PROVE  Ranked'
    BY <1>1, RankedNext DEF Ranked
  <1>2. ASSUME UNCHANGED <<heap, unranked, cur, curFront, victim, pending, pool>>, meta'.front = meta.front,
               pc' # "rewrite", pc = pc' \/ pc' \notin {"gc", "flush"}, pc \in {"flush", "log", "keys", "meta"},
               pc = "flush" /\ pc' # "flush" /\ cur # None /\ victim = None => curFront # 0
        PROVE  Ranked'
    <2>1. PendingOf(cur)' = PendingOf(cur)  BY <1>2 DEF PendingOf
    <2>2. Flushing' => Flushing  BY <1>2 DEF Flushing
    <2>3. Flushing' => (pc' = "flush" /\ PendingOf(cur)' # {}) \/ curFront' # 0
      BY <1>2, <2>1, <2>2 DEF Ranked, Flushing
    <2> QED  BY <1>2, <2>3, RankedNext DEF Ranked
  <1>3. ASSUME NEW g \in Group, heap' = Rank(g, meta'.front[g]), unranked' = unranked \ {g},
               \A h \in Group \ {g} : meta'.front[h] = meta.front[h],
               meta'.front[g] = 0 => MinRatio(heap.front[g]) = MaxRatio
        PROVE  \A h \in Group \ unranked' : MinRatio(heap'.front[h]) = MinRatio(meta'.front[h])
    <2>1. CASE meta'.front[g] = 0
      <3>1. heap' = heap  BY <1>3, <2>1 DEF Rank
      <3> QED  BY <1>3, <1>m, <2>1, <3>1 DEF Ranked
    <2>2. CASE meta'.front[g] # 0
      <3>1. heap'.front[g] = meta'.front[g] /\ \A h \in Group \ {g} : heap'.front[h] = heap.front[h]
        BY <1>3, <2>2, RankParts
      <3> QED  BY <1>3, <3>1 DEF Ranked
    <2> QED  BY <2>1, <2>2
  <1>4. CASE UNCHANGED vars
    BY <1>4 DEF vars, volatile, history, Ranked, Flushing, PendingOf, MinRatio, RatioAll, RatioLogOnly,
                AtMost, MaxRatio, None
  <1>5. CASE Recover
    <2>1. /\ pc = "down" /\ pc' = "idle" /\ UNCHANGED <<cur, victim>>
          /\ heap'.front = [g \in Group |-> IF groupMeta[g] = NoGroup THEN None ELSE groupMeta[g].front]
          /\ unranked' = {g \in Group : meta'.front[g] # groupMeta[g].front}
      BY <1>5 DEF Recover
    <2>2. victim = None  BY <2>1 DEF IInv, Crashed
    <2>3. ASSUME NEW g \in Group \ unranked'
          PROVE  MinRatio(heap'.front[g]) = MinRatio(meta'.front[g])
      <3>1. meta'.front[g] = groupMeta[g].front  BY <2>1
      <3>2. CASE groupMeta[g] = NoGroup
        <4>1. groupMeta[g].front = 0 /\ heap'.front[g] = None  BY <2>1, <3>2 DEF NoGroup
        <4> QED  BY <1>m, <3>1, <4>1
      <3>3. CASE groupMeta[g] # NoGroup  BY <2>1, <3>1, <3>3
      <3> QED  BY <3>2, <3>3
    <2> QED  BY <2>1, <2>2, <2>3, RankedNext DEF Flushing
  <1>6. CASE Crash
    <2>1. /\ pc' = "down" /\ meta' = NoMeta /\ heap' = NoHeap /\ unranked' = {} /\ victim' = None
      BY <1>6 DEF Crash
    <2>2. \A g \in Group : heap'.front[g] = None /\ meta'.front[g] = 0
      BY <2>1 DEF NoHeap, NoMeta
    <2> QED  BY <1>m, <2>1, <2>2, RankedNext DEF Flushing
  <1>7. CASE Next /\ pc # "down" /\ ~ Crash
    <2>0. Own(meta) /\ MetaFits(meta) /\ Phases  BY <1>7, RunningFacts DEF Bounds, MemoryFits
    <2>1. ASSUME NEW k \in Key, NEW s \in Sizes[k], Put(k, s) \/ FlushBeforeWrite(k, s)
          PROVE  Ranked'
      <3> DEFINE h == Hash[k]
      <3>1. /\ pc = "idle" /\ pc' \in {"idle", "flush"} /\ UNCHANGED <<heap, unranked, cur, victim>>
            /\ meta' = GetNewMainSegment(meta, h)
        BY <2>1 DEF Put, FlushBeforeWrite, history
      <3>2. h \in Group  BY HashKVAssumption
      <3>3. victim = None /\ cur = None  BY <2>0, <3>1 DEF Phases, Bounds, MemoryFits
      <3> HIDE DEF h
      <3>4. \A g \in Group : meta'.front[g] = meta.front[g]
        <4>1. /\ \A g \in Group : g # h \/ meta.segs[g] # <<>> => meta'.front[g] = meta.front[g]
              /\ meta.segs[h] = <<>> => meta'.front[h] = 0
          BY <2>0, <3>1, <3>2, NewMainParts
        <4>2. meta.segs[h] = <<>> => meta.front[h] = 0
          BY <2>0, <3>2 DEF MetaFits, Fitting, Room
        <4> QED  BY <4>1, <4>2
      <3>5. ~ Flushing'  BY <3>1, <3>3 DEF Flushing
      <3> QED  BY <3>1, <3>3, <3>4, <3>5, RankedNext DEF Ranked
    <2>2. ASSUME NEW g \in Group, PickGroup(g) PROVE Ranked'
      <3>1. /\ pc = "flush" /\ pc' = pc /\ cur' = g /\ PendingOf(g) # {}
            /\ UNCHANGED <<pool, pending, meta, heap, victim, unranked>>
        BY <2>2 DEF PickGroup, history
      <3>2. PendingOf(cur)' # {}  BY <3>1 DEF PendingOf
      <3>3. victim = None  BY <2>0, <3>1 DEF Phases
      <3> QED  BY <3>1, <3>2, <3>3, RankedNext DEF Ranked
    <2>3. ASSUME NEW g \in Group, GCOneGroup(g) PROVE Ranked'
      <3>1. /\ pc = "gc" /\ pc' = "rewrite" /\ victim' = g /\ cur' = cur
            /\ unranked' = unranked \ {g} /\ meta' = ReleaseGroup(meta, g)
        BY <2>3 DEF GCOneGroup
      <3>2. PICK out \in Dropped : heap' = [heap EXCEPT !.front =
              [h \in Group |-> IF h = g THEN MainSize ELSE IF h \in out THEN None ELSE heap.front[h]]]
        BY <2>3 DEF GCOneGroup
      <3> DEFINE F == [h \in Group |-> IF h = g THEN MainSize ELSE IF h \in out THEN None
                                       ELSE heap.front[h]]
      <3>3. heap'.front = F
        <4>1. heap = [front |-> heap.front, ordered |-> heap.ordered]  BY DEF Bounds, HeapFits
        <4>2. heap' = [heap EXCEPT !.front = F]  BY <3>2
        <4> HIDE DEF F
        <4> QED  BY <4>1, <4>2
      <3>4. \A h \in out : MinRatio(heap.front[h]) = MaxRatio
        <4>1. CASE heap.ordered  BY <4>1 DEF Dropped
        <4>2. CASE ~ heap.ordered  BY <4>2 DEF Dropped
        <4> QED  BY <4>1, <4>2
      <3>5. meta'.front[g] = 0 /\ \A h \in Group \ {g} : meta'.front[h] = meta.front[h]
        BY <2>0, <3>1, ReleaseParts
      <3>6. heap'.front[g] = MainSize /\ \A h \in Group \ {g} :
              heap'.front[h] = heap.front[h] \/ (heap'.front[h] = None /\ h \in out)
        BY <3>3
      <3> HIDE DEF F
      <3>7. ASSUME NEW h \in Group \ unranked'
            PROVE  MinRatio(heap'.front[h]) = MinRatio(meta'.front[h])
        <4>1. CASE h = g  BY <1>m, <3>5, <3>6, <4>1
        <4>2. CASE h # g
          <5>1. MinRatio(heap.front[h]) = MinRatio(meta.front[h])  BY <3>1, <3>7, <4>2 DEF Ranked
          <5>2. h \in Group \ {g}  BY <4>2
          <5>3. CASE heap'.front[h] = heap.front[h]  BY <3>5, <5>1, <5>2, <5>3
          <5>4. CASE heap'.front[h] = None /\ h \in out  BY <1>m, <3>4, <3>5, <5>1, <5>2, <5>4
          <5> QED  BY <3>6, <5>2, <5>3, <5>4
        <4> QED  BY <4>1, <4>2
      <3>8. ~ Flushing'  BY <3>1 DEF Flushing
      <3>9. cur' \notin unranked'  BY <3>1 DEF Ranked
      <3> QED  BY <1>m, <3>1, <3>6, <3>7, <3>8, <3>9, RankedNext
    <2>4. ASSUME NEW r \in survivors, RewriteRecord(r) PROVE Ranked'
      <3> DEFINE p == Place(meta, victim, curFront, r.size)
      <3>1. /\ pc = "rewrite" /\ pc' = pc /\ UNCHANGED <<heap, cur, victim, unranked>> /\ meta' = p.meta
        BY <2>4 DEF RewriteRecord, history
      <3>2. /\ victim \in Group /\ meta.segs[victim] # <<>>
            /\ curFront \in Nat /\ curFront <= Room(meta.segs[victim])
            /\ r.size \in 1..LogSize /\ CanPlace(meta, victim, curFront, r.size)
        BY <2>4, RewritePlace
      <3>3. p.meta.front = meta.front  BY <2>0, <3>2, PlaceEffects
      <3> HIDE DEF p
      <3>4. ~ Flushing'  BY <3>1 DEF Flushing
      <3> QED  BY <3>1, <3>3, <3>4, RankedNext DEF Ranked
    <2>5. ASSUME FlushRecord PROVE Ranked'
      <3> DEFINE r == pool[NextUpdate(cur)]
                 p == Place(meta, cur, curFront, r.size)
      <3>1. /\ pc = "flush" /\ pc' = pc /\ UNCHANGED <<heap, cur, victim, unranked>> /\ meta' = p.meta
            /\ curFront' = p.front
        BY <2>5 DEF FlushRecord, history
      <3>2. /\ cur \in Group /\ meta.segs[cur] # <<>> /\ victim = None
            /\ curFront \in Nat /\ curFront <= Room(meta.segs[cur])
            /\ r.size \in 1..LogSize /\ CanPlace(meta, cur, curFront, r.size)
        BY <2>5, FlushRecordPlace
      <3>p. p = Place(meta, cur, curFront, r.size)  OBVIOUS
      <3> HIDE DEF p, r
      <3>3. p.meta.front = meta.front  BY <2>0, <3>2, <3>p, PlaceEffects
      <3>4. p.front # 0
        <4>1. /\ Placement(meta, cur, curFront, r.size, p)
          BY <2>0, <3>2, <3>p, PlaceCases
        <4> DEFINE x == (curFront - MainSize) % LogSize
        <4>2. \/ p.front = curFront + r.size \/ p.front = MainSize + r.size
              \/ curFront > MainSize /\ p.front = curFront + (LogSize - x) + r.size
          BY <4>1 DEF Placement, InMain, InLast, InFresh
        <4>3. curFront > MainSize => x \in 0..(LogSize - 1)
          <5>1. curFront > MainSize => curFront - MainSize \in Nat  BY <3>2, SizeFacts
          <5>2. \A y \in Nat : y % LogSize \in 0..(LogSize - 1)  BY SizeFacts, Division
          <5> QED  BY <5>1, <5>2
        <4> HIDE DEF x
        <4> QED  BY <3>2, <4>2, <4>3, SizeFacts
      <3> QED  BY <3>1, <3>2, <3>3, <3>4, RankedNext DEF Ranked
    <2>6. ASSUME LeaveGroup \/ AckBeforeGC PROVE Ranked'
      <3>1. /\ cur # None /\ victim' = None /\ victim = None
            /\ pc \in {"flush", "ack"} /\ (pc = "flush" => PendingOf(cur) = {})
            /\ heap' = Rank(cur, curFront) /\ unranked' = unranked \ {cur}
            /\ meta' = [meta EXCEPT !.front[cur] = curFront]
            /\ (pc' = "flush" /\ cur' = None) \/ (pc' = "gc" /\ cur' = cur)
        <4>1. CASE LeaveGroup  BY <2>0, <4>1 DEF LeaveGroup, Phases
        <4>2. CASE AckBeforeGC  BY <4>2 DEF AckBeforeGC
        <4> QED  BY <2>6, <4>1, <4>2
      <3>2. cur \in Group /\ curFront # 0  BY <1>b, <3>1 DEF Ranked, Flushing
      <3>3. meta'.front[cur] = curFront /\ \A h \in Group \ {cur} : meta'.front[h] = meta.front[h]
        <4>1. curFront \in Nat /\ curFront <= Room(meta.segs[cur])
          BY <3>1 DEF Bounds, MemoryFits, Fronts, Flushing
        <4> QED  BY <2>0, <3>1, <3>2, <4>1, NewFrontFits
      <3>4. heap' = Rank(cur, meta'.front[cur])  BY <3>1, <3>3
      <3>5. \A h \in Group \ unranked' : MinRatio(heap'.front[h]) = MinRatio(meta'.front[h])
        BY <1>3, <3>1, <3>2, <3>3, <3>4
      <3>6. ~ Flushing'  BY <3>1 DEF Flushing
      <3> QED  BY <3>1, <3>5, <3>6, RankedNext
    <2>7. ASSUME SetBatchGCKeyValue PROVE Ranked'
      <3>1. /\ pc = "rewrite" /\ pc' = "gcdata" /\ UNCHANGED <<cur, victim, unranked>>
            /\ heap' = Rank(victim, curFront) /\ meta' = [meta EXCEPT !.front[victim] = curFront]
        BY <2>7 DEF SetBatchGCKeyValue, history
      <3>2. victim \in Group /\ victim # None  BY <1>b, <2>0, <3>1 DEF Phases
      <3>3. meta'.front[victim] = curFront /\ \A h \in Group \ {victim} : meta'.front[h] = meta.front[h]
        <4>1. curFront \in Nat /\ curFront <= Room(meta.segs[victim])
          BY <3>1 DEF Bounds, MemoryFits, Fronts
        <4> QED  BY <2>0, <3>1, <3>2, <4>1, NewFrontFits
      <3>4. ASSUME NEW h \in Group \ unranked'
            PROVE  MinRatio(heap'.front[h]) = MinRatio(meta'.front[h])
        <4>1. CASE curFront = 0
          <5>1. heap' = heap  BY <3>1, <4>1 DEF Rank
          <5>2. MinRatio(heap.front[victim]) = MaxRatio  BY <3>1 DEF Ranked
          <5>3. CASE h = victim  BY <1>m, <3>3, <4>1, <5>1, <5>2, <5>3
          <5>4. CASE h # victim  BY <3>1, <3>3, <3>4, <5>1, <5>4 DEF Ranked
          <5> QED  BY <5>3, <5>4
        <4>2. CASE curFront # 0
          <5>1. heap'.front[victim] = curFront
                /\ \A x \in Group \ {victim} : heap'.front[x] = heap.front[x]
            BY <3>1, <3>2, <4>2, RankParts
          <5>2. CASE h = victim  BY <3>3, <5>1, <5>2
          <5>3. CASE h # victim  BY <3>1, <3>3, <3>4, <5>1, <5>3 DEF Ranked
          <5> QED  BY <5>2, <5>3
        <4> QED  BY <4>1, <4>2
      <3>5. ~ Flushing' /\ cur' \notin unranked'  BY <3>1, <3>2 DEF Flushing, Ranked
      <3> QED  BY <3>1, <3>4, <3>5, RankedNext
    <2>8. ASSUME ReservedOverflow PROVE Ranked'
      <3> DEFINE r == pool[NextUpdate(cur)]
      <3>1. /\ pc = "flush" /\ pc' = "log" /\ PendingOf(cur) # {} /\ cur # None
            /\ OutOfReservedSpaceForObject(meta, curFront, r.size)
            /\ UNCHANGED <<pool, pending, meta, heap, cur, curFront, victim, unranked>>
        BY <2>8 DEF ReservedOverflow, history
      <3>2. r.size \in 1..LogSize
        <4>0. pool \in Seq(Rec) /\ pending \subseteq DOMAIN pool
          BY DEF Bounds, Records, IInv, Buffer
        <4>e. pending \subseteq Nat  BY <4>0
        <4>1. NextUpdate(cur) \in PendingOf(cur)  BY <3>1, <4>e, NextUpdateIn
        <4>2. pool \in Seq(Rec) /\ NextUpdate(cur) \in DOMAIN pool
          BY <4>0, <4>1 DEF PendingOf
        <4>3. r \in Rec  BY <4>2
        <4> QED  BY <4>3 DEF Rec, Record
      <3> HIDE DEF r
      <3>3. curFront # 0
        <4>1. LogSize <= MainSize /\ MainSize \in Nat \ {0} /\ LogSize \in Nat
          BY SizeFacts DEF Bounds, RecordsFit
        <4>2. ~ (curFront < MainSize /\ curFront + r.size <= MainSize)
          BY <3>1 DEF OutOfReservedSpaceForObject
        <4> QED  BY <3>2, <4>1, <4>2
      <3> QED  BY <1>2, <3>1, <3>3
    <2>9. ASSUME EndOfUpdates \/ SetBatchUpdateKeyValue \/ WriteKeyBatch \/ WriteKeyBatchFails
                 \/ LogMetaPersist
          PROVE  Ranked'
      <3>1. /\ UNCHANGED <<pool, pending, meta, heap, cur, curFront, victim, unranked>>
            /\ pc \in {"flush", "log", "keys", "meta"} /\ pc' \in {"log", "keys", "meta", "ack"}
            /\ pc = "flush" => cur = None
        BY <2>9 DEF EndOfUpdates, SetBatchUpdateKeyValue, WriteKeyBatch, WriteKeyBatchFails,
                    LogMetaPersist, volatile, history
      <3> QED  BY <1>2, <3>1
    <2>10. ASSUME NEW s \in Segment, WriteSegment(s) PROVE Ranked'
      <3>1. /\ pc = "gcdata" /\ pc' \in {"keys", "gcdata"}
            /\ UNCHANGED <<meta, heap, cur, victim, unranked>>
        BY <2>10 DEF WriteSegment, history
      <3>2. victim # None  BY <2>0, <3>1 DEF Phases
      <3>3. ~ Flushing'  BY <3>1, <3>2 DEF Flushing
      <3> QED  BY <1>1, <3>1, <3>2, <3>3
    <2>11. ASSUME FinishFlush PROVE Ranked'
      <3>1. /\ victim = None /\ pc' = "idle" /\ UNCHANGED <<meta, heap, cur, victim, unranked>>
        BY <2>11 DEF FinishFlush, history
      <3>2. ~ Flushing'  BY <3>1 DEF Flushing
      <3> QED  BY <1>1, <3>1, <3>2
    <2>12. ASSUME FinishGC PROVE Ranked'
      <3>1. /\ victim # None /\ victim' = None /\ meta' = meta
            /\ \/ pc' = "gc" /\ UNCHANGED <<cur, heap, unranked>>
               \/ /\ pc' = "flush" /\ cur' = None /\ heap' = Rank(cur, meta.front[cur])
                  /\ unranked' = unranked \ {cur}
        BY <2>12 DEF FinishGC
      <3>2. ~ Flushing'  BY <3>1 DEF Flushing
      <3>3. CASE pc' = "gc" /\ UNCHANGED <<cur, heap, unranked>>
        BY <1>1, <3>1, <3>2, <3>3
      <3>4. CASE /\ pc' = "flush" /\ cur' = None /\ heap' = Rank(cur, meta.front[cur])
                 /\ unranked' = unranked \ {cur}
        <4>1. cur \in Group  BY <1>b, <3>1 DEF Bounds, MemoryFits
        <4>2. MinRatio(heap.front[cur]) = MinRatio(meta.front[cur])  BY <3>1, <4>1 DEF Ranked
        <4>3. meta'.front[cur] = 0 => MinRatio(heap.front[cur]) = MaxRatio  BY <1>m, <3>1, <4>2
        <4>4. \A h \in Group \ unranked' : MinRatio(heap'.front[h]) = MinRatio(meta'.front[h])
          BY <1>3, <3>1, <3>4, <4>1, <4>3
        <4> QED  BY <3>1, <3>2, <3>4, <4>4, RankedNext
      <3> QED  BY <3>1, <3>3, <3>4
    <2>13. ASSUME GCGreedyInVain PROVE Ranked'
      <3>1. /\ pc = "gc" /\ pc' = pc /\ heap' = NoHeap /\ \A g \in Group : ~ Greedy(g)
            /\ UNCHANGED <<meta, cur, victim, unranked>>
        BY <2>13 DEF GCGreedyInVain, history
      <3>2. \A g \in Group : heap'.front[g] = None  BY <3>1 DEF NoHeap
      <3>3. ASSUME NEW g \in Group PROVE MinRatio(heap.front[g]) = MaxRatio
        <4>1. ~ (heap.front[g] > MainSize)  BY <3>1, FullestIsTaken
        <4>2. heap.front[g] \in Int  BY EntryTypes
        <4>3. heap.front[g] <= MainSize  BY <4>1, <4>2, SizeFacts
        <4> QED  BY <4>2, <4>3, LowFront
      <3>4. \A g \in Group \ unranked' : MinRatio(heap'.front[g]) = MinRatio(meta'.front[g])
        BY <1>m, <3>1, <3>2, <3>3 DEF Ranked
      <3>5. ~ Flushing' /\ cur' \notin unranked'  BY <3>1 DEF Flushing, Ranked
      <3> QED  BY <3>1, <3>4, <3>5, RankedNext
    <2>14. ~ Recover  BY <1>7 DEF Recover
    <2> QED
      BY <1>7, <2>1, <2>2, <2>3, <2>4, <2>5, <2>6, <2>7, <2>8, <2>9, <2>10, <2>11, <2>12, <2>13,
         <2>14 DEF Next
  <1>8. CASE Next /\ pc = "down"
    <2>1. Recover
      BY <1>8 DEF Next, Put, FlushBeforeWrite, PickGroup, GCOneGroup, RewriteRecord, FlushRecord,
           LeaveGroup, ReservedOverflow, EndOfUpdates, SetBatchUpdateKeyValue, WriteKeyBatch,
           WriteKeyBatchFails, LogMetaPersist, SetBatchGCKeyValue, FinishFlush, AckBeforeGC,
           FinishGC, GCGreedyInVain, WriteSegment, Crash
    <2> QED  BY <1>5, <2>1
  <1> QED  BY <1>4, <1>6, <1>7, <1>8

LEMMA RankedInvariant == RecordsFit /\ Spec => []Ranked
  <1>1. Init => Ranked
    <2> SUFFICES ASSUME Init PROVE Ranked  OBVIOUS
    <2>1. /\ pc = "idle" /\ cur = None /\ victim = None /\ unranked = {}
          /\ \A g \in Group : heap.front[g] = None /\ meta.front[g] = 0
      BY DEF Init, NoHeap, NoMeta
    <2>2. MinRatio(None) = MaxRatio /\ MinRatio(0) = MaxRatio
      <3>1. None \in Int /\ None <= MainSize  BY SizeFacts DEF None
      <3>2. 0 \in Int /\ 0 <= MainSize  BY SizeFacts
      <3> QED  BY <3>1, <3>2, LowFront
    <2> QED  BY <2>1, <2>2 DEF Ranked, Flushing
  <1>2. IInv /\ Bounds /\ Ranked /\ [Next]_vars => Ranked'  BY NextRanked
  <1> QED  BY <1>1, <1>2, BoundsInvariant, PTL DEF Spec

(* The ratio by which gcGreedy ranks a group is that of the group's front,  *)
(* between operations and when a flush turns to garbage collection, for     *)
(* every group but those whose front comes from the log of a recovery: the  *)
(* calls of setGroupWriteFront at the end of a flush, before and after      *)
(* garbage collection do not miss a group.                                  *)
THEOREM RatiosStayCurrent == RecordsFit => (Spec => []RatiosCurrent)
  <1>1. Ranked => RatiosCurrent  BY DEF Ranked, RatiosCurrent
  <1> QED  BY <1>1, RankedInvariant, PTL

----------------------------------------------------------------------------
(* There is a group to collect                                              *)

LEMMA FullestIsFound ==
  ASSUME NumLog > MinFree, IInv, Bounds, FInv, Short, Ranked
  PROVE  VictimFound
  <1> SUFFICES ASSUME pc = "gc", torn = {}, unranked = {} PROVE \E g \in Group : Greedy(g)
    BY DEF VictimFound
  <1>1. Own(meta) /\ MetaFits(meta) /\ \A g \in Group : Shape(meta.segs[g], g)  BY FFacts
  <1>2. PICK g \in Group : LogsOf(meta.segs[g]) # {}
    <2>1. meta.free <= MinFree  BY DEF Short
    <2>2. /\ meta.free = NumLog - Cardinality(meta.used) /\ Cardinality(meta.used) \in Nat
          /\ meta.used = UNION {LogsOf(meta.segs[g]) : g \in Group}
      BY <1>1, OwnFacts DEF Own
    <2>3. MinFree \in Nat /\ NumLog \in Nat  BY HashKVAssumption
    <2>4. Cardinality(meta.used) # 0  BY <2>1, <2>2, <2>3
    <2>5. meta.used # {}  BY <2>4, FS_EmptySet
    <2> QED  BY <2>2, <2>5
  <1>3. meta.front[g] > MainSize /\ meta.front[g] \in Nat
    <2>1. g \in Sound  BY DEF Sound
    <2>2. meta.front[g] \in Nat  BY <1>1, FittingFacts DEF MetaFits
    <2> QED  BY <1>2, <2>1, <2>2, LogsMeanFront
  <1>4. MinRatio(heap.front[g]) # MaxRatio
    <2>1. MinRatio(meta.front[g]) # MaxRatio  BY <1>3, FurtherIsLower
    <2> QED  BY <2>1 DEF Ranked
  <1>5. heap.front[g] > MainSize
    <2>1. heap.front[g] \in Int /\ MainSize \in Int  BY EntryTypes, SizeFacts
    <2>2. ~ (heap.front[g] <= MainSize)  BY <1>4, <2>1, LowFront
    <2> QED  BY <2>1, <2>2
  <1> QED  BY <1>5, FullestIsTaken

(* If the store has more log segments than it keeps in reserve, and no      *)
(* ratio is left from before a recovery, a flush that runs into the reserve *)
(* finds a group to collect: gcGreedy does not empty its heap. Log segments *)
(* are missing only because groups own them, a group that owns one has a    *)
(* front past its main segment, and the heap knows of it.                   *)
THEOREM VictimAlwaysFound == RecordsFit /\ NumLog > MinFree => (Spec => []VictimFound)
  <1> SUFFICES ASSUME NumLog > MinFree PROVE RecordsFit => (Spec => []VictimFound)  OBVIOUS
  <1>1. IInv /\ Bounds /\ FInv /\ Short /\ Ranked => VictimFound  BY FullestIsFound
  <1> QED  BY <1>1, BoundsInvariant, FInvInvariant, ShortInvariant, RankedInvariant, PTL

=============================================================================
