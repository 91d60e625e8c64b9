--------------------------- MODULE HashKV_proofs ---------------------------
(***************************************************************************)
(* Who owns which segment in HashKV, for any number of segments, groups    *)
(* and records: SegmentsExclusive is an invariant, whenever the process    *)
(* dies. In its second half, how far segments and groups can be filled,    *)
(* from which TypeOK follows.                                              *)
(***************************************************************************)
EXTENDS HashKV, TLAPS, FiniteSetTheorems, WellFoundedInduction

----------------------------------------------------------------------------
(* The inductive invariant                                                  *)

LogsOf(s) == ToSet(s) \cap LogSeg

\* a group that exists lists its main segment and then log segments
Shape(s, g) ==
  /\ s \in Seq(Segment)
  /\ s # <<>> => s[1] = g /\ \A i \in 2..Len(s) : s[i] \in LogSeg

Exclusive(segs) ==
  \A g, h \in Group : g # h => LogsOf(segs[g]) \cap LogsOf(segs[h]) = {}

\* what the bitmap and the counter must say of the lists of segments
Own(m) ==
  /\ m = [segs |-> m.segs, front |-> m.front, segFront |-> m.segFront,
          used |-> m.used, free |-> m.free]
  /\ m.segs = [g \in Group |-> m.segs[g]]
  /\ \A g \in Group : Shape(m.segs[g], g)
  /\ Exclusive(m.segs)
  /\ m.used = UNION {LogsOf(m.segs[g]) : g \in Group}
  /\ m.free = NumLog - Cardinality(m.used)

Entry == [key : Key, val : Nat, size : Nat]

\* a record in the buffer has a group to go to
Buffer ==
  /\ pool \in Seq(Entry) /\ pending \subseteq DOMAIN pool /\ puts \in Nat
  /\ cur \in Group \cup {None} /\ victim \in Group \cup {None} /\ modified \subseteq Group
  /\ \A i \in DOMAIN pool : meta.segs[Hash[pool[i].key]] # <<>>

\* which log is in use, and that it says what is in memory
Phases ==
  /\ victim = None =>
       /\ pc \in {"idle", "flush", "log", "keys", "meta", "ack", "gc"}
       /\ gcLog = <<>>
       /\ pc \in {"log", "keys", "meta", "ack"} /\ cur = None => pending = {}
       /\ \/ updateLog = NoLog
          \/ pc \in {"keys", "meta", "ack"} /\ updateLog.groups = GroupsOf(meta, modified)
  /\ victim # None =>
       /\ modified = {victim} /\ updateLog = NoLog
       /\ meta.segs[victim] # <<>>
       /\ \/ pc = "rewrite" /\ gcLog = <<>>
          \/ /\ pc \in {"gcdata", "keys", "meta", "ack"}
             /\ DOMAIN gcLog = {victim} /\ gcLog[victim].segs = meta.segs[victim]

\* what is persisted of a group it still has; only the group being collected
\* has given segments back, and nobody else has taken them
Behind ==
  /\ \A g \in Group : g # victim \/ pc = "ack" =>
       LogsOf(groupMeta[g].segs) \subseteq LogsOf(meta.segs[g])
  /\ victim # None => \A h \in Group \ {victim} :
       LogsOf(groupMeta[victim].segs) \cap LogsOf(meta.segs[h]) = {}

\* a log gives no group what another one has
Fits(log) ==
  /\ DOMAIN log \subseteq Group
  /\ \A g \in DOMAIN log :
       /\ Shape(log[g].segs, g)
       /\ \A h \in Group \ {g} :
            LogsOf(log[g].segs) \cap LogsOf(groupMeta[h].segs) = {}
       /\ \A h \in DOMAIN log \ {g} : LogsOf(log[g].segs) \cap LogsOf(log[h].segs) = {}

\* what is durable is enough for a recovery
Restorable ==
  /\ Exclusive([g \in Group |-> groupMeta[g].segs])
  /\ Fits(updateLog.groups) /\ Fits(gcLog)
  /\ DOMAIN updateLog.groups = {} \/ DOMAIN gcLog = {}

Running == Own(meta) /\ Phases /\ Behind
Crashed == pool = <<>> /\ victim = None /\ Restorable

IInv ==
  /\ Buffer
  /\ \A g \in Group : Shape(groupMeta[g].segs, g)
  /\ IF pc = "down" THEN Crashed ELSE Running

----------------------------------------------------------------------------
(* Segments                                                                 *)

LEMMA SegmentFacts ==
  /\ Group \subseteq Nat /\ LogSeg \subseteq Nat /\ Group \cap LogSeg = {}
  /\ Group \subseteq Segment /\ LogSeg \subseteq Segment
  /\ None \notin Group
  /\ IsFiniteSet(LogSeg) /\ Cardinality(LogSeg) = NumLog
  <1>1. NumMain \in Nat /\ NumLog \in Nat  BY HashKVAssumption
  <1>2. IsFiniteSet(LogSeg) /\ Cardinality(LogSeg) = NumLog
    <2>1. IsFiniteSet(LogSeg) /\ Cardinality(LogSeg) =
            IF NumMain > NumMain + NumLog - 1 THEN 0
            ELSE (NumMain + NumLog - 1) - NumMain + 1
      BY <1>1, FS_Interval DEF LogSeg
    <2> QED  BY <1>1, <2>1
  <1> QED  BY <1>1, <1>2 DEF Group, LogSeg, Segment, None

(* The bitmap gives out a free log segment whenever there is one.           *)
LEMMA FirstFreeFree ==
  ASSUME NEW m, LogSeg \ m.used # {}
  PROVE  FirstFree(m) \in LogSeg \ m.used
  <1> DEFINE T == LogSeg \ m.used
  <1>1. T \subseteq Nat  BY SegmentFacts
  <1>2. PICK x \in T : \A y \in T : <<y, x>> \notin OpToRel(<, Nat)
    BY <1>1, NatLessThanWellFounded, WFMin, Zenon
  <1>3. \A y \in T : ~ (y < x)
    BY <1>1, <1>2 DEF OpToRel
  <1>4. \A y \in T : x <= y  BY <1>1, <1>3
  <1> QED  BY <1>4 DEF FirstFree

LEMMA SetOfAppend ==
  ASSUME NEW S, NEW s \in Seq(S), NEW x \in S
  PROVE  /\ Append(s, x) \in Seq(S)
         /\ ToSet(Append(s, x)) = ToSet(s) \cup {x}
  <1>1. Append(s, x) \in Seq(S)  OBVIOUS
  <1>2. ToSet(Append(s, x)) \subseteq ToSet(s) \cup {x}  BY DEF ToSet
  <1>3. ToSet(s) \subseteq ToSet(Append(s, x))
    <2> SUFFICES ASSUME NEW i \in 1..Len(s) PROVE s[i] \in ToSet(Append(s, x))
      BY DEF ToSet
    <2>1. i \in 1..Len(Append(s, x)) /\ Append(s, x)[i] = s[i]  OBVIOUS
    <2> QED  BY <2>1 DEF ToSet
  <1>4. x \in ToSet(Append(s, x))
    <2>1. Len(s) + 1 \in 1..Len(Append(s, x)) /\ Append(s, x)[Len(s) + 1] = x
      OBVIOUS
    <2> QED  BY <2>1 DEF ToSet
  <1> QED  BY <1>1, <1>2, <1>3, <1>4

LEMMA LogsOfMain ==
  ASSUME NEW g \in Group
  PROVE  /\ Shape(<<g>>, g) /\ LogsOf(<<g>>) = {}
         /\ Shape(<<>>, g) /\ LogsOf(<<>>) = {}
  <1>1. ToSet(<<g>>) = {g} /\ ToSet(<<>>) = {}  BY DEF ToSet
  <1>2. g \in Segment /\ g \notin LogSeg  BY SegmentFacts
  <1>3. <<g>> \in Seq(Segment) /\ Len(<<g>>) = 1 /\ <<g>>[1] = g  BY <1>2
  <1> QED  BY <1>1, <1>2, <1>3 DEF Shape, LogsOf

(* A group's list without its main segment is the set of its log segments.  *)
LEMMA LogsOfTail ==
  ASSUME NEW m, NEW g \in Group, Shape(m.segs[g], g)
  PROVE  ToSet(LogSegments(m, g)) = LogsOf(m.segs[g])
  <1> DEFINE s == m.segs[g]
  <1>1. CASE s = <<>>
    BY <1>1, LogsOfMain DEF LogSegments, LogsOf, ToSet
  <1>2. CASE s # <<>>
    <2>1. s \in Seq(Segment) /\ s[1] = g /\ \A i \in 2..Len(s) : s[i] \in LogSeg
      BY <1>2 DEF Shape
    <2>2. Tail(s) \in Seq(Segment) /\ Len(Tail(s)) = Len(s) - 1 /\ Len(s) \in Nat \ {0}
          /\ \A i \in 1..Len(Tail(s)) : Tail(s)[i] = s[i + 1]
      BY <1>2, <2>1
    <2>3. ToSet(Tail(s)) \subseteq LogsOf(s)
      <3> SUFFICES ASSUME NEW i \in 1..Len(Tail(s)) PROVE Tail(s)[i] \in LogsOf(s)
        BY <2>2 DEF ToSet
      <3>1. i + 1 \in 2..Len(s) /\ i + 1 \in DOMAIN s  BY <2>1, <2>2
      <3> QED  BY <2>1, <2>2, <3>1 DEF LogsOf, ToSet
    <2>4. LogsOf(s) \subseteq ToSet(Tail(s))
      <3> SUFFICES ASSUME NEW i \in 1..Len(s), s[i] \in LogSeg PROVE s[i] \in ToSet(Tail(s))
        BY <2>1 DEF LogsOf, ToSet
      <3>1. i # 1  BY <2>1, SegmentFacts
      <3>2. i - 1 \in 1..Len(Tail(s)) /\ Tail(s)[i - 1] = s[i]  BY <3>1, <2>2
      <3> QED  BY <2>2, <3>2 DEF ToSet
    <2> QED  BY <1>2, <2>3, <2>4 DEF LogSegments
  <1> QED  BY <1>1, <1>2

(* A list stays a list of the group when a log segment is put at its end.   *)
LEMMA ShapeOfAppend ==
  ASSUME NEW g \in Group, NEW s, Shape(s, g), s # <<>>, NEW x \in LogSeg
  PROVE  /\ Shape(Append(s, x), g) /\ Append(s, x) # <<>>
         /\ LogsOf(Append(s, x)) = LogsOf(s) \cup {x}
  <1>1. s \in Seq(Segment) /\ s[1] = g /\ \A i \in 2..Len(s) : s[i] \in LogSeg
    BY DEF Shape
  <1>2. x \in Segment  BY SegmentFacts
  <1>3. Append(s, x) \in Seq(Segment) /\ ToSet(Append(s, x)) = ToSet(s) \cup {x}
    BY <1>1, <1>2, SetOfAppend
  <1>4. /\ Len(Append(s, x)) = Len(s) + 1 /\ Len(s) \in Nat \ {0}
        /\ Append(s, x)[Len(s) + 1] = x
        /\ \A i \in 1..Len(s) : Append(s, x)[i] = s[i]
    BY <1>1, <1>2
  <1>5. Append(s, x)[1] = g  BY <1>1, <1>4
  <1>6. ASSUME NEW i \in 2..Len(Append(s, x)) PROVE Append(s, x)[i] \in LogSeg
    BY <1>1, <1>4
  <1>7. Append(s, x) # <<>>  BY <1>1, <1>2
  <1> QED  BY <1>3, <1>5, <1>6, <1>7 DEF Shape, LogsOf

----------------------------------------------------------------------------
(* Counting                                                                 *)

LEMMA LogCount ==
  ASSUME NEW U \in SUBSET LogSeg
  PROVE  IsFiniteSet(U) /\ Cardinality(U) \in Nat
  BY SegmentFacts, FS_Subset, FS_CardinalityType

(* The bitmap and the counter agree when A is replaced by B.                *)
LEMMA CountSwap ==
  ASSUME NEW U \in SUBSET LogSeg, NEW A \in SUBSET U, NEW B \in SUBSET LogSeg,
         B \cap (U \ A) = {}
  PROVE  Cardinality((U \ A) \cup B) = Cardinality(U) - Cardinality(A) + Cardinality(B)
  <1> DEFINE D == U \ A
  <1>1. /\ IsFiniteSet(U) /\ IsFiniteSet(A) /\ IsFiniteSet(B) /\ IsFiniteSet(D)
        /\ Cardinality(U) \in Nat /\ Cardinality(A) \in Nat /\ Cardinality(B) \in Nat
        /\ Cardinality(D) \in Nat
    <2>1. A \in SUBSET LogSeg /\ D \in SUBSET LogSeg  OBVIOUS
    <2> QED  BY <2>1, LogCount
  <1>2. Cardinality(D) = Cardinality(U) - Cardinality(U \cap A)  BY <1>1, FS_Difference
  <1>3. Cardinality(U \cap A) = Cardinality(A)
    <2>1. U \cap A = A  OBVIOUS
    <2> QED  BY <2>1
  <1>4. Cardinality(D \cup B) = Cardinality(D) + Cardinality(B) - Cardinality(D \cap B)
    BY <1>1, FS_Union
  <1>5. D \cap B = {}  OBVIOUS
  <1>6. Cardinality(D \cap B) = 0  BY <1>5, FS_EmptySet
  <1> HIDE DEF D
  <1>7. Cardinality(D \cup B) = Cardinality(U) - Cardinality(A) + Cardinality(B)
    BY <1>1, <1>2, <1>3, <1>4, <1>6
  <1> QED  BY <1>7 DEF D

(* Counted group by group, exclusive lists give the size of their union.    *)
LEMMA ListedCount ==
  ASSUME NEW gs \in SUBSET Group, NEW segs,
         \A g, h \in gs : g # h => LogsOf(segs[g]) \cap LogsOf(segs[h]) = {}
  PROVE  Listed(gs, segs) = Cardinality(UNION {LogsOf(segs[g]) : g \in gs})
  <1> DEFINE U == UNION {LogsOf(segs[g]) : g \in gs}
             T == UNION {{g} \X (ToSet(segs[g]) \cap LogSeg) : g \in gs}
             owner(x) == CHOOSE g \in gs : x \in LogsOf(segs[g])
             f == [x \in U |-> <<owner(x), x>>]
  <1>1. \A x \in U : owner(x) \in gs /\ x \in LogsOf(segs[owner(x)])  OBVIOUS
  <1>2. \A x \in U : \A g \in gs : x \in LogsOf(segs[g]) => g = owner(x)  BY <1>1
  <1> HIDE DEF owner
  <1>3. \A x \in U : <<owner(x), x>> \in T
    BY <1>1 DEF LogsOf
  <1>4. \A y \in T : \E x \in U : y = <<owner(x), x>>
    <2> SUFFICES ASSUME NEW g \in gs, NEW x \in ToSet(segs[g]) \cap LogSeg
                 PROVE  \E z \in U : <<g, x>> = <<owner(z), z>>
      OBVIOUS
    <2>1. x \in U /\ x \in LogsOf(segs[g])  BY DEF LogsOf
    <2>2. owner(x) = g  BY <1>2, <2>1
    <2> QED  BY <2>1, <2>2
  <1> HIDE DEF U, T
  <1>5. f \in [U -> T]  BY <1>3
  <1>6. ASSUME NEW x \in U, NEW y \in U, f[x] = f[y] PROVE x = y  BY <1>6
  <1>7. \A y \in T : \E x \in U : f[x] = y  BY <1>4
  <1>8. f \in Bijection(U, T)
    <2> HIDE DEF f
    <2> QED  BY <1>5, <1>6, <1>7 DEF Bijection, Injection, Surjection, IsInjective
  <1>9. ExistsBijection(U, T)  BY <1>8 DEF ExistsBijection
  <1>10. IsFiniteSet(U)
    <2>1. U \in SUBSET LogSeg  BY DEF U, LogsOf
    <2> QED  BY <2>1, LogCount
  <1>11. Cardinality(T) = Cardinality(U)  BY <1>9, <1>10, FS_Bijection
  <1> QED  BY <1>11 DEF Listed, T, U

----------------------------------------------------------------------------
(* What the segment manager's operations do to the ownership of segments    *)

LEMMA OwnFacts ==
  ASSUME NEW m, Own(m)
  PROVE  /\ m.used \in SUBSET LogSeg /\ Cardinality(m.used) \in Nat
         /\ \A g \in Group : LogsOf(m.segs[g]) \subseteq m.used
         /\ \A g, h \in Group : g # h => LogsOf(m.segs[g]) \cap LogsOf(m.segs[h]) = {}
         /\ m.free = NumLog - Cardinality(m.used)
  <1>1. m.used \in SUBSET LogSeg  BY DEF Own, LogsOf
  <1>2. Cardinality(m.used) \in Nat  BY <1>1, LogCount
  <1> QED  BY <1>1, <1>2 DEF Own, Exclusive

LEMMA FrontOnly ==
  ASSUME NEW m, Own(m), NEW n,
         n = [segs |-> m.segs, front |-> n.front, segFront |-> n.segFront,
              used |-> m.used, free |-> m.free]
  PROVE  Own(n) /\ n.segs = m.segs
  <1>1. n.segs = m.segs /\ n.used = m.used /\ n.free = m.free  OBVIOUS
  <1> QED  BY <1>1 DEF Own

(* One group gets another list, the bitmap and the counter follow.          *)
LEMMA Relisted ==
  ASSUME NEW m, Own(m), NEW g \in Group, NEW s, Shape(s, g),
         LogsOf(s) \cap (m.used \ LogsOf(m.segs[g])) = {},
         NEW n,
         n = [segs |-> [m.segs EXCEPT ![g] = s], front |-> n.front,
              segFront |-> n.segFront,
              used |-> (m.used \ LogsOf(m.segs[g])) \cup LogsOf(s),
              free |-> m.free + Cardinality(LogsOf(m.segs[g])) - Cardinality(LogsOf(s))]
  PROVE  /\ Own(n) /\ n.segs[g] = s
         /\ \A h \in Group \ {g} : n.segs[h] = m.segs[h]
  <1> DEFINE A == LogsOf(m.segs[g])
             B == LogsOf(s)
  <1>1. /\ n.segs = [m.segs EXCEPT ![g] = s]
        /\ n.used = (m.used \ A) \cup B
        /\ n.free = m.free + Cardinality(A) - Cardinality(B)
    OBVIOUS
  <1>2. DOMAIN m.segs = Group  BY DEF Own
  <1>3. /\ n.segs[g] = s /\ \A h \in Group \ {g} : n.segs[h] = m.segs[h]
        /\ n.segs = [h \in Group |-> n.segs[h]]
    BY <1>1, <1>2
  <1>4. \A h \in Group : Shape(n.segs[h], h)  BY <1>3 DEF Own
  <1>5. \A h \in Group \ {g} : LogsOf(m.segs[h]) \cap A = {} /\ LogsOf(m.segs[h]) \subseteq m.used
    BY OwnFacts
  <1>6. Exclusive(n.segs)
    <2> SUFFICES ASSUME NEW h \in Group, NEW i \in Group, h # i
                 PROVE  LogsOf(n.segs[h]) \cap LogsOf(n.segs[i]) = {}
      BY DEF Exclusive
    <2>1. CASE h = g  BY <2>1, <1>3, <1>5
    <2>2. CASE i = g  BY <2>2, <1>3, <1>5
    <2>3. CASE h # g /\ i # g  BY <2>3, <1>3, OwnFacts
    <2> QED  BY <2>1, <2>2, <2>3
  <1>7. n.used = UNION {LogsOf(n.segs[h]) : h \in Group}
    <2>1. m.used = UNION {LogsOf(m.segs[h]) : h \in Group}  BY DEF Own
    <2>2. \A x \in n.used : \E h \in Group : x \in LogsOf(n.segs[h])
      BY <1>1, <1>3, <2>1
    <2>3. \A h \in Group : LogsOf(n.segs[h]) \subseteq n.used
      BY <1>1, <1>3, <1>5
    <2> QED  BY <2>2, <2>3
  <1>8. n.free = NumLog - Cardinality(n.used)
    <2>1. m.used \in SUBSET LogSeg /\ A \in SUBSET m.used /\ B \in SUBSET LogSeg
      BY OwnFacts DEF LogsOf
    <2>2. B \cap (m.used \ A) = {}  OBVIOUS
    <2>3. Cardinality(m.used) \in Nat /\ Cardinality(A) \in Nat /\ Cardinality(B) \in Nat
      <3>1. A \in SUBSET LogSeg  BY <2>1
      <3> QED  BY <2>1, <3>1, LogCount
    <2> HIDE DEF A, B
    <2>4. Cardinality(n.used) = Cardinality(m.used) - Cardinality(A) + Cardinality(B)
      BY <1>1, <2>1, <2>2, CountSwap
    <2>5. m.free = NumLog - Cardinality(m.used)  BY OwnFacts
    <2>6. NumLog \in Nat  BY HashKVAssumption
    <2>7. n.free = m.free + Cardinality(A) - Cardinality(B)  BY <1>1
    <2> QED  BY <2>3, <2>4, <2>5, <2>6, <2>7
  <1>9. n = [segs |-> n.segs, front |-> n.front, segFront |-> n.segFront,
             used |-> n.used, free |-> n.free]
    BY <1>1
  <1> QED  BY <1>3, <1>4, <1>6, <1>7, <1>8, <1>9 DEF Own

(* The main segment of a new group is nobody else's.                        *)
LEMMA NewMainOwn ==
  ASSUME NEW m, Own(m), NEW g \in Group, NEW n, n = GetNewMainSegment(m, g)
  PROVE  /\ Own(n) /\ n.segs[g] # <<>>
         /\ \A h \in Group : /\ LogsOf(n.segs[h]) = LogsOf(m.segs[h])
                             /\ m.segs[h] # <<>> => n.segs[h] = m.segs[h]
  <1>1. CASE m.segs[g] # <<>>  BY <1>1 DEF GetNewMainSegment
  <1>2. CASE m.segs[g] = <<>>
    <2>1. LogsOf(m.segs[g]) = {} /\ Shape(<<g>>, g) /\ LogsOf(<<g>>) = {}
      BY <1>2, LogsOfMain
    <2>2. n = [m EXCEPT !.segs[g] = <<g>>, !.front[g] = 0]  BY <1>2 DEF GetNewMainSegment
    <2>3. n = [segs |-> [m.segs EXCEPT ![g] = <<g>>], front |-> [m.front EXCEPT ![g] = 0],
               segFront |-> m.segFront, used |-> m.used, free |-> m.free]
      BY <2>2 DEF Own
    <2>4. m.used = (m.used \ LogsOf(m.segs[g])) \cup LogsOf(<<g>>)  BY <2>1
    <2>5. m.free = m.free + Cardinality(LogsOf(m.segs[g])) - Cardinality(LogsOf(<<g>>))
      <3>1. NumLog \in Nat  BY HashKVAssumption
      <3>2. m.free = NumLog - Cardinality(m.used) /\ Cardinality(m.used) \in Nat  BY OwnFacts
      <3>3. Cardinality(LogsOf(m.segs[g])) = 0 /\ Cardinality(LogsOf(<<g>>)) = 0
        BY <2>1, FS_EmptySet
      <3> QED  BY <3>1, <3>2, <3>3
    <2>6. /\ n.front = [m.front EXCEPT ![g] = 0] /\ n.segFront = m.segFront
          /\ n.used = m.used /\ n.free = m.free
      BY <2>3
    <2>7. n = [segs |-> [m.segs EXCEPT ![g] = <<g>>], front |-> n.front,
               segFront |-> n.segFront,
               used |-> (m.used \ LogsOf(m.segs[g])) \cup LogsOf(<<g>>),
               free |-> m.free + Cardinality(LogsOf(m.segs[g])) - Cardinality(LogsOf(<<g>>))]
      BY <2>3, <2>4, <2>5, <2>6
    <2>8. LogsOf(<<g>>) \cap (m.used \ LogsOf(m.segs[g])) = {}  BY <2>1
    <2>9. Own(n) /\ n.segs[g] = <<g>> /\ \A h \in Group \ {g} : n.segs[h] = m.segs[h]
      BY <2>1, <2>7, <2>8, Relisted
    <2>10. <<g>> # <<>>  OBVIOUS
    <2>11. ASSUME NEW h \in Group PROVE LogsOf(n.segs[h]) = LogsOf(m.segs[h])
      BY <2>1, <2>9
    <2> QED  BY <1>2, <2>9, <2>10, <2>11
  <1> QED  BY <1>1, <1>2

(* A log segment that the bitmap gives out is nobody else's.                *)
LEMMA NewLogOwn ==
  ASSUME NEW m, Own(m), NEW g \in Group, m.segs[g] # <<>>, LogSeg \ m.used # {},
         NEW n, n = GetNewLogSegment(m, g)
  PROVE  /\ Own(n) /\ n.segs[g] # <<>>
         /\ LogsOf(m.segs[g]) \subseteq LogsOf(n.segs[g])
         /\ \A h \in Group \ {g} : n.segs[h] = m.segs[h]
  <1> DEFINE x == FirstFree(m)
             s == Append(m.segs[g], x)
             A == LogsOf(m.segs[g])
  <1>1. x \in LogSeg \ m.used  BY FirstFreeFree
  <1>2. Shape(s, g) /\ s # <<>> /\ LogsOf(s) = A \cup {x}
    <2>1. Shape(m.segs[g], g)  BY DEF Own
    <2> QED  BY <1>1, <2>1, ShapeOfAppend
  <1>3. A \in SUBSET m.used /\ m.used \in SUBSET LogSeg /\ A \in SUBSET LogSeg  BY OwnFacts
  <1> HIDE DEF x
  <1>4. /\ Cardinality(LogsOf(s)) = Cardinality(A) + 1
        /\ Cardinality(A) \in Nat
    <2>1. x \notin A  BY <1>1, <1>3
    <2>2. IsFiniteSet(A) /\ Cardinality(A) \in Nat  BY <1>3, LogCount
    <2>3. Cardinality(A \cup {x}) = Cardinality(A) + 1  BY <2>1, <2>2, FS_AddElement
    <2> QED  BY <1>2, <2>2, <2>3
  <1>5. m.free \in Int  BY OwnFacts, HashKVAssumption
  <1>6. n = [segs |-> [m.segs EXCEPT ![g] = s], front |-> m.front, segFront |-> m.segFront,
             used |-> m.used \cup {x}, free |-> m.free - 1]
    BY DEF GetNewLogSegment, Own, x
  <1>7. m.used \cup {x} = (m.used \ A) \cup LogsOf(s)  BY <1>2, <1>3
  <1>8. m.free - 1 = m.free + Cardinality(A) - Cardinality(LogsOf(s))  BY <1>4, <1>5
  <1>9. n.front = m.front /\ n.segFront = m.segFront  BY <1>6
  <1>10. n = [segs |-> [m.segs EXCEPT ![g] = s], front |-> n.front,
              segFront |-> n.segFront, used |-> (m.used \ A) \cup LogsOf(s),
              free |-> m.free + Cardinality(A) - Cardinality(LogsOf(s))]
    BY <1>6, <1>7, <1>8, <1>9
  <1>11. LogsOf(s) \cap (m.used \ A) = {}  BY <1>1, <1>2
  <1>12. Own(n) /\ n.segs[g] = s /\ \A h \in Group \ {g} : n.segs[h] = m.segs[h]
    <2> HIDE DEF s
    <2>1. Shape(s, g) /\ LogsOf(s) \cap (m.used \ LogsOf(m.segs[g])) = {}  BY <1>2, <1>11
    <2> QED  BY <2>1, <1>10, Relisted
  <1> QED  BY <1>2, <1>12

(* Wherever a record goes, its group owns the segment.                      *)
LEMMA PlaceOwn ==
  ASSUME NEW m, Own(m), NEW g \in Group, m.segs[g] # <<>>, NEW f, NEW size,
         CanPlace(m, g, f, size), NEW n, n = Place(m, g, f, size).meta
  PROVE  /\ Own(n) /\ n.segs[g] # <<>>
         /\ LogsOf(m.segs[g]) \subseteq LogsOf(n.segs[g])
         /\ \A h \in Group \ {g} : n.segs[h] = m.segs[h]
  <1> DEFINE grown == IF NeedsSegment(m, g, f, size) THEN GetNewLogSegment(m, g) ELSE m
  <1>1. /\ Own(grown) /\ grown.segs[g] # <<>>
        /\ LogsOf(m.segs[g]) \subseteq LogsOf(grown.segs[g])
        /\ \A h \in Group \ {g} : grown.segs[h] = m.segs[h]
    <2>1. CASE NeedsSegment(m, g, f, size)
      <3>1. LogSeg \ m.used # {}  BY <2>1 DEF CanPlace
      <3> QED  BY <2>1, <3>1, NewLogOwn
    <2>2. CASE ~ NeedsSegment(m, g, f, size)  BY <2>2
    <2> QED  BY <2>1, <2>2
  <1>2. PICK seg, e : n = [grown EXCEPT !.segFront[seg] = e]
    BY DEF Place
  <1> HIDE DEF grown
  <1>3. n = [segs |-> grown.segs, front |-> grown.front,
             segFront |-> [grown.segFront EXCEPT ![seg] = e],
             used |-> grown.used, free |-> grown.free]
    BY <1>1, <1>2 DEF Own
  <1>4. n = [segs |-> grown.segs, front |-> n.front, segFront |-> n.segFront,
             used |-> grown.used, free |-> grown.free]
    BY <1>3
  <1>5. Own(n) /\ n.segs = grown.segs  BY <1>1, <1>4, FrontOnly
  <1> QED  BY <1>1, <1>5

(* A collected group keeps its main segment only.                           *)
LEMMA ReleaseOwn ==
  ASSUME NEW m, Own(m), NEW g \in Group, NEW n, n = ReleaseGroup(m, g)
  PROVE  /\ Own(n) /\ n.segs[g] = <<g>>
         /\ \A h \in Group \ {g} : n.segs[h] = m.segs[h]
  <1> DEFINE A == LogsOf(m.segs[g])
             fronts == [s \in Segment |-> IF s \in A THEN 0 ELSE m.segFront[s]]
  <1>1. ToSet(LogSegments(m, g)) = A  BY LogsOfTail DEF Own
  <1>2. Shape(<<g>>, g) /\ LogsOf(<<g>>) = {}  BY LogsOfMain
  <1>3. n = [m EXCEPT !.segs[g] = <<g>>, !.front[g] = 0, !.used = @ \ A,
                      !.free = @ + Cardinality(A), !.segFront = fronts]
    BY <1>1 DEF ReleaseGroup
  <1> HIDE DEF A, fronts
  <1>4. n = [segs |-> [m.segs EXCEPT ![g] = <<g>>], front |-> [m.front EXCEPT ![g] = 0],
             segFront |-> fronts, used |-> m.used \ A, free |-> m.free + Cardinality(A)]
    BY <1>3 DEF Own
  <1>5. m.used \ A = (m.used \ A) \cup LogsOf(<<g>>)  BY <1>2
  <1>6. m.free + Cardinality(A) = m.free + Cardinality(A) - Cardinality(LogsOf(<<g>>))
    <2>1. m.free \in Int  BY OwnFacts, HashKVAssumption
    <2>2. A \in SUBSET LogSeg  BY OwnFacts DEF A
    <2>3. Cardinality(A) \in Nat  BY <2>2, LogCount
    <2>4. Cardinality(LogsOf(<<g>>)) = 0  BY <1>2, FS_EmptySet
    <2> QED  BY <2>1, <2>3, <2>4
  <1>7. n.front = [m.front EXCEPT ![g] = 0] /\ n.segFront = fronts  BY <1>4
  <1>8. n = [segs |-> [m.segs EXCEPT ![g] = <<g>>], front |-> n.front,
             segFront |-> n.segFront, used |-> (m.used \ A) \cup LogsOf(<<g>>),
             free |-> m.free + Cardinality(A) - Cardinality(LogsOf(<<g>>))]
    BY <1>4, <1>5, <1>6, <1>7
  <1>9. LogsOf(<<g>>) \cap (m.used \ A) = {}  BY <1>2
  <1> QED  BY <1>2, <1>8, <1>9, Relisted DEF A

----------------------------------------------------------------------------
(* Recovery                                                                 *)

(* The metadata of the LSM-tree, if no two groups list one segment.         *)
LEMMA RestoreMetaOwn ==
  ASSUME \A g \in Group : Shape(groupMeta[g].segs, g),
         Exclusive([g \in Group |-> groupMeta[g].segs])
  PROVE  /\ Own(RestoreMetaFromDB)
         /\ RestoreMetaFromDB.segs = [g \in Group |-> groupMeta[g].segs]
  <1> DEFINE n == RestoreMetaFromDB
             segs == [g \in Group |-> groupMeta[g].segs]
             U == UNION {LogsOf(segs[g]) : g \in Group}
  <1>1. /\ n = [segs |-> n.segs, front |-> n.front, segFront |-> n.segFront,
                used |-> n.used, free |-> n.free]
        /\ n.segs = segs
        /\ n.used = U
        /\ n.free = NumLog - Listed(Group, segs)
    BY DEF RestoreMetaFromDB, LogsOf
  <1>2. \A g, h \in Group : g # h => LogsOf(segs[g]) \cap LogsOf(segs[h]) = {}
    BY DEF Exclusive
  <1> HIDE DEF n
  <1>3. Listed(Group, segs) = Cardinality(U)
    <2> HIDE DEF segs
    <2> QED  BY <1>2, ListedCount
  <1>4. \A g \in Group : Shape(n.segs[g], g)  BY <1>1
  <1>5. Own(n)
    <2>1. n.segs = [g \in Group |-> n.segs[g]]  BY <1>1
    <2>2. Exclusive(n.segs)  BY <1>1
    <2>3. n.used = UNION {LogsOf(n.segs[g]) : g \in Group}  BY <1>1
    <2>4. n.free = NumLog - Cardinality(n.used)  BY <1>1, <1>3
    <2> QED  BY <1>1, <1>4, <2>1, <2>2, <2>3, <2>4 DEF Own
  <1> QED  BY <1>1, <1>5 DEF n

(* The bits of a log's groups, if it gives no group what another one has.   *)
LEMMA RestoreGroupsOwn ==
  ASSUME NEW m, Own(m), NEW log, DOMAIN log \subseteq Group,
         \A g \in DOMAIN log :
           /\ Shape(log[g].segs, g)
           /\ \A h \in Group \ {g} : LogsOf(log[g].segs) \cap LogsOf(m.segs[h]) = {}
           /\ \A h \in DOMAIN log \ {g} :
                LogsOf(log[g].segs) \cap LogsOf(log[h].segs) = {}
  PROVE  /\ Own(RestoreGroups(m, log))
         /\ RestoreGroups(m, log).segs =
              [g \in Group |-> IF g \in DOMAIN log THEN log[g].segs ELSE m.segs[g]]
  <1> DEFINE n == RestoreGroups(m, log)
             D == DOMAIN log
             new == [g \in D |-> log[g].segs]
             segs == [g \in Group |-> IF g \in D THEN log[g].segs ELSE m.segs[g]]
             A == UNION {LogsOf(m.segs[g]) : g \in D}
             B == UNION {LogsOf(new[g]) : g \in D}
             mentions(s) == {g \in D : s \in ToSet(m.segs[g]) \cup ToSet(log[g].segs)}
             last(s) == CHOOSE g \in mentions(s) : \A h \in mentions(s) : h <= g
             bits == {s \in LogSeg : IF mentions(s) = {} THEN s \in m.used
                                     ELSE s \in ToSet(log[last(s)].segs)}
  <1>1. /\ n = [segs |-> n.segs, front |-> n.front, segFront |-> n.segFront,
                used |-> n.used, free |-> n.free]
        /\ n.segs = segs
        /\ n.used = bits
        /\ n.free = m.free + Listed(D, m.segs) - Listed(D, new)
    <2> DEFINE fronts == [g \in Group |-> IF g \in D
                                          THEN IF m.segs[g] = <<>> THEN 0 ELSE log[g].front
                                          ELSE m.front[g]]
               free == m.free + Listed(D, m.segs) - Listed(D, new)
    <2>1. n = [m EXCEPT !.segs = segs, !.front = fronts, !.used = bits, !.free = free]
      BY DEF RestoreGroups
    <2> HIDE DEF n, segs, fronts, bits, free
    <2>2. n = [segs |-> segs, front |-> fronts, segFront |-> m.segFront, used |-> bits,
               free |-> free]
      BY <2>1 DEF Own
    <2> QED  BY <2>2 DEF free
  <1> HIDE DEF n
  <1>2. A \in SUBSET m.used /\ B \in SUBSET LogSeg /\ m.used \in SUBSET LogSeg
    BY OwnFacts DEF LogsOf
  <1>3. B \cap (m.used \ A) = {}
    <2> SUFFICES ASSUME NEW g \in D, NEW x \in LogsOf(log[g].segs), x \in m.used
                 PROVE  x \in A
      OBVIOUS
    <2>1. PICK h \in Group : x \in LogsOf(m.segs[h])  BY DEF Own
    <2>2. h = g  BY <2>1
    <2> QED  BY <2>1, <2>2
  <1>4. n.used = (m.used \ A) \cup B
    <2>1. ASSUME NEW s \in LogSeg, mentions(s) = {}
          PROVE  s \in m.used <=> s \in (m.used \ A) \cup B
      BY <2>1 DEF LogsOf
    <2>2. ASSUME NEW s \in LogSeg, NEW g \in mentions(s)
          PROVE  s \in ToSet(log[last(s)].segs) <=> s \in (m.used \ A) \cup B
      <3>1. mentions(s) = {g}
        <4> SUFFICES ASSUME NEW h \in mentions(s), h # g PROVE FALSE
          BY <2>2
        <4>1. /\ g \in D /\ h \in D /\ g \in Group /\ h \in Group
              /\ s \in LogsOf(m.segs[g]) \/ s \in LogsOf(log[g].segs)
              /\ s \in LogsOf(m.segs[h]) \/ s \in LogsOf(log[h].segs)
          BY <2>2 DEF LogsOf
        <4>2. LogsOf(m.segs[g]) \cap LogsOf(m.segs[h]) = {}  BY <4>1, OwnFacts
        <4> HIDE DEF mentions
        <4> QED  BY <4>1, <4>2
      <3>2. last(s) = g
        <4>1. g \in Nat  BY <2>2, SegmentFacts
        <4> HIDE DEF mentions
        <4>2. \A h \in mentions(s) : h <= g  BY <3>1, <4>1
        <4> QED  BY <2>2, <3>1, <4>2
      <3> HIDE DEF last
      <3>3. s \in (m.used \ A) \cup B => s \in LogsOf(log[g].segs)
        <4>1. s \notin m.used \ A
          <5>1. CASE s \in ToSet(m.segs[g])  BY <2>2, <5>1 DEF LogsOf
          <5>2. CASE s \in ToSet(log[g].segs)  BY <2>2, <5>2, <1>3 DEF LogsOf
          <5> QED  BY <2>2, <5>1, <5>2
        <4>2. ASSUME NEW h \in D, s \in LogsOf(log[h].segs) PROVE h = g
          BY <4>2, <3>1 DEF LogsOf
        <4> QED  BY <4>1, <4>2
      <3>4. s \in LogsOf(log[g].segs) => s \in B  BY <2>2
      <3> QED  BY <2>2, <3>2, <3>3, <3>4 DEF LogsOf
    <2> HIDE DEF mentions, last
    <2>3. ASSUME NEW s \in LogSeg PROVE s \in bits <=> s \in (m.used \ A) \cup B
      BY <2>1, <2>2
    <2> HIDE DEF A, B
    <2> QED  BY <1>1, <1>2, <2>3
  <1> HIDE DEF bits
  <1>5. n.free = NumLog - Cardinality(n.used)
    <2>1. Listed(D, m.segs) = Cardinality(A)
      <3>1. \A g, h \in D : g # h => LogsOf(m.segs[g]) \cap LogsOf(m.segs[h]) = {}
        BY OwnFacts
      <3> QED  BY <3>1, ListedCount
    <2>2. Listed(D, new) = Cardinality(B)
      <3>1. \A g, h \in D : g # h => LogsOf(new[g]) \cap LogsOf(new[h]) = {}
        OBVIOUS
      <3> HIDE DEF new
      <3> QED  BY <3>1, ListedCount
    <2>3. Cardinality(m.used) \in Nat /\ Cardinality(A) \in Nat /\ Cardinality(B) \in Nat
      <3>1. A \in SUBSET LogSeg  BY <1>2
      <3> HIDE DEF A, B
      <3> QED  BY <1>2, <3>1, LogCount
    <2> HIDE DEF A, B, new, segs
    <2>4. Cardinality(n.used) = Cardinality(m.used) - Cardinality(A) + Cardinality(B)
      BY <1>2, <1>3, <1>4, CountSwap
    <2>5. m.free = NumLog - Cardinality(m.used) /\ NumLog \in Nat
      BY OwnFacts, HashKVAssumption
    <2> QED  BY <1>1, <2>1, <2>2, <2>3, <2>4, <2>5
  <1>6. n.used = UNION {LogsOf(n.segs[g]) : g \in Group}
    <2>1. \A g \in Group : n.segs[g] = IF g \in D THEN log[g].segs ELSE m.segs[g]  BY <1>1
    <2>2. ASSUME NEW x \in m.used \ A PROVE \E g \in Group : x \in LogsOf(n.segs[g])
      <3>1. PICK g \in Group : x \in LogsOf(m.segs[g])  BY DEF Own
      <3>2. g \notin D  BY <3>1
      <3> QED  BY <2>1, <3>1, <3>2
    <2>3. ASSUME NEW x \in B PROVE \E g \in Group : x \in LogsOf(n.segs[g])
      BY <2>1
    <2>4. ASSUME NEW g \in Group, NEW x \in LogsOf(n.segs[g]) PROVE x \in (m.used \ A) \cup B
      <3>1. CASE g \in D  BY <2>1, <3>1
      <3>2. CASE g \notin D
        <4>1. x \in LogsOf(m.segs[g])  BY <2>1, <3>2
        <4>2. x \in m.used  BY <4>1, OwnFacts
        <4>3. \A h \in D : x \notin LogsOf(m.segs[h])  BY <3>2, <4>1, OwnFacts
        <4> QED  BY <4>2, <4>3
      <3> QED  BY <3>1, <3>2
    <2> HIDE DEF A, B
    <2> QED  BY <1>4, <2>2, <2>3, <2>4
  <1>7. \A g \in Group : Shape(n.segs[g], g)  BY <1>1 DEF Own
  <1>8. Exclusive(n.segs)
    <2> SUFFICES ASSUME NEW g \in Group, NEW h \in Group, g # h
                 PROVE  LogsOf(n.segs[g]) \cap LogsOf(n.segs[h]) = {}
      BY DEF Exclusive
    <2>1. LogsOf(m.segs[g]) \cap LogsOf(m.segs[h]) = {}  BY OwnFacts
    <2>2. /\ n.segs[g] = IF g \in D THEN log[g].segs ELSE m.segs[g]
          /\ n.segs[h] = IF h \in D THEN log[h].segs ELSE m.segs[h]
      BY <1>1
    <2> QED  BY <2>1, <2>2
  <1>9. n.segs = [g \in Group |-> n.segs[g]]  BY <1>1
  <1>10. Own(n)  BY <1>1, <1>5, <1>6, <1>7, <1>8, <1>9 DEF Own
  <1> QED  BY <1>1, <1>10 DEF n

LEMMA SegmentEndsOwn ==
  ASSUME NEW m, Own(m), NEW keys
  PROVE  Own(SegmentEnds(m, keys)) /\ SegmentEnds(m, keys).segs = m.segs
  <1> DEFINE n == SegmentEnds(m, keys)
  <1>1. PICK fronts : n = [m EXCEPT !.segFront = fronts]  BY DEF SegmentEnds
  <1> HIDE DEF n
  <1>2. n = [segs |-> m.segs, front |-> m.front, segFront |-> fronts,
             used |-> m.used, free |-> m.free]
    BY <1>1 DEF Own
  <1>3. n = [segs |-> m.segs, front |-> n.front, segFront |-> n.segFront,
             used |-> m.used, free |-> m.free]
    BY <1>2
  <1>4. Own(n) /\ n.segs = m.segs  BY <1>3, FrontOnly
  <1> QED  BY <1>4 DEF n

----------------------------------------------------------------------------
(* The invariant is inductive: one lemma for each action                    *)

LEMMA NoMetaOwn ==
  Own(NoMeta) /\ \A g \in Group : NoMeta.segs[g] = <<>>
  <1>1. /\ NoMeta.segs = [g \in Group |-> <<>>] /\ NoMeta.used = {} /\ NoMeta.free = NumLog
        /\ NoMeta = [segs |-> NoMeta.segs, front |-> NoMeta.front,
                     segFront |-> NoMeta.segFront, used |-> NoMeta.used,
                     free |-> NoMeta.free]
    BY DEF NoMeta
  <1>2. \A g \in Group : NoMeta.segs[g] = <<>> /\ Shape(NoMeta.segs[g], g)
                         /\ LogsOf(NoMeta.segs[g]) = {}
    BY <1>1, LogsOfMain
  <1>3. Exclusive(NoMeta.segs)  BY <1>2 DEF Exclusive
  <1>4. NoMeta.used = UNION {LogsOf(NoMeta.segs[g]) : g \in Group}  BY <1>1, <1>2
  <1>5. NoMeta.free = NumLog - Cardinality(NoMeta.used)
    BY <1>1, FS_EmptySet, HashKVAssumption
  <1>6. NoMeta.segs = [g \in Group |-> NoMeta.segs[g]]  BY <1>1
  <1> QED  BY <1>1, <1>2, <1>3, <1>4, <1>5, <1>6 DEF Own

LEMMA InitIInv == Init => IInv
  <1> SUFFICES ASSUME Init PROVE IInv  OBVIOUS
  <1> USE DEF Init
  <1>1. Buffer  BY DEF Buffer
  <1>2. \A g \in Group : groupMeta[g].segs = <<>>  BY DEF NoGroup
  <1>3. \A g \in Group : Shape(groupMeta[g].segs, g) /\ LogsOf(groupMeta[g].segs) = {}
    BY <1>2, LogsOfMain
  <1>4. Own(meta)  BY NoMetaOwn
  <1>5. Phases  BY DEF Phases
  <1>6. Behind  BY <1>3 DEF Behind
  <1> QED  BY <1>1, <1>3, <1>4, <1>5, <1>6 DEF IInv, Running

(* Steps that leave the metadata alone, in memory and on disk.              *)
LEMMA QuietIInv ==
  ASSUME IInv,
         \/ \E g \in Group : PickGroup(g)
         \/ ReservedOverflow \/ EndOfUpdates \/ SetBatchUpdateKeyValue \/ WriteKeyBatch
         \/ WriteKeyBatchFails \/ GCGreedyInVain
         \/ \E s \in Segment : WriteSegment(s)
  PROVE  IInv'
  <1> USE DEF IInv, Running, Buffer, Phases, Behind, PickGroup, ReservedOverflow,
              EndOfUpdates, SetBatchUpdateKeyValue, WriteKeyBatch, WriteKeyBatchFails,
              GCGreedyInVain, WriteSegment, volatile, durable, history
  <1>1. Own(meta)' /\ \A g \in Group : Shape(groupMeta[g].segs, g)'  OBVIOUS
  <1>2. Buffer'  OBVIOUS
  <1>3. Phases'
    <2>1. ASSUME NEW g \in Group, PickGroup(g) PROVE Phases'  BY <2>1
    <2>2. ASSUME ReservedOverflow \/ EndOfUpdates PROVE Phases'  BY <2>2
    <2>3. ASSUME SetBatchUpdateKeyValue PROVE Phases'  BY <2>3
    <2>4. ASSUME WriteKeyBatch \/ WriteKeyBatchFails PROVE Phases'  BY <2>4
    <2>6. ASSUME GCGreedyInVain PROVE Phases'  BY <2>6
    <2>5. ASSUME NEW s \in Segment, WriteSegment(s) PROVE Phases'  BY <2>5
    <2> QED  BY <2>1, <2>2, <2>3, <2>4, <2>5, <2>6
  <1>4. Behind'  OBVIOUS
  <1>5. pc' # "down"  OBVIOUS
  <1> QED  BY <1>1, <1>2, <1>3, <1>4, <1>5

LEMMA PoolKeeps ==
  ASSUME IInv, NEW k \in Key, NEW size \in Sizes[k], PutInto(k, size)
  PROVE  /\ pool' \in Seq(Entry) /\ pending' \subseteq DOMAIN pool'
         /\ \A i \in DOMAIN pool' :
              pool'[i].key = k \/ (i \in DOMAIN pool /\ pool'[i].key = pool[i].key)
  <1>1. pool \in Seq(Entry) /\ pending \subseteq DOMAIN pool /\ puts + 1 \in Nat
        /\ size \in Nat
    BY HashKVAssumption DEF IInv, Buffer
  <1>2. CASE UpdatesInPlace(k, size)
    <2>1. pool' = [pool EXCEPT ![InPool(k)].val = puts + 1] /\ pending' = pending
      BY <1>2 DEF PutInto
    <2> DEFINE j == InPool(k)
    <2> HIDE DEF j
    <2>2. DOMAIN pool' = DOMAIN pool /\ DOMAIN pool = 1..Len(pool) /\ Len(pool) \in Nat
      BY <1>1, <2>1
    <2>3. ASSUME NEW i \in DOMAIN pool
          PROVE  pool'[i] \in Entry /\ pool'[i].key = pool[i].key
      <3>1. pool[i] \in Entry  BY <1>1, <2>2
      <3>2. CASE i = j
        <4>1. pool'[i] = [pool[i] EXCEPT !.val = puts + 1]  BY <2>1, <3>2 DEF j
        <4> QED  BY <1>1, <3>1, <4>1 DEF Entry
      <3>3. CASE i # j
        <4>1. pool'[i] = pool[i]  BY <2>1, <3>3 DEF j
        <4> QED  BY <3>1, <4>1
      <3> QED  BY <3>2, <3>3
    <2>4. pool' = [i \in 1..Len(pool) |-> pool'[i]]  BY <2>1, <2>2
    <2>5. pool' \in Seq(Entry)  BY <2>2, <2>3, <2>4
    <2> QED  BY <1>1, <2>1, <2>2, <2>3, <2>5
  <1>3. CASE ~ UpdatesInPlace(k, size)
    <2> DEFINE e == [key |-> k, val |-> puts + 1, size |-> size]
    <2>1. pool' = Append(pool, e) /\ pending' = pending \cup {Len(pool) + 1}
      BY <1>3 DEF PutInto
    <2>2. e \in Entry /\ e.key = k  BY <1>1 DEF Entry
    <2> HIDE DEF e
    <2>3. pool' \in Seq(Entry) /\ DOMAIN pool' = 1..(Len(pool) + 1)
          /\ DOMAIN pool = 1..Len(pool) /\ Len(pool) \in Nat
          /\ pool'[Len(pool) + 1] = e /\ \A i \in 1..Len(pool) : pool'[i] = pool[i]
      BY <1>1, <2>1, <2>2
    <2> QED  BY <1>1, <2>1, <2>2, <2>3
  <1> QED  BY <1>2, <1>3

(* A put may create its group.                                              *)
LEMMA PutIInv ==
  ASSUME IInv, NEW k \in Key, NEW size \in Sizes[k],
         Put(k, size) \/ FlushBeforeWrite(k, size)
  PROVE  IInv'
  <1> DEFINE g == Hash[k]
  <1>1. g \in Group /\ \A e \in Key : Hash[e] \in Group  BY HashKVAssumption
  <1>2. /\ pc = "idle" /\ pc' \in {"idle", "flush"}
        /\ meta' = GetNewMainSegment(meta, g)
        /\ cur' = cur /\ victim' = victim /\ modified' = modified
        /\ groupMeta' = groupMeta /\ updateLog' = updateLog /\ gcLog' = gcLog
        /\ puts' = puts + 1 \/ puts' = puts
    BY DEF Put, FlushBeforeWrite, durable, history
  <1>3. Running /\ Buffer /\ \A h \in Group : Shape(groupMeta[h].segs, h)
    BY <1>2 DEF IInv
  <1>4. /\ Own(meta') /\ meta'.segs[g] # <<>>
        /\ \A h \in Group : /\ LogsOf(meta'.segs[h]) = LogsOf(meta.segs[h])
                            /\ meta.segs[h] # <<>> => meta'.segs[h] = meta.segs[h]
    <2> HIDE DEF g
    <2> QED  BY <1>1, <1>2, <1>3, NewMainOwn DEF Running
  <1>5. /\ pool' \in Seq(Entry) /\ pending' \subseteq DOMAIN pool'
        /\ \A i \in DOMAIN pool' :
             pool'[i].key = k \/ (i \in DOMAIN pool /\ pool'[i].key = pool[i].key)
    <2>1. CASE Put(k, size)  BY <2>1, PoolKeeps DEF Put
    <2>2. CASE FlushBeforeWrite(k, size)
      <3>1. pool' = pool /\ pending' = pending  BY <2>2 DEF FlushBeforeWrite
      <3> QED  BY <3>1, <1>3 DEF Buffer
    <2> QED  BY <2>1, <2>2
  <1>6. \A i \in DOMAIN pool' : meta'.segs[Hash[pool'[i].key]] # <<>>
    <2> SUFFICES ASSUME NEW i \in DOMAIN pool' PROVE meta'.segs[Hash[pool'[i].key]] # <<>>
      OBVIOUS
    <2>1. CASE pool'[i].key = k  BY <2>1, <1>4
    <2>2. CASE i \in DOMAIN pool /\ pool'[i].key = pool[i].key
      <3>1. pool[i] \in Entry  BY <1>3, <2>2 DEF Buffer
      <3>2. Hash[pool[i].key] \in Group  BY <3>1, <1>1 DEF Entry
      <3>3. meta.segs[Hash[pool[i].key]] # <<>>  BY <1>3, <2>2 DEF Buffer
      <3> QED  BY <2>2, <3>2, <3>3, <1>4
    <2> QED  BY <1>5, <2>1, <2>2
  <1>7. Buffer'  BY <1>2, <1>3, <1>5, <1>6 DEF Buffer
  <1>8. Phases'  BY <1>2, <1>3 DEF Running, Phases
  <1>9. Behind'
    <2>1. victim = None  BY <1>2, <1>3 DEF Running, Phases
    <2> QED  BY <2>1, <1>2, <1>3, <1>4 DEF Running, Behind
  <1> QED  BY <1>2, <1>3, <1>4, <1>7, <1>8, <1>9 DEF IInv, Running

LEMMA CurrentHasSegments ==
  ASSUME IInv, PendingOf(cur) # {}
  PROVE  meta.segs[cur] # <<>>
  <1>1. PICK i \in pending : Hash[pool[i].key] = cur  BY DEF PendingOf
  <1> QED  BY <1>1 DEF IInv, Buffer

LEMMA FlushRecordIInv ==
  ASSUME IInv, FlushRecord
  PROVE  IInv'
  <1> DEFINE size == pool[NextUpdate(cur)].size
  <1>1. /\ pc = "flush" /\ pc' = pc /\ cur # None /\ PendingOf(cur) # {}
        /\ CanPlace(meta, cur, curFront, size)
        /\ meta' = Place(meta, cur, curFront, size).meta
        /\ pending' = pending \ {NextUpdate(cur)} /\ pool' = pool
        /\ cur' = cur /\ victim' = victim /\ modified' = modified
        /\ groupMeta' = groupMeta /\ updateLog' = updateLog /\ gcLog' = gcLog /\ puts' = puts
    BY DEF FlushRecord, history
  <1>2. Running /\ Buffer /\ \A h \in Group : Shape(groupMeta[h].segs, h)
    BY <1>1 DEF IInv
  <1>3. cur \in Group /\ victim = None  BY <1>1, <1>2 DEF Buffer, Running, Phases
  <1>4. meta.segs[cur] # <<>>  BY <1>1, CurrentHasSegments
  <1> HIDE DEF size
  <1>5. /\ Own(meta') /\ meta'.segs[cur] # <<>>
        /\ LogsOf(meta.segs[cur]) \subseteq LogsOf(meta'.segs[cur])
        /\ \A h \in Group \ {cur} : meta'.segs[h] = meta.segs[h]
    BY <1>1, <1>2, <1>3, <1>4, PlaceOwn DEF Running
  <1>6. \A e \in Entry : Hash[e.key] \in Group  BY HashKVAssumption DEF Entry
  <1>7. Buffer'
    <2>1. \A i \in DOMAIN pool : pool[i] \in Entry  BY <1>2 DEF Buffer
    <2>2. \A i \in DOMAIN pool : meta'.segs[Hash[pool[i].key]] # <<>>
      BY <1>2, <1>5, <1>6, <2>1 DEF Buffer
    <2> QED  BY <1>1, <1>2, <2>2 DEF Buffer
  <1>8. Phases'  BY <1>1, <1>2, <1>3 DEF Running, Phases
  <1>9. Behind'  BY <1>1, <1>2, <1>3, <1>5 DEF Running, Behind
  <1> QED  BY <1>1, <1>2, <1>5, <1>7, <1>8, <1>9 DEF IInv, Running

LEMMA NewFront ==
  ASSUME NEW m, Own(m), NEW g, NEW f, NEW n, n = [m EXCEPT !.front[g] = f]
  PROVE  Own(n) /\ n.segs = m.segs
  <1>1. n = [segs |-> m.segs, front |-> [m.front EXCEPT ![g] = f],
             segFront |-> m.segFront, used |-> m.used, free |-> m.free]
    BY DEF Own
  <1>2. n = [segs |-> m.segs, front |-> n.front, segFront |-> n.segFront,
             used |-> m.used, free |-> m.free]
    BY <1>1
  <1> QED  BY <1>2, FrontOnly

(* Steps that set the front of a group.                                     *)
LEMMA NewFrontIInv ==
  ASSUME IInv, LeaveGroup \/ AckBeforeGC \/ SetBatchGCKeyValue
  PROVE  IInv'
  <1>1. /\ pc \in {"flush", "ack", "rewrite"} /\ pc' \in {"flush", "gc", "gcdata"}
        /\ meta' = [meta EXCEPT !.front[cur] = curFront]
             \/ meta' = [meta EXCEPT !.front[victim] = curFront]
        /\ groupMeta' = groupMeta /\ victim' = victim /\ puts' = puts
        /\ pool' = pool /\ pending' = pending /\ cur' \in {cur, None}
    BY DEF LeaveGroup, AckBeforeGC, SetBatchGCKeyValue, durable, history
  <1>2. Running /\ Buffer /\ \A h \in Group : Shape(groupMeta[h].segs, h)
    BY <1>1 DEF IInv
  <1>3. Own(meta') /\ meta'.segs = meta.segs
    BY <1>1, <1>2, NewFront DEF Running
  <1>4. modified' \in {modified, {}}
    BY DEF LeaveGroup, AckBeforeGC, SetBatchGCKeyValue, ForgetBatch
  <1>5. Buffer'  BY <1>1, <1>2, <1>3, <1>4 DEF Buffer
  <1>6. Phases'
    <2>1. CASE LeaveGroup
      <3>1. /\ pc = "flush" /\ pc' = pc /\ updateLog' = updateLog /\ gcLog' = gcLog
            /\ modified' = modified
        BY <2>1 DEF LeaveGroup, durable
      <3> QED  BY <3>1, <1>1, <1>2 DEF Running, Phases
    <2>2. CASE AckBeforeGC
      <3>1. pc = "ack" /\ pc' = "gc" /\ updateLog' = NoLog /\ gcLog' = gcLog /\ victim = None
        BY <2>2 DEF AckBeforeGC
      <3>2. NoLog' = NoLog  BY DEF NoLog
      <3> QED  BY <3>1, <3>2, <1>1, <1>2 DEF Running, Phases
    <2>3. CASE SetBatchGCKeyValue
      <3>1. /\ pc = "rewrite" /\ pc' = "gcdata" /\ updateLog' = updateLog
            /\ modified' = modified /\ gcLog' = GroupsOf(meta', modified)
        BY <2>3 DEF SetBatchGCKeyValue
      <3>2. victim # None /\ modified = {victim} /\ updateLog = NoLog /\ meta.segs[victim] # <<>>
        BY <3>1, <1>2 DEF Running, Phases
      <3>3. DOMAIN gcLog' = {victim} /\ gcLog'[victim].segs = meta.segs[victim]
        BY <1>3, <3>1, <3>2 DEF GroupsOf
      <3> QED  BY <3>1, <3>2, <3>3, <1>1, <1>3 DEF Phases
    <2> QED  BY <2>1, <2>2, <2>3
  <1>7. Behind'  BY <1>1, <1>2, <1>3 DEF Running, Behind
  <1> QED  BY <1>1, <1>2, <1>3, <1>5, <1>6, <1>7 DEF IInv, Running

(* What a commit persists is what is in memory.                             *)
LEMMA LogMetaPersistIInv ==
  ASSUME IInv, LogMetaPersist
  PROVE  IInv'
  <1>1. /\ pc = "meta" /\ pc' = "ack" /\ meta' = meta /\ groupMeta' = Persisted(meta, modified)
        /\ pool' = pool /\ pending' = pending /\ cur' = cur /\ victim' = victim
        /\ modified' = modified /\ updateLog' = updateLog /\ gcLog' = gcLog /\ puts' = puts
    BY DEF LogMetaPersist, volatile
  <1>2. Running /\ Buffer /\ \A h \in Group : Shape(groupMeta[h].segs, h)
    BY <1>1 DEF IInv
  <1>3. \A g \in Group : groupMeta'[g].segs =
          IF g \in modified THEN meta.segs[g] ELSE groupMeta[g].segs
    BY <1>1 DEF Persisted, GroupsOf
  <1>4. \A g \in Group : Shape(groupMeta'[g].segs, g)
    BY <1>2, <1>3 DEF Running, Own
  <1>5. Buffer'  BY <1>1, <1>2 DEF Buffer
  <1>6. Phases'  BY <1>1, <1>2 DEF Running, Phases
  <1>7. Behind'
    <2>1. victim # None => victim \in Group /\ modified = {victim}
      BY <1>2 DEF Running, Phases, Buffer
    <2>2. \A g \in Group : g # victim \/ g \in modified
      BY <2>1, SegmentFacts
    <2>3. \A g \in Group : LogsOf(groupMeta'[g].segs) \subseteq LogsOf(meta.segs[g])
      BY <1>2, <1>3, <2>2 DEF Running, Behind
    <2>4. victim # None => groupMeta'[victim].segs = meta.segs[victim]  BY <1>3, <2>1
    <2>5. victim # None => \A h \in Group \ {victim} :
            LogsOf(groupMeta'[victim].segs) \cap LogsOf(meta.segs[h]) = {}
      BY <1>2, <2>1, <2>4, OwnFacts DEF Running
    <2> QED  BY <1>1, <2>3, <2>5 DEF Behind
  <1> QED  BY <1>1, <1>2, <1>4, <1>5, <1>6, <1>7 DEF IInv, Running

(* The logs are acknowledged.                                               *)
LEMMA FinishIInv ==
  ASSUME IInv, FinishFlush \/ FinishGC
  PROVE  IInv'
  <1>1. /\ pc = "ack" /\ pc' \in {"idle", "gc", "flush"} /\ meta' = meta
        /\ groupMeta' = groupMeta /\ pending' = pending /\ cur' \in {cur, None}
        /\ victim' = None /\ modified' = {} /\ puts' = puts
    BY DEF FinishFlush, FinishGC, ForgetBatch, history
  <1>2. Running /\ Buffer /\ \A h \in Group : Shape(groupMeta[h].segs, h)
    BY <1>1 DEF IInv
  <1>3. gcLog' = <<>> /\ updateLog' = NoLog
    <2>1. CASE FinishFlush
      <3>1. victim = None /\ gcLog' = gcLog /\ updateLog' = NoLog  BY <2>1 DEF FinishFlush
      <3> QED  BY <3>1, <1>2 DEF Running, Phases
    <2>2. CASE FinishGC
      <3>1. victim # None /\ gcLog' = <<>> /\ updateLog' = updateLog  BY <2>2 DEF FinishGC
      <3> QED  BY <3>1, <1>2 DEF Running, Phases
    <2> QED  BY <2>1, <2>2
  <1>4. Buffer'
    <2>1. CASE FinishGC
      <3>1. pool' = pool  BY <2>1 DEF FinishGC
      <3> QED  BY <3>1, <1>1, <1>2 DEF Buffer
    <2>2. CASE FinishFlush
      <3>1. pool' = <<>> /\ pending = {}
        BY <2>2, <1>2 DEF FinishFlush, Running, Phases
      <3> QED  BY <3>1, <1>1, <1>2 DEF Buffer
    <2> QED  BY <2>1, <2>2
  <1>5. Phases'
    <2>1. NoLog' = NoLog  BY DEF NoLog
    <2> QED  BY <2>1, <1>1, <1>3 DEF Phases
  <1>6. Behind'  BY <1>1, <1>2 DEF Running, Behind
  <1> QED  BY <1>1, <1>2, <1>4, <1>5, <1>6 DEF IInv, Running

(* Collection takes segments from one group, which alone gets new ones      *)
(* until what it has is persisted.                                          *)
LEMMA GCOneGroupIInv ==
  ASSUME IInv, NEW g \in Group, GCOneGroup(g)
  PROVE  IInv'
  <1>1. /\ pc = "gc" /\ pc' = "rewrite" /\ meta' = ReleaseGroup(meta, g)
        /\ pending' = pending \ PendingOf(g) /\ pool' = pool /\ cur' = cur
        /\ victim' = g /\ modified' = {g}
        /\ groupMeta' = groupMeta /\ updateLog' = updateLog /\ gcLog' = gcLog /\ puts' = puts
    BY DEF GCOneGroup, durable, history
  <1>2. Running /\ Buffer /\ \A h \in Group : Shape(groupMeta[h].segs, h)
    BY <1>1 DEF IInv
  <1>3. /\ Own(meta') /\ meta'.segs[g] = <<g>>
        /\ \A h \in Group \ {g} : meta'.segs[h] = meta.segs[h]
    BY <1>1, <1>2, ReleaseOwn DEF Running
  <1>4. meta'.segs[g] # <<>>  BY <1>3
  <1>5. victim = None /\ gcLog = <<>> /\ updateLog = NoLog
    BY <1>1, <1>2 DEF Running, Phases
  <1>6. \A e \in Entry : Hash[e.key] \in Group  BY HashKVAssumption DEF Entry
  <1>7. Buffer'
    <2>1. \A i \in DOMAIN pool : pool[i] \in Entry  BY <1>2 DEF Buffer
    <2>2. \A i \in DOMAIN pool : meta'.segs[Hash[pool[i].key]] # <<>>
      BY <1>2, <1>3, <1>4, <1>6, <2>1 DEF Buffer
    <2> QED  BY <1>1, <1>2, <2>2 DEF Buffer
  <1>8. Phases'
    <2>1. g # None  BY SegmentFacts
    <2>2. NoLog' = NoLog  BY DEF NoLog
    <2> QED  BY <2>1, <2>2, <1>1, <1>4, <1>5 DEF Phases
  <1>9. Behind'
    <2>1. \A h \in Group : LogsOf(groupMeta[h].segs) \subseteq LogsOf(meta.segs[h])
      BY <1>2, <1>5, SegmentFacts DEF Running, Behind
    <2>2. \A h \in Group \ {g} : LogsOf(meta.segs[g]) \cap LogsOf(meta.segs[h]) = {}
      BY <1>2, OwnFacts DEF Running
    <2> QED  BY <1>1, <1>3, <2>1, <2>2 DEF Behind
  <1> QED  BY <1>1, <1>2, <1>3, <1>7, <1>8, <1>9 DEF IInv, Running

LEMMA RewriteRecordIInv ==
  ASSUME IInv, NEW r \in survivors, RewriteRecord(r)
  PROVE  IInv'
  <1>1. /\ pc = "rewrite" /\ pc' = pc /\ CanPlace(meta, victim, curFront, r.size)
        /\ meta' = Place(meta, victim, curFront, r.size).meta
        /\ pending' = pending /\ pool' = pool /\ cur' = cur /\ victim' = victim
        /\ modified' = modified
        /\ groupMeta' = groupMeta /\ updateLog' = updateLog /\ gcLog' = gcLog /\ puts' = puts
    BY DEF RewriteRecord, durable, history
  <1>2. Running /\ Buffer /\ \A h \in Group : Shape(groupMeta[h].segs, h)
    BY <1>1 DEF IInv
  <1>3. /\ victim \in Group /\ victim # None /\ meta.segs[victim] # <<>> /\ gcLog = <<>>
        /\ updateLog = NoLog /\ modified = {victim}
    BY <1>1, <1>2 DEF Running, Phases, Buffer
  <1>4. /\ Own(meta') /\ meta'.segs[victim] # <<>>
        /\ \A h \in Group \ {victim} : meta'.segs[h] = meta.segs[h]
    BY <1>1, <1>2, <1>3, PlaceOwn DEF Running
  <1>5. \A e \in Entry : Hash[e.key] \in Group  BY HashKVAssumption DEF Entry
  <1>6. Buffer'
    <2>1. \A i \in DOMAIN pool : pool[i] \in Entry  BY <1>2 DEF Buffer
    <2>2. \A i \in DOMAIN pool : meta'.segs[Hash[pool[i].key]] # <<>>
      BY <1>2, <1>4, <1>5, <2>1 DEF Buffer
    <2> QED  BY <1>1, <1>2, <2>2 DEF Buffer
  <1>7. Phases'
    <2>1. NoLog' = NoLog  BY DEF NoLog
    <2> QED  BY <2>1, <1>1, <1>3, <1>4 DEF Phases
  <1>8. Behind'  BY <1>1, <1>2, <1>3, <1>4 DEF Running, Behind
  <1> QED  BY <1>1, <1>2, <1>4, <1>6, <1>7, <1>8 DEF IInv, Running

(* Whenever the process ends, what is durable is enough to recover from.    *)
LEMMA RunningRestorable ==
  ASSUME IInv, pc # "down"
  PROVE  Restorable
  <1>1. Running /\ Buffer  BY DEF IInv
  <1>2. \A g, h \in Group : g # h => LogsOf(meta.segs[g]) \cap LogsOf(meta.segs[h]) = {}
    BY <1>1, OwnFacts DEF Running
  <1>3. \A g \in Group : Shape(meta.segs[g], g)  BY <1>1 DEF Running, Own
  <1>4. DOMAIN <<>> = {} /\ NoLog.groups = <<>>  BY DEF NoLog
  <1>5. Fits(<<>>)  BY <1>4 DEF Fits
  <1>6. \A g \in Group \ {victim} : LogsOf(groupMeta[g].segs) \subseteq LogsOf(meta.segs[g])
    BY <1>1 DEF Running, Behind
  <1>7. CASE victim = None
    <2>1. \A g \in Group : LogsOf(groupMeta[g].segs) \subseteq LogsOf(meta.segs[g])
      BY <1>6, <1>7, SegmentFacts
    <2>2. Exclusive([g \in Group |-> groupMeta[g].segs])
      BY <1>2, <2>1 DEF Exclusive
    <2>3. gcLog = <<>> /\ (updateLog = NoLog \/ updateLog.groups = GroupsOf(meta, modified))
      BY <1>1, <1>7 DEF Running, Phases
    <2>4. ASSUME updateLog.groups = GroupsOf(meta, modified) PROVE Fits(updateLog.groups)
      <3>1. modified \subseteq Group  BY <1>1 DEF Buffer
      <3>2. /\ DOMAIN updateLog.groups = modified
            /\ \A g \in modified : updateLog.groups[g].segs = meta.segs[g]
        BY <2>4 DEF GroupsOf
      <3> QED  BY <1>2, <1>3, <2>1, <3>1, <3>2 DEF Fits
    <2> QED  BY <1>4, <1>5, <2>2, <2>3, <2>4 DEF Restorable
  <1>8. CASE victim # None
    <2>1. victim \in Group /\ updateLog = NoLog  BY <1>1, <1>8 DEF Running, Phases, Buffer
    <2>2. \A h \in Group \ {victim} :
            LogsOf(groupMeta[victim].segs) \cap LogsOf(meta.segs[h]) = {}
      BY <1>1, <1>8 DEF Running, Behind
    <2>3. Exclusive([g \in Group |-> groupMeta[g].segs])
      <3> SUFFICES ASSUME NEW g \in Group, NEW h \in Group, g # h
                   PROVE  LogsOf(groupMeta[g].segs) \cap LogsOf(groupMeta[h].segs) = {}
        BY DEF Exclusive
      <3>1. CASE g = victim  BY <3>1, <1>6, <2>2
      <3>2. CASE h = victim  BY <3>2, <1>6, <2>2
      <3>3. CASE g # victim /\ h # victim  BY <3>3, <1>2, <1>6
      <3> QED  BY <3>1, <3>2, <3>3
    <2>4. gcLog = <<>> \/ (DOMAIN gcLog = {victim} /\ gcLog[victim].segs = meta.segs[victim])
      BY <1>1, <1>8 DEF Running, Phases
    <2>5. ASSUME DOMAIN gcLog = {victim}, gcLog[victim].segs = meta.segs[victim]
          PROVE  Fits(gcLog)
      BY <2>5, <1>2, <1>3, <1>6, <2>1 DEF Fits
    <2> QED  BY <1>4, <1>5, <2>1, <2>3, <2>4, <2>5 DEF Restorable
  <1> QED  BY <1>7, <1>8

LEMMA CrashIInv ==
  ASSUME IInv, Crash
  PROVE  IInv'
  <1>1. /\ pc # "down" /\ pc' = "down" /\ pool' = <<>> /\ pending' = {} /\ meta' = NoMeta
        /\ cur' = None /\ victim' = None /\ modified' = {} /\ puts' = puts
        /\ groupMeta' = groupMeta /\ updateLog' = updateLog /\ gcLog' = gcLog
    BY DEF Crash, ForgetBatch, durable
  <1>2. Restorable'  BY <1>1, RunningRestorable DEF Restorable, Fits
  <1>3. Buffer'  BY <1>1 DEF Buffer, IInv
  <1> QED  BY <1>1, <1>2, <1>3 DEF IInv, Crashed

(* A recovery, from whichever log is there, gives each segment one owner.   *)
LEMMA RecoverIInv ==
  ASSUME IInv, Recover
  PROVE  IInv'
  <1> DEFINE base == RestoreMetaFromDB
             restored == RestoreGroups(base, updateLog.groups)
             updated == SegmentEnds(restored, updateLog.keys)
             final == RestoreGroups(updated, gcLog)
             U == DOMAIN updateLog.groups
             G == DOMAIN gcLog
  <1>1. /\ pc = "down" /\ pc' = "idle" /\ meta' = final
        /\ groupMeta' = Persisted(final, U \cup G)
        /\ updateLog' = NoLog /\ gcLog' = <<>>
        /\ pool' = pool /\ pending' = pending /\ cur' = cur /\ victim' = victim
        /\ modified' = modified /\ puts' = puts
    BY DEF Recover
  <1>2. /\ Restorable /\ Buffer /\ pool = <<>> /\ victim = None
        /\ \A g \in Group : Shape(groupMeta[g].segs, g)
    BY <1>1 DEF IInv, Crashed
  <1>3. Own(base) /\ base.segs = [g \in Group |-> groupMeta[g].segs]
    BY <1>2, RestoreMetaOwn DEF Restorable
  <1> HIDE DEF base
  <1>4. /\ Own(restored)
        /\ restored.segs =
             [g \in Group |-> IF g \in U THEN updateLog.groups[g].segs ELSE base.segs[g]]
    <2> DEFINE log == updateLog.groups
    <2>1. Fits(log)  BY <1>2 DEF Restorable
    <2> HIDE DEF log
    <2>2. \A h \in Group : base.segs[h] = groupMeta[h].segs  BY <1>3
    <2>3. /\ DOMAIN log \subseteq Group
          /\ \A g \in DOMAIN log :
               /\ Shape(log[g].segs, g)
               /\ \A h \in Group \ {g} : LogsOf(log[g].segs) \cap LogsOf(base.segs[h]) = {}
               /\ \A h \in DOMAIN log \ {g} :
                    LogsOf(log[g].segs) \cap LogsOf(log[h].segs) = {}
      BY <2>1, <2>2 DEF Fits
    <2>4. /\ Own(RestoreGroups(base, log))
          /\ RestoreGroups(base, log).segs =
               [g \in Group |-> IF g \in DOMAIN log THEN log[g].segs ELSE base.segs[g]]
      BY <1>3, <2>3, RestoreGroupsOwn
    <2> QED  BY <2>4 DEF log
  <1> HIDE DEF restored
  <1>5. Own(updated) /\ updated.segs = restored.segs  BY <1>4, SegmentEndsOwn
  <1> HIDE DEF updated
  <1>6. \A g \in G : \A h \in Group \ {g} :
          LogsOf(gcLog[g].segs) \cap LogsOf(updated.segs[h]) = {}
    <2> SUFFICES ASSUME NEW g \in G, NEW h \in Group \ {g}
                 PROVE  LogsOf(gcLog[g].segs) \cap LogsOf(updated.segs[h]) = {}
      OBVIOUS
    <2>1. U = {}  BY <1>2 DEF Restorable
    <2>2. updated.segs[h] = groupMeta[h].segs  BY <1>3, <1>4, <1>5, <2>1
    <2> QED  BY <1>2, <2>2 DEF Restorable, Fits
  <1>7. /\ Own(final)
        /\ final.segs = [g \in Group |-> IF g \in G THEN gcLog[g].segs ELSE updated.segs[g]]
    <2>1. Fits(gcLog)  BY <1>2 DEF Restorable
    <2>2. /\ DOMAIN gcLog \subseteq Group
          /\ \A g \in DOMAIN gcLog :
               /\ Shape(gcLog[g].segs, g)
               /\ \A h \in Group \ {g} :
                    LogsOf(gcLog[g].segs) \cap LogsOf(updated.segs[h]) = {}
               /\ \A h \in DOMAIN gcLog \ {g} :
                    LogsOf(gcLog[g].segs) \cap LogsOf(gcLog[h].segs) = {}
      BY <1>6, <2>1 DEF Fits
    <2> QED  BY <1>5, <2>2, RestoreGroupsOwn
  <1> HIDE DEF final
  <1>8. \A g \in Group : groupMeta'[g].segs = final.segs[g]
    <2>1. \A g \in Group : groupMeta'[g].segs =
            IF g \in U \cup G THEN final.segs[g] ELSE groupMeta[g].segs
      BY <1>1 DEF Persisted, GroupsOf
    <2>2. \A g \in Group : g \notin U \cup G => final.segs[g] = groupMeta[g].segs
      BY <1>3, <1>4, <1>5, <1>7
    <2> QED  BY <2>1, <2>2
  <1>9. \A g \in Group : Shape(groupMeta'[g].segs, g)  BY <1>7, <1>8 DEF Own
  <1>10. Buffer'  BY <1>1, <1>2 DEF Buffer
  <1>11. Phases'
    <2>1. NoLog' = NoLog  BY DEF NoLog
    <2> QED  BY <2>1, <1>1, <1>2 DEF Phases
  <1>12. Behind'  BY <1>1, <1>2, <1>8 DEF Behind
  <1> QED  BY <1>1, <1>7, <1>9, <1>10, <1>11, <1>12 DEF IInv, Running

LEMMA NextIInv ==
  ASSUME IInv, [Next]_vars
  PROVE  IInv'
  <1>1. CASE UNCHANGED vars
    BY <1>1 DEF IInv, Buffer, Running, Crashed, Phases, Behind, Restorable, Fits,
               vars, volatile, durable, history
  <1>2. ASSUME NEW k \in Key, NEW s \in Sizes[k], Put(k, s) \/ FlushBeforeWrite(k, s)
        PROVE  IInv'
    BY <1>2, PutIInv
  <1>3. ASSUME NEW g \in Group, PickGroup(g) PROVE IInv'  BY <1>3, QuietIInv
  <1>4. ASSUME NEW g \in Group, GCOneGroup(g) PROVE IInv'  BY <1>4, GCOneGroupIInv
  <1>5. ASSUME NEW r \in survivors, RewriteRecord(r) PROVE IInv'  BY <1>5, RewriteRecordIInv
  <1>6. CASE FlushRecord  BY <1>6, FlushRecordIInv
  <1>7. CASE LeaveGroup \/ AckBeforeGC \/ SetBatchGCKeyValue  BY <1>7, NewFrontIInv
  <1>8. CASE ReservedOverflow \/ EndOfUpdates \/ SetBatchUpdateKeyValue \/ WriteKeyBatch
             \/ WriteKeyBatchFails \/ GCGreedyInVain
    BY <1>8, QuietIInv
  <1>9. CASE LogMetaPersist  BY <1>9, LogMetaPersistIInv
  <1>10. CASE FinishFlush \/ FinishGC  BY <1>10, FinishIInv
  <1>11. ASSUME NEW s \in Segment, WriteSegment(s) PROVE IInv'  BY <1>11, QuietIInv
  <1>12. CASE Crash  BY <1>12, CrashIInv
  <1>13. CASE Recover  BY <1>13, RecoverIInv
  <1> QED
    BY <1>1, <1>2, <1>3, <1>4, <1>5, <1>6, <1>7, <1>8, <1>9, <1>10, <1>11, <1>12, <1>13
    DEF Next

----------------------------------------------------------------------------
(* The results                                                              *)

LEMMA Inductive == Spec => []IInv
  <1>1. IInv /\ [Next]_vars => IInv'  BY NextIInv
  <1> QED  BY <1>1, InitIInv, PTL DEF Spec

LEMMA IInvExclusive == IInv => SegmentsExclusive
  <1> SUFFICES ASSUME IInv, pc # "down" PROVE SegmentsExclusive
    BY DEF SegmentsExclusive
  <1>1. Own(meta)  BY DEF IInv, Running
  <1>2. ASSUME NEW g \in Group PROVE ToSet(meta.segs[g]) \subseteq {g} \cup LogSeg
    <2>1. Shape(meta.segs[g], g)  BY <1>1 DEF Own
    <2>2. /\ meta.segs[g] \in Seq(Segment)
          /\ \A i \in DOMAIN meta.segs[g] : meta.segs[g][i] = g \/ meta.segs[g][i] \in LogSeg
      <3>1. CASE meta.segs[g] = <<>>  BY <2>1, <3>1 DEF Shape
      <3>2. CASE meta.segs[g] # <<>>  BY <2>1, <3>2 DEF Shape
      <3> QED  BY <3>1, <3>2
    <2> QED  BY <2>2 DEF ToSet
  <1>3. ASSUME NEW g \in Group, NEW h \in Group, g # h
        PROVE  ToSet(meta.segs[g]) \cap ToSet(meta.segs[h]) = {}
    <2>1. LogsOf(meta.segs[g]) \cap LogsOf(meta.segs[h]) = {}  BY <1>1, <1>3, OwnFacts
    <2> QED  BY <1>2, <1>3, <2>1, SegmentFacts DEF LogsOf
  <1>4. meta.used = UNION {ToSet(meta.segs[g]) \cap LogSeg : g \in Group}
    BY <1>1 DEF Own, LogsOf
  <1>5. meta.free = NumLog - Cardinality(meta.used)  BY <1>1 DEF Own
  <1> QED  BY <1>3, <1>4, <1>5 DEF SegmentsExclusive

(* Whatever the number of groups, segments, records and crashes, no two     *)
(* groups of HashKV share a segment, the bitmap marks exactly the log       *)
(* segments that are listed, and _freeLogSegment counts the others.         *)
THEOREM SegmentsHaveOneOwner == Spec => []SegmentsExclusive
  <1>1. IInv => SegmentsExclusive  BY IInvExclusive
  <1> QED  BY <1>1, Inductive, PTL

(* At every step of a flush and of a collection the persisted metadata,     *)
(* with the one log that is there, gives no segment to two groups: the      *)
(* process may end at any moment.                                           *)
THEOREM AlwaysRestorable == Spec => []Restorable
  <1>1. IInv => Restorable
    <2>1. ASSUME IInv, pc = "down" PROVE Restorable  BY <2>1 DEF IInv, Crashed
    <2> QED  BY <2>1, RunningRestorable
  <1> QED  BY <1>1, Inductive, PTL

(* The mode LOG_ONLY of getGCMode, although it is the configured one, is    *)
(* never chosen: its ratio is not below that of ALL for any front.          *)
THEOREM LogOnlyNeverChosen == \A f \in Nat : GetGCMode(f) = "ALL"
  <1> SUFFICES ASSUME NEW f \in Nat PROVE AtMost(RatioAll(f), RatioLogOnly(f))
    BY DEF GetGCMode
  <1>1. MainSize \in Nat \ {0}  BY HashKVAssumption
  <1>2. CASE RatioLogOnly(f) = MaxRatio  BY <1>2 DEF AtMost, MaxRatio
  <1>3. CASE RatioLogOnly(f) # MaxRatio
    <2> DEFINE x == f - MainSize
               inv == (2 * f - 3 * MainSize) \div 2
    <2>1. 2 * f > 3 * MainSize /\ RatioLogOnly(f) = <<x, inv>>
      BY <1>3 DEF RatioLogOnly
    <2>2. x \in Nat \ {0} /\ inv \in Nat /\ 2 * inv <= 2 * x - MainSize
      BY <1>1, <2>1
    <2>3. RatioAll(f) = <<MainSize, x>>  BY <1>1, <2>1 DEF RatioAll
    <2> HIDE DEF x, inv
    <2>4. MainSize * (2 * inv) <= MainSize * (2 * x - MainSize)  BY <1>1, <2>2
    <2>5. (x - MainSize) * (x - MainSize) >= 0 /\ x * x >= 0  BY <1>1, <2>2
    <2>6. MainSize * inv <= x * x  BY <1>1, <2>2, <2>4, <2>5
    <2> QED  BY <2>1, <2>2, <2>3, <2>6 DEF AtMost
  <1> QED  BY <1>2, <1>3

----------------------------------------------------------------------------
(* Bounds: how far segments and groups can be filled                        *)

Cap(s) == IF s \in Group THEN MainSize ELSE LogSize

\* the space of a group with a list of segments
Room(segs) == IF segs = <<>> THEN 0 ELSE MainSize + (Len(segs) - 1) * LogSize

Distinct(segs) == \A i, j \in 1..Len(segs) : segs[i] = segs[j] => i = j

\* a group's entry, in memory or persisted: its front lies in its segments
Fitting(f, segs) == f \in Nat /\ f <= Room(segs) /\ Distinct(segs)

MetaFits(m) ==
  /\ m.front = [g \in Group |-> m.front[g]] /\ m.segFront = [s \in Segment |-> m.segFront[s]]
  /\ \A g \in Group : Fitting(m.front[g], m.segs[g])
  /\ \A s \in Segment : m.segFront[s] \in Nat /\ m.segFront[s] <= Cap(s)

Rec == Record

Loc == {l \in [seg : Segment, off : Nat, size : 1..LogSize] : l.off + l.size <= Cap(l.seg)}

KeyLoc == [key : Key, loc : Loc]

Kept == [off : Nat, size : 1..LogSize, key : Key, val : 1..MaxPuts]

Records ==
  /\ pool \in Seq(Rec) /\ survivors \subseteq Rec /\ curSize \in 0..LogSize
  /\ puts \in 0..MaxPuts
  /\ \A u \in unwritten : u.rec \in Rec /\ u.loc \in Loc /\ u.loc.size = u.rec.size

OnDisk ==
  /\ disk = [s \in Segment |-> disk[s]]
  /\ \A s \in Segment : \A r \in disk[s] : r \in Kept /\ r.off + r.size <= Cap(s)

Locations ==
  /\ batch \in Seq(KeyLoc) /\ updateLog.keys \in Seq(KeyLoc)
  /\ lsm \in [Key -> Loc \cup {Nowhere}]
  /\ touched \subseteq Segment

\* the flush has its own front of the group it is at, as has a collection
Flushing == cur # None /\ victim = None /\ pc \in {"flush", "log", "keys", "meta", "ack"}

MemoryFits ==
  /\ MetaFits(meta)
  /\ pc = "down" => meta = NoMeta
  /\ pc \in {"idle", "down"} => cur = None
  /\ pc = "gc" \/ victim # None => cur # None
  /\ curFront \in Fronts
  /\ Flushing => curFront <= Room(meta.segs[cur])
  /\ pc = "rewrite" => curFront <= Room(meta.segs[victim])

DurableFits ==
  /\ groupMeta = [g \in Group |-> [front |-> groupMeta[g].front, segs |-> groupMeta[g].segs]]
  /\ \A g \in Group : Fitting(groupMeta[g].front, groupMeta[g].segs)
  /\ segMeta = [s \in Segment |-> segMeta[s]]
  /\ \A s \in Segment : segMeta[s] \in Nat /\ segMeta[s] <= Cap(s)
  /\ \A g \in DOMAIN updateLog.groups :
       Fitting(updateLog.groups[g].front, updateLog.groups[g].segs)
  /\ \A g \in DOMAIN gcLog : Fitting(gcLog[g].front, gcLog[g].segs)

Control ==
  /\ pc \in {"idle", "flush", "log", "keys", "meta", "ack", "gc", "rewrite", "gcdata", "down"}
  /\ faults \in 0..MaxFaults /\ exposed \subseteq Group /\ torn \subseteq Group
  /\ unranked \subseteq Group

HeapFits ==
  /\ heap = [front |-> heap.front, ordered |-> heap.ordered]
  /\ heap.front \in [Group -> Fronts \cup {None}] /\ heap.ordered \in BOOLEAN

\* RecordsFit is about constants; it is here so that the lemmas can use it
Bounds ==
  /\ RecordsFit
  /\ Records /\ OnDisk /\ Locations /\ MemoryFits /\ DurableFits /\ Control /\ HeapFits

----------------------------------------------------------------------------
(* Arithmetic                                                               *)

LEMMA SizeFacts ==
  /\ MainSize \in Nat \ {0} /\ LogSize \in Nat \ {0} /\ NumLog \in Nat
  /\ \A s : Cap(s) \in {MainSize, LogSize}
  BY HashKVAssumption DEF Cap

LEMMA Division ==
  ASSUME NEW x \in Nat, NEW L \in Nat \ {0}
  PROVE  /\ x % L \in 0..(L - 1) /\ x \div L \in Nat
         /\ x = L * (x \div L) + (x % L)
  OBVIOUS

LEMMA SmallModulo ==
  ASSUME NEW L \in Nat \ {0}
  PROVE  L % L = 0 /\ \A x \in 0..(L - 1) : x % L = x
  OBVIOUS

(* What is not a multiple of L below n * L is in a block below n * L.       *)
LEMMA BlockBelow ==
  ASSUME NEW L \in Nat \ {0}, NEW n \in Nat, NEW x \in Nat, x <= n * L, x % L # 0
  PROVE  x - (x % L) + L <= n * L
  <1> DEFINE q == x \div L
             r == x % L
  <1>0. x % L \in 0..(L - 1) /\ x \div L \in Nat /\ x = L * (x \div L) + (x % L)
    BY Division
  <1>1. q \in Nat /\ r \in 1..(L - 1) /\ x = L * q + r  BY <1>0
  <1> HIDE DEF q, r
  <1>2. q < n
    <2> SUFFICES ASSUME q >= n PROVE FALSE  BY <1>1
    <2>1. (q - n) * L >= 0  BY <1>1
    <2> QED  BY <1>1, <2>1
  <1>3. (n - (q + 1)) * L >= 0  BY <1>1, <1>2
  <1>4. x - r + L <= n * L  BY <1>1, <1>3
  <1> QED  BY <1>4 DEF r

LEMMA ModuloOfBlock ==
  ASSUME NEW L \in Nat \ {0}, NEW n \in Nat, NEW r \in 0..(L - 1)
  PROVE  (n * L + r) % L = r
  <1> DEFINE x == n * L + r
             q == x \div L
             m == x % L
             a == n * L
             b == L * q
  <1>1. x \in Nat  OBVIOUS
  <1> HIDE DEF x
  <1>2. m \in 0..(L - 1) /\ q \in Nat /\ x = b + m  BY <1>1, Division
  <1> HIDE DEF q, m
  <1>3. a \in Nat /\ b \in Nat /\ a + r = b + m  BY <1>2 DEF x
  <1>4. ASSUME q < n PROVE b + L <= a
    <2>1. (n - q - 1) * L >= 0  BY <1>2, <1>4
    <2> QED  BY <1>2, <2>1
  <1>5. ASSUME q > n PROVE a + L <= b
    <2>1. (q - n - 1) * L >= 0  BY <1>2, <1>5
    <2> QED  BY <1>2, <2>1
  <1>6. q = n => a = b  OBVIOUS
  <1> HIDE DEF a, b
  <1>7. m = r  BY <1>2, <1>3, <1>4, <1>5, <1>6
  <1> QED  BY <1>7 DEF m, x

(* Room and lists of segments                                               *)
LEMMA RoomFacts ==
  ASSUME NEW segs \in Seq(Segment)
  PROVE  /\ Room(segs) \in Nat
         /\ segs # <<>> => Len(segs) \in Nat \ {0} /\ Room(segs) = MainSize + (Len(segs) - 1) * LogSize
         /\ Len(segs) = 1 => Room(segs) = MainSize
         /\ segs # <<>> => MainSize <= Room(segs)
  <1>1. Len(segs) \in Nat /\ (segs # <<>> => Len(segs) >= 1)  OBVIOUS
  <1>2. MainSize \in Nat /\ LogSize \in Nat  BY SizeFacts
  <1>3. segs # <<>> => (Len(segs) - 1) * LogSize \in Nat
    BY <1>1, <1>2
  <1>4. Len(segs) = 1 => segs # <<>> /\ (Len(segs) - 1) * LogSize = 0  BY <1>1, <1>2
  <1> QED  BY <1>1, <1>2, <1>3, <1>4 DEF Room

LEMMA RoomOfAppend ==
  ASSUME NEW segs \in Seq(Segment), segs # <<>>, NEW x \in Segment
  PROVE  Room(Append(segs, x)) = Room(segs) + LogSize
  <1>1. Len(segs) \in Nat \ {0} /\ Len(Append(segs, x)) = Len(segs) + 1 /\ Append(segs, x) # <<>>
        /\ Append(segs, x) \in Seq(Segment)
    OBVIOUS
  <1>2. MainSize \in Nat /\ LogSize \in Nat  BY SizeFacts
  <1>3. (Len(segs) + 1 - 1) * LogSize = (Len(segs) - 1) * LogSize + LogSize  BY <1>1, <1>2
  <1>4. Room(Append(segs, x)) = MainSize + (Len(segs) + 1 - 1) * LogSize
    BY <1>1 DEF Room
  <1>5. Room(segs) = MainSize + (Len(segs) - 1) * LogSize  BY DEF Room
  <1> QED  BY <1>1, <1>2, <1>3, <1>4, <1>5

LEMMA DistinctAppend ==
  ASSUME NEW segs \in Seq(Segment), Distinct(segs), NEW x \in Segment, x \notin ToSet(segs)
  PROVE  Distinct(Append(segs, x))
  <1>1. /\ Len(segs) \in Nat /\ Len(Append(segs, x)) = Len(segs) + 1
        /\ Append(segs, x)[Len(segs) + 1] = x
        /\ \A i \in 1..Len(segs) : Append(segs, x)[i] = segs[i]
    OBVIOUS
  <1>2. \A i \in 1..Len(segs) : segs[i] # x  BY DEF ToSet
  <1> SUFFICES ASSUME NEW i \in 1..(Len(segs) + 1), NEW j \in 1..(Len(segs) + 1),
                      Append(segs, x)[i] = Append(segs, x)[j]
               PROVE  i = j
    BY <1>1 DEF Distinct
  <1>3. CASE i = Len(segs) + 1  BY <1>1, <1>2, <1>3
  <1>4. CASE j = Len(segs) + 1  BY <1>1, <1>2, <1>4
  <1>5. CASE i \in 1..Len(segs) /\ j \in 1..Len(segs)  BY <1>1, <1>5 DEF Distinct
  <1> QED  BY <1>1, <1>3, <1>4, <1>5

(* A list of different segments of one group is no longer than the number   *)
(* of segments.                                                             *)
LEMMA ListBounded ==
  ASSUME NEW g \in Group, NEW segs, Shape(segs, g), Distinct(segs)
  PROVE  Len(segs) \in 0..(NumLog + 1) /\ Room(segs) \in Fronts
  <1>0. segs \in Seq(Segment) /\ Len(segs) \in Nat  BY DEF Shape
  <1>1. Len(segs) <= NumLog + 1
    <2> DEFINE S == {g} \cup LogSeg
    <2>1. \A i \in 1..Len(segs) : segs[i] \in S
      <3>1. CASE segs = <<>>  BY <3>1
      <3>2. CASE segs # <<>>  BY <1>0, <3>2 DEF Shape
      <3> QED  BY <3>1, <3>2
    <2>2. IsFiniteSet(S) /\ Cardinality(S) = NumLog + 1
      <3>1. g \notin LogSeg /\ IsFiniteSet(LogSeg) /\ Cardinality(LogSeg) = NumLog
        BY SegmentFacts
      <3>2. IsFiniteSet(LogSeg \cup {g}) /\ Cardinality(LogSeg \cup {g}) = Cardinality(LogSeg) + 1
        BY <3>1, FS_AddElement
      <3>3. S = LogSeg \cup {g}  OBVIOUS
      <3> QED  BY <3>1, <3>2, <3>3
    <2> DEFINE f == [i \in 1..Len(segs) |-> segs[i]]
    <2>3. f \in Injection(1..Len(segs), S)
      BY <2>1 DEF Injection, IsInjective, Distinct
    <2>4. IsFiniteSet(1..Len(segs)) /\ Cardinality(1..Len(segs)) = Len(segs)
      <3>1. IsFiniteSet(1..Len(segs)) /\ Cardinality(1..Len(segs)) =
              IF 1 > Len(segs) THEN 0 ELSE Len(segs) - 1 + 1
        BY <1>0, FS_Interval
      <3> QED  BY <1>0, <3>1
    <2> HIDE DEF S, f
    <2>5. Cardinality(1..Len(segs)) <= Cardinality(S)
      BY <2>2, <2>3, FS_Injection
    <2> QED  BY <2>2, <2>4, <2>5
  <1>2. MainSize \in Nat \ {0} /\ LogSize \in Nat \ {0} /\ NumLog \in Nat  BY SizeFacts
  <1>3. Room(segs) \in Fronts
    <2>1. CASE segs = <<>>
      <3>1. NumLog * LogSize \in Nat  BY <1>2
      <3> QED  BY <2>1, <1>2, <3>1 DEF Room, Fronts
    <2>2. CASE segs # <<>>
      <3>1. Room(segs) = MainSize + (Len(segs) - 1) * LogSize /\ Len(segs) - 1 \in 0..NumLog
        BY <1>0, <1>1, <1>2, <2>2, RoomFacts
      <3>2. (NumLog - (Len(segs) - 1)) * LogSize >= 0 /\ (Len(segs) - 1) * LogSize >= 0
        BY <1>0, <1>2, <3>1
      <3>3. (Len(segs) - 1) * LogSize <= NumLog * LogSize  BY <1>0, <1>2, <3>1, <3>2
      <3>4. (Len(segs) - 1) * LogSize \in Nat /\ NumLog * LogSize \in Nat  BY <1>0, <1>2, <3>1
      <3> QED  BY <3>1, <3>3, <3>4, <1>2 DEF Fronts
    <2> QED  BY <2>1, <2>2
  <1> QED  BY <1>0, <1>1, <1>2, <1>3

----------------------------------------------------------------------------
(* Where Place puts a record                                                *)

InMain(m, g, f, size, p) ==
  /\ Len(m.segs[g]) = 1 /\ p.meta.segs = m.segs
  /\ p.loc.seg = g /\ p.loc.off = f /\ f + size <= MainSize
  /\ p.front = f + size

InLast(m, g, f, size, p) ==
  /\ Len(m.segs[g]) > 1 /\ p.meta.segs = m.segs
  /\ p.loc.seg \in LogSeg /\ p.loc.off = (f - MainSize) % LogSize /\ f > MainSize
  /\ p.loc.off # 0 /\ p.loc.off + size <= LogSize
  /\ p.front = f + size

InFresh(m, g, f, size, p) ==
  /\ p.loc.seg \in LogSeg \ m.used /\ p.loc.off = 0
  /\ p.meta.segs = [m.segs EXCEPT ![g] = Append(m.segs[g], p.loc.seg)]
  /\ \/ f <= MainSize /\ p.front = MainSize + size
     \/ f > MainSize /\ (f - MainSize) % LogSize = 0 /\ p.front = f + size
     \/ /\ f > MainSize /\ (f - MainSize) % LogSize # 0
        /\ p.front = f + (LogSize - ((f - MainSize) % LogSize)) + size

LEMMA LastFront ==
  ASSUME NEW f \in Nat
  PROVE  /\ f < MainSize => GetLastSegmentFront(f) = f
         /\ f = MainSize => GetLastSegmentFront(f) = 0
         /\ f > MainSize =>
              /\ (f - MainSize) % LogSize \in 0..(LogSize - 1)
              /\ GetLastSegmentFront(f) =
                   IF (f - MainSize) % LogSize = 0 THEN LogSize ELSE (f - MainSize) % LogSize
              /\ (f - MainSize) % LogSize = 0 => GetLastSegmentFront(f) % LogSize = 0
  <1>1. MainSize \in Nat \ {0} /\ LogSize \in Nat \ {0}  BY SizeFacts
  <1>2. f < MainSize => f % MainSize = f  BY <1>1, SmallModulo
  <1>3. MainSize % MainSize = 0 /\ LogSize % LogSize = 0  BY <1>1, SmallModulo
  <1>4. f > MainSize => (f - MainSize) % LogSize \in 0..(LogSize - 1)
    <2> SUFFICES ASSUME f > MainSize PROVE (f - MainSize) % LogSize \in 0..(LogSize - 1)
      OBVIOUS
    <2>1. f - MainSize \in Nat  BY <1>1
    <2> QED  BY <1>1, <2>1, Division
  <1> QED  BY <1>1, <1>2, <1>3, <1>4 DEF GetLastSegmentFront

LEMMA ListFacts ==
  ASSUME NEW g \in Group, NEW segs, Shape(segs, g), segs # <<>>
  PROVE  /\ segs \in Seq(Segment) /\ Len(segs) \in Nat \ {0}
         /\ Last(segs) \in Segment
         /\ Len(segs) = 1 => Last(segs) = g /\ segs = <<g>>
         /\ Len(segs) > 1 => Last(segs) \in LogSeg
         /\ Tail(segs) = <<>> <=> Len(segs) = 1
         /\ Last(segs) \in ToSet(segs)
  <1>1. segs \in Seq(Segment) /\ segs[1] = g /\ \A i \in 2..Len(segs) : segs[i] \in LogSeg
    BY DEF Shape
  <1>2. Len(segs) \in Nat \ {0} /\ Tail(segs) \in Seq(Segment) /\ Len(Tail(segs)) = Len(segs) - 1
    BY <1>1
  <1>3. Tail(segs) = <<>> <=> Len(segs) = 1
    <2> DEFINE t == Tail(segs)
    <2>1. t \in Seq(Segment) /\ Len(t) = Len(segs) - 1  BY <1>2
    <2> HIDE DEF t
    <2>0. \A q \in Seq(Segment) : q = <<>> <=> Len(q) = 0  OBVIOUS
    <2>2. t = <<>> <=> Len(t) = 0  BY <2>0, <2>1, Zenon
    <2>3. Len(segs) \in Nat  BY <1>2
    <2>4. Len(t) = 0 <=> Len(segs) = 1  BY <2>1, <2>3
    <2> QED  BY <2>2, <2>4 DEF t
  <1>4. Len(segs) = 1 => segs = <<g>>  BY <1>1
  <1>5. Len(segs) \in 1..Len(segs) /\ DOMAIN segs = 1..Len(segs)  BY <1>1, <1>2
  <1> QED  BY <1>1, <1>2, <1>3, <1>4, <1>5 DEF Last, ToSet

\* what a placement leaves behind
Placement(m, g, f, size, p) ==
  /\ p.loc = [seg |-> p.loc.seg, off |-> p.loc.off, size |-> size]
  /\ p.loc.seg = Last(p.meta.segs[g]) /\ p.meta.front = m.front
  /\ p.meta.segFront = [m.segFront EXCEPT ![p.loc.seg] = p.loc.off + size]
  /\ InMain(m, g, f, size, p) \/ InLast(m, g, f, size, p) \/ InFresh(m, g, f, size, p)

LEMMA PlaceCases ==
  ASSUME NEW m, Own(m), MetaFits(m), NEW g \in Group, m.segs[g] # <<>>,
         NEW f \in Nat, f <= Room(m.segs[g]), NEW size \in 1..LogSize,
         CanPlace(m, g, f, size), NEW p, p = Place(m, g, f, size)
  PROVE  /\ Placement(m, g, f, size, p)
         /\ FitsMain(m, g, f, size) => InMain(m, g, f, size, p)
  <1> USE DEF Placement
  <1> DEFINE segs == m.segs[g]
             fresh == NeedsSegment(m, g, f, size)
             grown == IF fresh THEN GetNewLogSegment(m, g) ELSE m
             start == CASE ~ fresh -> f
                        [] fresh /\ f <= MainSize -> MainSize
                        [] OTHER -> f + (LogSize - GetLastSegmentFront(f))
             off   == IF fresh THEN 0 ELSE GetLastSegmentFront(f)
             seg   == Last(grown.segs[g])
  <1>1. /\ p.loc = [seg |-> seg, off |-> off, size |-> size]
        /\ p.front = start + size
        /\ p.meta = [grown EXCEPT !.segFront[seg] = off + size]
    BY DEF Place
  <1>2. /\ Shape(segs, g) /\ segs \in Seq(Segment) /\ Len(segs) \in Nat \ {0}
        /\ Len(segs) = 1 => Last(segs) = g
        /\ Len(segs) > 1 => Last(segs) \in LogSeg
        /\ LogSegments(m, g) = <<>> <=> Len(segs) = 1
    BY ListFacts DEF Own, LogSegments
  <1>3. MainSize \in Nat \ {0} /\ LogSize \in Nat \ {0}  BY SizeFacts
  <1>4. Room(segs) = MainSize + (Len(segs) - 1) * LogSize /\ Room(segs) \in Nat
        /\ (Len(segs) = 1 => Room(segs) = MainSize)
    BY <1>2, RoomFacts
  <1>5. m = [segs |-> m.segs, front |-> m.front, segFront |-> m.segFront,
             used |-> m.used, free |-> m.free]
        /\ DOMAIN m.segs = Group
    BY DEF Own
  <1>6. fresh => LogSeg \ m.used # {}  BY DEF CanPlace
  <1>7. /\ grown.front = m.front /\ grown.segFront = m.segFront
        /\ grown.segs = IF fresh THEN [m.segs EXCEPT ![g] = Append(segs, FirstFree(m))] ELSE m.segs
        /\ grown = [segs |-> grown.segs, front |-> grown.front, segFront |-> grown.segFront,
                    used |-> grown.used, free |-> grown.free]
    BY <1>5 DEF GetNewLogSegment
  <1> HIDE DEF grown
  <1>8. /\ p.meta.segs = grown.segs /\ p.meta.front = m.front
        /\ p.meta.segFront = [m.segFront EXCEPT ![seg] = off + size]
    <2>1. p.meta = [segs |-> grown.segs, front |-> grown.front,
                    segFront |-> [grown.segFront EXCEPT ![seg] = off + size],
                    used |-> grown.used, free |-> grown.free]
      BY <1>1, <1>7
    <2> QED  BY <1>7, <2>1
  <1>9. /\ p.loc.seg = seg /\ p.loc.off = off
        /\ p.loc = [seg |-> p.loc.seg, off |-> p.loc.off, size |-> size]
    BY <1>1
  <1>10. CASE fresh
    <2>1. FirstFree(m) \in LogSeg \ m.used  BY <1>6, <1>10, FirstFreeFree
    <2>2. grown.segs[g] = Append(segs, FirstFree(m))  BY <1>5, <1>7, <1>10
    <2>3. Append(segs, FirstFree(m))[Len(segs) + 1] = FirstFree(m)
          /\ Len(Append(segs, FirstFree(m))) = Len(segs) + 1
      BY <1>2, <2>1, SegmentFacts
    <2>4. seg = FirstFree(m)  BY <2>2, <2>3 DEF Last
    <2>5. \/ f <= MainSize /\ start = MainSize
          \/ f > MainSize /\ (f - MainSize) % LogSize = 0 /\ start = f
          \/ /\ f > MainSize /\ (f - MainSize) % LogSize # 0
             /\ start = f + (LogSize - ((f - MainSize) % LogSize))
      BY <1>3, <1>10, LastFront
    <2>6. off = 0  BY <1>10
    <2> HIDE DEF fresh, start, off, seg
    <2>7. InFresh(m, g, f, size, p)
      BY <1>1, <1>7, <1>8, <1>9, <1>10, <2>1, <2>4, <2>5, <2>6 DEF InFresh
    <2>8. ~ FitsMain(m, g, f, size)  BY <1>10 DEF fresh, NeedsSegment
    <2> QED  BY <1>8, <1>9, <2>7, <2>8 DEF seg
  <1>11. CASE ~fresh
    <2>1. grown.segs = m.segs /\ seg = Last(segs) /\ start = f /\ off = GetLastSegmentFront(f)
      BY <1>7, <1>11
    <2>2. FitsMain(m, g, f, size) \/ FitsLastLog(f, size)  BY <1>11 DEF NeedsSegment
    <2> HIDE DEF fresh, start, off, seg
    <2>3. CASE FitsMain(m, g, f, size)
      <3>1. Len(segs) = 1 /\ f < MainSize /\ f + size <= MainSize  BY <1>2, <1>3, <2>3 DEF FitsMain
      <3>2. off = f  BY <2>1, <3>1, LastFront
      <3>3. InMain(m, g, f, size, p)
        BY <1>1, <1>2, <1>8, <1>9, <2>1, <3>1, <3>2 DEF InMain
      <3> QED  BY <1>8, <1>9, <3>3 DEF seg
    <2>4. CASE FitsLastLog(f, size)
      <3>1. /\ f >= MainSize /\ GetLastSegmentFront(f) % LogSize # 0
            /\ size + GetLastSegmentFront(f) <= LogSize
        BY <2>4 DEF FitsLastLog
      <3>2. 0 % LogSize = 0  BY <1>3, SmallModulo
      <3>3. f > MainSize  BY <1>3, <3>1, <3>2, LastFront
      <3>4. (f - MainSize) % LogSize # 0 /\ off = (f - MainSize) % LogSize
            /\ off \in Nat
        BY <2>1, <3>1, <3>3, <1>3, LastFront
      <3>5. Len(segs) > 1  BY <1>2, <1>3, <1>4, <3>3
      <3>6. InLast(m, g, f, size, p)
        BY <1>1, <1>2, <1>3, <1>8, <1>9, <2>1, <3>1, <3>3, <3>4, <3>5 DEF InLast
      <3>7. ~ FitsMain(m, g, f, size)  BY <3>3, <1>3 DEF FitsMain
      <3> QED  BY <1>8, <1>9, <3>6, <3>7 DEF seg
    <2> QED  BY <2>2, <2>3, <2>4
  <1> QED  BY <1>10, <1>11

(* A record lies within its segment, and the front within the segments.     *)
LEMMA PlaceFits ==
  ASSUME NEW m, Own(m), MetaFits(m), NEW g \in Group, m.segs[g] # <<>>,
         NEW f \in Nat, f <= Room(m.segs[g]), NEW size \in 1..LogSize,
         CanPlace(m, g, f, size), NEW p, p = Place(m, g, f, size)
  PROVE  /\ MetaFits(p.meta) /\ p.loc \in Loc /\ p.loc.size = size
         /\ p.front \in Nat /\ p.front <= Room(p.meta.segs[g])
  <1> DEFINE segs == m.segs[g]
             n == p.meta
  <1>0. Placement(m, g, f, size, p)  BY PlaceCases
  <1>1. /\ p.loc = [seg |-> p.loc.seg, off |-> p.loc.off, size |-> size]
        /\ p.loc.seg = Last(n.segs[g]) /\ n.front = m.front
        /\ n.segFront = [m.segFront EXCEPT ![p.loc.seg] = p.loc.off + size]
        /\ InMain(m, g, f, size, p) \/ InLast(m, g, f, size, p) \/ InFresh(m, g, f, size, p)
    BY <1>0 DEF Placement
  <1>2. /\ Shape(segs, g) /\ segs \in Seq(Segment) /\ Len(segs) \in Nat \ {0}
    BY ListFacts DEF Own
  <1>3. MainSize \in Nat \ {0} /\ LogSize \in Nat \ {0}  BY SizeFacts
  <1>4. Room(segs) = MainSize + (Len(segs) - 1) * LogSize /\ Room(segs) \in Nat
        /\ MainSize <= Room(segs)
    BY <1>2, RoomFacts
  <1>5. p.loc.off \in Nat /\ p.loc.seg \in Segment /\ p.loc.off + size <= Cap(p.loc.seg)
    <2>1. CASE InMain(m, g, f, size, p)
      BY <2>1, SegmentFacts DEF InMain, Cap
    <2>2. CASE InLast(m, g, f, size, p)
      <3>1. f > MainSize /\ (f - MainSize) % LogSize \in Nat  BY <1>3, <2>2, LastFront DEF InLast
      <3> QED  BY <2>2, <3>1, SegmentFacts DEF InLast, Cap
    <2>3. CASE InFresh(m, g, f, size, p)
      <3>1. p.loc.off = 0 /\ p.loc.seg \in LogSeg  BY <2>3 DEF InFresh
      <3>2. p.loc.seg \in Segment /\ Cap(p.loc.seg) = LogSize  BY <3>1, SegmentFacts DEF Cap
      <3> QED  BY <1>3, <3>1, <3>2
    <2> QED  BY <1>1, <2>1, <2>2, <2>3
  <1>6. p.loc \in Loc /\ p.loc.size = size  BY <1>1, <1>5 DEF Loc
  <1>7. (n.segs = m.segs) \/ InFresh(m, g, f, size, p)  BY <1>1 DEF InMain, InLast
  <1>8. DOMAIN m.segs = Group /\ \A h \in Group : Shape(m.segs[h], h) /\ LogsOf(m.segs[h]) \subseteq m.used
    BY OwnFacts DEF Own
  <1>9. InFresh(m, g, f, size, p) =>
          /\ \A h \in Group \ {g} : n.segs[h] = m.segs[h]
          /\ n.segs[g] = Append(segs, p.loc.seg) /\ Distinct(n.segs[g])
          /\ Room(n.segs[g]) = Room(segs) + LogSize
    <2> SUFFICES ASSUME InFresh(m, g, f, size, p)
                 PROVE  /\ \A h \in Group \ {g} : n.segs[h] = m.segs[h]
                        /\ n.segs[g] = Append(segs, p.loc.seg) /\ Distinct(n.segs[g])
                        /\ Room(n.segs[g]) = Room(segs) + LogSize
      OBVIOUS
    <2>1. n.segs = [m.segs EXCEPT ![g] = Append(segs, p.loc.seg)] /\ p.loc.seg \in LogSeg \ m.used
      BY DEF InFresh
    <2>2. p.loc.seg \notin ToSet(segs)  BY <1>8, <2>1 DEF LogsOf
    <2>3. Distinct(segs) /\ p.loc.seg \in Segment  BY <2>1, SegmentFacts DEF MetaFits, Fitting
    <2>4. Distinct(Append(segs, p.loc.seg)) /\ Room(Append(segs, p.loc.seg)) = Room(segs) + LogSize
      BY <1>2, <2>2, <2>3, DistinctAppend, RoomOfAppend
    <2> QED  BY <1>8, <2>1, <2>4
  <1>10. p.front \in Nat /\ p.front <= Room(n.segs[g])
    <2>1. CASE InMain(m, g, f, size, p)  BY <1>3, <1>4, <2>1 DEF InMain
    <2>2. ASSUME f > MainSize, (f - MainSize) % LogSize # 0
          PROVE  /\ (f - MainSize) % LogSize \in 1..(LogSize - 1)
                 /\ f - ((f - MainSize) % LogSize) + LogSize <= Room(segs)
      <3> DEFINE x == f - MainSize
                 k == Len(segs) - 1
      <3>1. x \in Nat /\ k \in Nat /\ x <= k * LogSize  BY <1>2, <1>3, <1>4, <2>2
      <3>2. x % LogSize # 0  BY <2>2
      <3> HIDE DEF x, k
      <3>3. x - (x % LogSize) + LogSize <= k * LogSize /\ x % LogSize \in 0..(LogSize - 1)
        BY <1>3, <3>1, <3>2, BlockBelow, Division
      <3> DEFINE a == k * LogSize
      <3>4. a \in Nat /\ Room(segs) = MainSize + a /\ f = x + MainSize
            /\ x - (x % LogSize) + LogSize <= a
        BY <1>2, <1>3, <1>4, <3>1, <3>3 DEF k, x
      <3> HIDE DEF a
      <3> DEFINE r == x % LogSize
      <3>5. r \in 0..(LogSize - 1) /\ r # 0 /\ x - r + LogSize <= a  BY <3>2, <3>3, <3>4
      <3> HIDE DEF r
      <3>6. r \in 1..(LogSize - 1) /\ f - r + LogSize <= Room(segs)
        BY <1>3, <3>1, <3>4, <3>5
      <3> QED  BY <3>6 DEF r, x
    <2>3. CASE InLast(m, g, f, size, p)
      BY <1>3, <1>4, <2>2, <2>3 DEF InLast
    <2>4. CASE InFresh(m, g, f, size, p)
      <3>1. p.front <= Room(segs) + size /\ p.front \in Nat
        BY <1>3, <1>4, <2>2, <2>4 DEF InFresh
      <3> QED  BY <1>3, <1>4, <1>9, <2>4, <3>1
    <2> QED  BY <1>1, <2>1, <2>3, <2>4
  <1>11. \A h \in Group : Fitting(n.front[h], n.segs[h])
    <2> SUFFICES ASSUME NEW h \in Group PROVE Fitting(n.front[h], n.segs[h])
      OBVIOUS
    <2>1. Fitting(m.front[h], m.segs[h]) /\ n.front[h] = m.front[h]  BY <1>1 DEF MetaFits
    <2>2. CASE n.segs[h] = m.segs[h]  BY <2>1, <2>2
    <2>3. CASE h = g /\ InFresh(m, g, f, size, p)
      BY <1>3, <1>4, <1>9, <2>1, <2>3 DEF Fitting
    <2> QED  BY <1>7, <1>9, <2>2, <2>3
  <1>12. /\ n.segFront = [s \in Segment |-> n.segFront[s]]
         /\ \A s \in Segment : n.segFront[s] \in Nat /\ n.segFront[s] <= Cap(s)
    <2>1. DOMAIN m.segFront = Segment /\ p.loc.off + size \in Nat
      BY <1>3, <1>5 DEF MetaFits
    <2>2. \A s \in Segment : n.segFront[s] = IF s = p.loc.seg THEN p.loc.off + size ELSE m.segFront[s]
      BY <1>1, <2>1
    <2> QED  BY <1>1, <1>5, <2>1, <2>2 DEF MetaFits
  <1>13. n.front = [h \in Group |-> n.front[h]]  BY <1>1 DEF MetaFits
  <1> QED  BY <1>6, <1>10, <1>11, <1>12, <1>13 DEF MetaFits

----------------------------------------------------------------------------
(* What the operations do to the bounds                                     *)

LEMMA FittingFacts ==
  ASSUME NEW g \in Group, NEW segs, Shape(segs, g), NEW f, Fitting(f, segs)
  PROVE  f \in Fronts /\ f \in Nat /\ f <= Room(segs)
  <1>1. f \in Nat /\ f <= Room(segs) /\ Room(segs) \in Fronts
    BY ListBounded DEF Fitting
  <1> DEFINE top == MainSize + NumLog * LogSize
  <1>2. top \in Nat  BY HashKVAssumption
  <1>3. Room(segs) \in 0..top  BY <1>1 DEF Fronts
  <1> HIDE DEF top
  <1>4. f \in 0..top  BY <1>1, <1>2, <1>3
  <1> QED  BY <1>1, <1>4 DEF top, Fronts

LEMMA MainFits ==
  ASSUME NEW g \in Group
  PROVE  /\ Fitting(0, <<g>>) /\ Fitting(0, <<>>)
         /\ 0 \in Fronts
  <1>1. MainSize \in Nat \ {0} /\ LogSize \in Nat \ {0} /\ NumLog \in Nat  BY SizeFacts
  <1>2. Distinct(<<g>>) /\ Distinct(<<>>)  BY DEF Distinct
  <1>3. Room(<<g>>) = MainSize /\ Room(<<>>) = 0
    <2>1. <<g>> \in Seq(Segment) /\ Len(<<g>>) = 1  BY SegmentFacts
    <2> QED  BY <2>1, RoomFacts DEF Room
  <1>4. NumLog * LogSize \in Nat  BY <1>1
  <1> QED  BY <1>1, <1>2, <1>3, <1>4 DEF Fitting, Fronts

LEMMA NoMetaFits == MetaFits(NoMeta)
  <1>1. /\ NoMeta.front = [g \in Group |-> 0] /\ NoMeta.segs = [g \in Group |-> <<>>]
        /\ NoMeta.segFront = [s \in Segment |-> 0]
    BY DEF NoMeta
  <1>2. \A s \in Segment : 0 <= Cap(s)  BY SizeFacts
  <1>3. \A g \in Group : NoMeta.front[g] = 0 /\ NoMeta.segs[g] = <<>>  BY <1>1
  <1>4. \A g \in Group : Fitting(NoMeta.front[g], NoMeta.segs[g])  BY <1>3, MainFits
  <1>5. \A s \in Segment : NoMeta.segFront[s] = 0  BY <1>1
  <1>6. /\ NoMeta.front = [g \in Group |-> NoMeta.front[g]]
        /\ NoMeta.segFront = [s \in Segment |-> NoMeta.segFront[s]]
    BY <1>1
  <1> QED  BY <1>2, <1>4, <1>5, <1>6 DEF MetaFits

LEMMA NewMainFits ==
  ASSUME NEW m, Own(m), MetaFits(m), NEW g \in Group
  PROVE  MetaFits(GetNewMainSegment(m, g))
  <1>1. CASE m.segs[g] # <<>>  BY <1>1 DEF GetNewMainSegment
  <1>2. CASE m.segs[g] = <<>>
    <2> DEFINE n == GetNewMainSegment(m, g)
    <2>1. n = [segs |-> [m.segs EXCEPT ![g] = <<g>>], front |-> [m.front EXCEPT ![g] = 0],
               segFront |-> m.segFront, used |-> m.used, free |-> m.free]
      BY <1>2 DEF Own, GetNewMainSegment
    <2>2. /\ n.segs = [m.segs EXCEPT ![g] = <<g>>] /\ n.front = [m.front EXCEPT ![g] = 0]
          /\ n.segFront = m.segFront
      BY <2>1
    <2>3. DOMAIN m.segs = Group /\ DOMAIN m.front = Group  BY DEF Own, MetaFits
    <2> HIDE DEF n
    <2>4. \A h \in Group : Fitting(n.front[h], n.segs[h])
      BY <2>2, <2>3, MainFits DEF MetaFits
    <2>5. MetaFits(n)  BY <2>2, <2>3, <2>4 DEF MetaFits
    <2> QED  BY <2>5 DEF n
  <1> QED  BY <1>1, <1>2

LEMMA ReleaseFits ==
  ASSUME NEW m, Own(m), MetaFits(m), NEW g \in Group
  PROVE  MetaFits(ReleaseGroup(m, g))
  <1> DEFINE n == ReleaseGroup(m, g)
             logs == ToSet(LogSegments(m, g))
  <1>1. n = [segs |-> [m.segs EXCEPT ![g] = <<g>>], front |-> [m.front EXCEPT ![g] = 0],
             segFront |-> [s \in Segment |-> IF s \in logs THEN 0 ELSE m.segFront[s]],
             used |-> m.used \ logs, free |-> m.free + Cardinality(logs)]
    <2> DEFINE fronts == [s \in Segment |-> IF s \in logs THEN 0 ELSE m.segFront[s]]
    <2>1. n = [m EXCEPT !.segs[g] = <<g>>, !.front[g] = 0, !.used = @ \ logs,
                        !.free = @ + Cardinality(logs), !.segFront = fronts]
      BY DEF ReleaseGroup
    <2> HIDE DEF fronts, n, logs
    <2>2. n = [segs |-> [m.segs EXCEPT ![g] = <<g>>], front |-> [m.front EXCEPT ![g] = 0],
               segFront |-> fronts, used |-> m.used \ logs, free |-> m.free + Cardinality(logs)]
      BY <2>1 DEF Own
    <2> QED  BY <2>2 DEF fronts
  <1> HIDE DEF logs
  <1>2. /\ n.segs = [m.segs EXCEPT ![g] = <<g>>] /\ n.front = [m.front EXCEPT ![g] = 0]
        /\ n.segFront = [s \in Segment |-> IF s \in logs THEN 0 ELSE m.segFront[s]]
    BY <1>1
  <1>3. DOMAIN m.segs = Group /\ DOMAIN m.front = Group  BY DEF Own, MetaFits
  <1> HIDE DEF n
  <1>4. \A h \in Group : Fitting(n.front[h], n.segs[h])
    BY <1>2, <1>3, MainFits DEF MetaFits
  <1>5. \A s \in Segment : 0 \in Nat /\ 0 <= Cap(s)  BY SizeFacts
  <1>6. MetaFits(n)  BY <1>2, <1>3, <1>4, <1>5 DEF MetaFits
  <1> QED  BY <1>6 DEF n

LEMMA NewFrontFits ==
  ASSUME NEW m, Own(m), MetaFits(m), NEW g \in Group, NEW f \in Nat, f <= Room(m.segs[g])
  PROVE  /\ MetaFits([m EXCEPT !.front[g] = f])
         /\ [m EXCEPT !.front[g] = f].front[g] = f
         /\ \A h \in Group \ {g} : [m EXCEPT !.front[g] = f].front[h] = m.front[h]
         /\ [m EXCEPT !.front[g] = f].segs = m.segs
         /\ [m EXCEPT !.front[g] = f].segFront = m.segFront
  <1> DEFINE n == [m EXCEPT !.front[g] = f]
  <1>1. n = [segs |-> m.segs, front |-> [m.front EXCEPT ![g] = f],
             segFront |-> m.segFront, used |-> m.used, free |-> m.free]
    <2>1. m = [segs |-> m.segs, front |-> m.front, segFront |-> m.segFront,
               used |-> m.used, free |-> m.free]
      BY DEF Own
    <2> QED  BY <2>1
  <1>2. n.segs = m.segs /\ n.front = [m.front EXCEPT ![g] = f] /\ n.segFront = m.segFront
    BY <1>1
  <1>3. DOMAIN m.front = Group  BY DEF MetaFits
  <1> HIDE DEF n
  <1>4. \A h \in Group : n.front[h] = IF h = g THEN f ELSE m.front[h]  BY <1>2, <1>3
  <1>5. \A h \in Group : Fitting(n.front[h], n.segs[h])
    BY <1>2, <1>4 DEF MetaFits, Fitting
  <1>6. MetaFits(n)  BY <1>2, <1>3, <1>5 DEF MetaFits
  <1> QED  BY <1>2, <1>4, <1>6 DEF n

(* The first update of a group                                              *)
LEMMA NextUpdateIn ==
  ASSUME pending \subseteq Nat, NEW g, PendingOf(g) # {}
  PROVE  NextUpdate(g) \in PendingOf(g) /\ \A j \in PendingOf(g) : NextUpdate(g) <= j
  <1> DEFINE T == PendingOf(g)
  <1>1. T \subseteq Nat  BY DEF PendingOf
  <1>2. PICK x \in T : \A y \in T : <<y, x>> \notin OpToRel(<, Nat)
    BY <1>1, NatLessThanWellFounded, WFMin, Zenon
  <1>3. \A y \in T : ~ (y < x)
    BY <1>1, <1>2 DEF OpToRel
  <1>4. \A y \in T : x <= y  BY <1>1, <1>3
  <1> QED  BY <1>4 DEF NextUpdate

(* A set of numbers with a bound has a greatest one.                        *)
LEMMA MaxIn ==
  ASSUME NEW n \in Nat, NEW S \in SUBSET (0..n), S # {}
  PROVE  Max(S) \in S /\ \A y \in S : y <= Max(S)
  <1> DEFINE T == {n - x : x \in S}
  <1>1. T \subseteq Nat /\ T # {}
    <2>1. \A x \in S : n - x \in Nat  OBVIOUS
    <2> QED  BY <2>1
  <1>2. PICK z \in T : \A y \in T : <<y, z>> \notin OpToRel(<, Nat)
    BY <1>1, NatLessThanWellFounded, WFMin, Zenon
  <1>3. \A y \in T : ~ (y < z)
    BY <1>1, <1>2 DEF OpToRel
  <1>4. PICK x \in S : z = n - x  BY <1>2
  <1>5. \A y \in S : x >= y
    <2> SUFFICES ASSUME NEW y \in S PROVE x >= y  OBVIOUS
    <2>1. n - y \in T  OBVIOUS
    <2>2. ~ (n - y < n - x)  BY <1>3, <1>4, <2>1
    <2>3. x \in 0..n /\ y \in 0..n  OBVIOUS
    <2> QED  BY <2>2, <2>3
  <1>6. Max(S) \in S /\ \A y \in S : Max(S) >= y  BY <1>5 DEF Max
  <1> QED  BY <1>6

(* The location that a list of keys gives to a key is that of its last      *)
(* entry.                                                                   *)
LEMMA LocatedFacts ==
  ASSUME NEW index, NEW S, NEW keys \in Seq(S), NEW k \in Key
  PROVE  \/ /\ \A j \in 1..Len(keys) : keys[j].key # k
            /\ Located(index, keys)[k] = index[k]
         \/ \E i \in 1..Len(keys) :
              /\ keys[i].key = k /\ Located(index, keys)[k] = keys[i].loc
              /\ \A j \in (i + 1)..Len(keys) : keys[j].key # k
  <1> DEFINE I == {i \in 1..Len(keys) : keys[i].key = k}
  <1>1. Len(keys) \in Nat /\ I \in SUBSET (0..Len(keys))  OBVIOUS
  <1>2. Located(index, keys)[k] =
          IF (IF I # {} THEN Max(I) ELSE 0) = 0 THEN index[k]
          ELSE keys[IF I # {} THEN Max(I) ELSE 0].loc
    BY DEF Located, SelectLastInSeq
  <1>3. CASE I = {}
    <2>1. \A j \in 1..Len(keys) : keys[j].key # k  BY <1>3
    <2> QED  BY <1>2, <1>3, <2>1
  <1>4. CASE I # {}
    <2>1. Max(I) \in I /\ \A y \in I : y <= Max(I)  BY <1>1, <1>4, MaxIn
    <2>2. Max(I) # 0  BY <2>1
    <2>3. Located(index, keys)[k] = keys[Max(I)].loc  BY <1>2, <1>4, <2>2
    <2>4. \A j \in (Max(I) + 1)..Len(keys) : keys[j].key # k
      <3> SUFFICES ASSUME NEW j \in (Max(I) + 1)..Len(keys), keys[j].key = k PROVE FALSE
        OBVIOUS
      <3>1. j \in 1..Len(keys) /\ j > Max(I)  BY <1>1, <2>1
      <3> QED  BY <2>1, <3>1
    <2> QED  BY <2>1, <2>3, <2>4
  <1> QED  BY <1>3, <1>4

----------------------------------------------------------------------------
(* The bounds are kept: what the steps with a placement do                  *)

LEMMA RunningFacts ==
  ASSUME IInv, pc # "down"
  PROVE  /\ Own(meta) /\ Phases /\ Behind /\ Buffer
         /\ \A g \in Group : Shape(meta.segs[g], g)
         /\ \A g \in Group : Shape(groupMeta[g].segs, g)
  BY DEF IInv, Running, Own

LEMMA PlacedFront ==
  ASSUME NEW m, Own(m), MetaFits(m), NEW g \in Group, m.segs[g] # <<>>,
         NEW f \in Nat, f <= Room(m.segs[g]), NEW size \in 1..LogSize,
         CanPlace(m, g, f, size), NEW p, p = Place(m, g, f, size)
  PROVE  p.front \in Fronts
  <1>1. MetaFits(p.meta) /\ p.front \in Nat /\ p.front <= Room(p.meta.segs[g])  BY PlaceFits
  <1>2. Own(p.meta)  BY PlaceOwn
  <1>3. Shape(p.meta.segs[g], g)  BY <1>2 DEF Own
  <1>4. Distinct(p.meta.segs[g])  BY <1>1 DEF MetaFits, Fitting
  <1>5. Fitting(p.front, p.meta.segs[g])  BY <1>1, <1>4 DEF Fitting
  <1> QED  BY <1>3, <1>5, FittingFacts

LEMMA FlushRecordPlace ==
  ASSUME IInv, Bounds, FlushRecord,
         NEW r, r = pool[NextUpdate(cur)], NEW p, p = Place(meta, cur, curFront, r.size)
  PROVE  /\ cur \in Group /\ victim = None /\ meta.segs[cur] # <<>>
         /\ NextUpdate(cur) \in PendingOf(cur) /\ r \in Rec /\ Hash[r.key] = cur
         /\ Own(meta) /\ MetaFits(meta) /\ curFront \in Nat /\ curFront <= Room(meta.segs[cur])
         /\ r.size \in 1..LogSize /\ CanPlace(meta, cur, curFront, r.size)
         /\ MetaFits(p.meta) /\ p.loc \in Loc /\ p.loc.size = r.size
         /\ p.front \in Fronts /\ p.front <= Room(p.meta.segs[cur])
  <1>1. /\ pc = "flush" /\ cur # None /\ PendingOf(cur) # {}
        /\ CanPlace(meta, cur, curFront, r.size)
    BY DEF FlushRecord
  <1>2. Own(meta) /\ Phases /\ Buffer  BY <1>1, RunningFacts
  <1>3. cur \in Group /\ victim = None /\ meta.segs[cur] # <<>>
    BY <1>1, <1>2, CurrentHasSegments DEF Phases, Buffer
  <1>4. pool \in Seq(Rec) /\ pending \subseteq Nat /\ pending \subseteq DOMAIN pool
    <2>1. pool \in Seq(Rec) /\ pending \subseteq DOMAIN pool
      BY <1>2 DEF Bounds, Records, Buffer
    <2> QED  BY <2>1
  <1>5. NextUpdate(cur) \in PendingOf(cur)  BY <1>1, <1>4, NextUpdateIn
  <1>6. r \in Rec /\ Hash[r.key] = cur
    <2>1. NextUpdate(cur) \in DOMAIN pool /\ Hash[r.key] = cur  BY <1>4, <1>5 DEF PendingOf
    <2> QED  BY <1>4, <2>1
  <1>7. r.size \in 1..LogSize  BY <1>6 DEF Rec, Record
  <1>8. MetaFits(meta) /\ curFront \in Fronts /\ curFront <= Room(meta.segs[cur])
    BY <1>1, <1>3 DEF Bounds, MemoryFits, Flushing
  <1>9. curFront \in Nat  BY <1>8 DEF Fronts
  <1>10. /\ MetaFits(p.meta) /\ p.loc \in Loc /\ p.loc.size = r.size
         /\ p.front <= Room(p.meta.segs[cur])
    BY <1>1, <1>2, <1>3, <1>7, <1>8, <1>9, PlaceFits
  <1>11. p.front \in Fronts
    BY <1>1, <1>2, <1>3, <1>7, <1>8, <1>9, PlacedFront
  <1> QED  BY <1>1, <1>2, <1>3, <1>5, <1>6, <1>7, <1>8, <1>9, <1>10, <1>11

LEMMA RewritePlace ==
  ASSUME IInv, Bounds, NEW r \in survivors, RewriteRecord(r),
         NEW p, p = Place(meta, victim, curFront, r.size)
  PROVE  /\ victim \in Group /\ meta.segs[victim] # <<>> /\ r \in Rec
         /\ Own(meta) /\ MetaFits(meta) /\ curFront \in Nat /\ curFront <= Room(meta.segs[victim])
         /\ r.size \in 1..LogSize /\ CanPlace(meta, victim, curFront, r.size)
         /\ MetaFits(p.meta) /\ p.loc \in Loc /\ p.loc.size = r.size
         /\ p.front \in Fronts /\ p.front <= Room(p.meta.segs[victim])
  <1>1. pc = "rewrite" /\ CanPlace(meta, victim, curFront, r.size)  BY DEF RewriteRecord
  <1>2. Own(meta) /\ Phases /\ Buffer  BY <1>1, RunningFacts
  <1>3. victim \in Group /\ meta.segs[victim] # <<>>
    BY <1>1, <1>2 DEF Phases, Buffer
  <1>4. r \in Rec  BY DEF Bounds, Records
  <1>5. r.size \in 1..LogSize  BY <1>4 DEF Rec, Record
  <1>6. MetaFits(meta) /\ curFront \in Fronts /\ curFront <= Room(meta.segs[victim])
    BY <1>1, <1>3 DEF Bounds, MemoryFits
  <1>7. curFront \in Nat  BY <1>6 DEF Fronts
  <1>8. /\ MetaFits(p.meta) /\ p.loc \in Loc /\ p.loc.size = r.size
        /\ p.front <= Room(p.meta.segs[victim])
    BY <1>1, <1>2, <1>3, <1>5, <1>6, <1>7, PlaceFits
  <1>9. p.front \in Fronts
    BY <1>1, <1>2, <1>3, <1>5, <1>6, <1>7, PlacedFront
  <1> QED  BY <1>1, <1>2, <1>3, <1>4, <1>5, <1>6, <1>7, <1>8, <1>9

(* A put adds a record of a size that fits, or changes a value.             *)
LEMMA PutRecords ==
  ASSUME Bounds, NEW k \in Key, NEW size \in Sizes[k], Put(k, size)
  PROVE  pool' \in Seq(Rec) /\ puts' \in 0..MaxPuts
  <1>1. puts \in 0..MaxPuts /\ puts < MaxPuts /\ puts' = puts + 1 /\ PutInto(k, size)
        /\ pool \in Seq(Rec)
    BY DEF Put, Bounds, Records
  <1>2. puts' \in 0..MaxPuts /\ puts + 1 \in 1..MaxPuts  BY <1>1, HashKVAssumption
  <1>3. CASE UpdatesInPlace(k, size)
    <2> DEFINE i == InPool(k)
    <2>1. pool' = [pool EXCEPT ![i].val = puts + 1]  BY <1>1, <1>3 DEF PutInto
    <2> HIDE DEF i
    <2>2. \A j \in 1..Len(pool) : pool[j] \in Rec /\ [pool[j] EXCEPT !.val = puts + 1] \in Rec
      <3>1. \A j \in 1..Len(pool) : pool[j] \in Rec  BY <1>1
      <3>2. \A r \in Rec : [r EXCEPT !.val = puts + 1] \in Rec  BY <1>2 DEF Rec, Record
      <3> QED  BY <3>1, <3>2
    <2>3. DOMAIN pool' = 1..Len(pool) /\ pool' = [j \in 1..Len(pool) |-> pool'[j]]
      <3>1. DOMAIN pool' = DOMAIN pool /\ DOMAIN pool = 1..Len(pool) /\ Len(pool) \in Nat
        BY <1>1, <2>1
      <3> QED  BY <2>1, <3>1
    <2>4. \A j \in 1..Len(pool) : pool'[j] = pool[j] \/ pool'[j] = [pool[j] EXCEPT !.val = puts + 1]
      BY <1>1, <2>1
    <2>5. \A j \in 1..Len(pool) : pool'[j] \in Rec  BY <2>2, <2>4
    <2>6. pool' \in [1..Len(pool) -> Rec] /\ Len(pool) \in Nat  BY <1>1, <2>3, <2>5
    <2>7. pool' \in Seq(Rec)  BY <2>6
    <2> QED  BY <1>2, <2>7
  <1>4. CASE ~UpdatesInPlace(k, size)
    <2>1. pool' = Append(pool, [key |-> k, val |-> puts + 1, size |-> size])
      BY <1>1, <1>4 DEF PutInto
    <2>2. size \in 1..LogSize
      <3>1. size \in Nat \ {0} /\ LogSize \in Nat  BY HashKVAssumption
      <3>2. Accepted(size) /\ RecordsFit  BY DEF Put, Bounds
      <3> QED  BY <3>1, <3>2 DEF RecordsFit
    <2>3. [key |-> k, val |-> puts + 1, size |-> size] \in Rec
      BY <1>2, <2>2 DEF Rec, Record
    <2> QED  BY <1>1, <1>2, <2>1, <2>3
  <1> QED  BY <1>2, <1>3, <1>4

(* What is scanned comes from a segment or from the buffer.                 *)
LEMMA ScannedRecords ==
  ASSUME IInv, Bounds, NEW g \in Group, pc # "down"
  PROVE  KeyCount(Scan(g)) \subseteq Rec
  <1>1. Buffer /\ Shape(meta.segs[g], g)  BY RunningFacts
  <1>2. \A i \in DOMAIN meta.segs[g] : meta.segs[g][i] \in Segment  BY <1>1 DEF Shape
  <1>3. \A s \in Segment : \A r \in InSegment(s) : Stripped(r) \in Rec
    BY DEF InSegment, Stripped, Bounds, OnDisk, Kept, Rec, Record
  <1>4. \A j \in PendingOf(g) : pool[j] \in Rec
    BY <1>1 DEF PendingOf, Buffer, Bounds, Records
  <1>5. ASSUME NEW a \in Scan(g) PROVE a.rec \in Rec
    <2> DEFINE part(i) == {[part |-> i, off |-> r.off, rec |-> Stripped(r)] :
                              r \in InSegment(meta.segs[g][i])}
               tail == {[part |-> Len(meta.segs[g]) + 1, off |-> j, rec |-> pool[j]] :
                          j \in PendingOf(g)}
               parts == {part(i) : i \in DOMAIN meta.segs[g]}
    <2>0. a \in (UNION parts) \cup tail  BY DEF Scan
    <2>1. ASSUME NEW i \in DOMAIN meta.segs[g], a \in part(i) PROVE a.rec \in Rec
      BY <1>2, <1>3, <2>1
    <2>2. ASSUME a \in tail PROVE a.rec \in Rec  BY <1>4, <2>2
    <2> HIDE DEF part, tail
    <2>3. a \in tail \/ \E X \in parts : a \in X
      <3> HIDE DEF parts
      <3> QED  BY <2>0
    <2>4. \A X \in parts : \E i \in DOMAIN meta.segs[g] : X = part(i)  OBVIOUS
    <2> HIDE DEF parts
    <2> QED  BY <2>1, <2>2, <2>3, <2>4
  <1> QED  BY <1>5 DEF KeyCount

LEMMA StoreFits ==
  ASSUME NEW s \in Segment, NEW recs, \A q \in recs : q \in Kept /\ q.off + q.size <= Cap(s),
         NEW r \in Rec, NEW loc \in Loc, loc.seg = s, loc.size = r.size
  PROVE  \A q \in Store(recs, loc, r) : q \in Kept /\ q.off + q.size <= Cap(s)
  <1> DEFINE e == [off |-> loc.off, size |-> r.size, key |-> r.key, val |-> r.val]
  <1>1. loc.off \in Nat /\ loc.off + loc.size <= Cap(s)  BY DEF Loc
  <1>2. r.size \in 1..LogSize /\ r.key \in Key /\ r.val \in 1..MaxPuts
    BY DEF Rec, Record
  <1>3. e \in Kept /\ e.off + e.size <= Cap(s)  BY <1>1, <1>2 DEF Kept
  <1> HIDE DEF e
  <1>4. Store(recs, loc, r) = {q \in recs : ~ Overlaps(q, loc)} \cup {e}  BY DEF Store, e
  <1> QED  BY <1>3, <1>4

LEMMA LocatedType ==
  ASSUME NEW index \in [Key -> Loc \cup {Nowhere}], NEW keys \in Seq(KeyLoc)
  PROVE  Located(index, keys) \in [Key -> Loc \cup {Nowhere}]
  <1>1. Located(index, keys) = [k \in Key |-> Located(index, keys)[k]]  BY DEF Located
  <1>2. \A i \in 1..Len(keys) : keys[i].loc \in Loc
    <2>1. \A i \in 1..Len(keys) : keys[i] \in KeyLoc  OBVIOUS
    <2> QED  BY <2>1 DEF KeyLoc
  <1>3. ASSUME NEW k \in Key PROVE Located(index, keys)[k] \in Loc \cup {Nowhere}
    <2>1. Located(index, keys)[k] = index[k]
          \/ \E i \in 1..Len(keys) : Located(index, keys)[k] = keys[i].loc
      BY LocatedFacts
    <2> QED  BY <1>2, <2>1
  <1> QED  BY <1>1, <1>3

----------------------------------------------------------------------------
(* The bounds and recovery                                                  *)

LEMMA RestoreMetaFits ==
  ASSUME DurableFits
  PROVE  MetaFits(RestoreMetaFromDB)
  <1> DEFINE n == RestoreMetaFromDB
  <1>1. /\ n.segs = [g \in Group |-> groupMeta[g].segs]
        /\ n.front = [g \in Group |-> groupMeta[g].front]
        /\ n.segFront = [s \in Segment |->
                          IF \E g \in Group : s \in ToSet(groupMeta[g].segs) THEN segMeta[s] ELSE 0]
    BY DEF RestoreMetaFromDB
  <1> HIDE DEF n
  <1>2. \A g \in Group : Fitting(n.front[g], n.segs[g])
    <2>1. \A g \in Group : n.front[g] = groupMeta[g].front /\ n.segs[g] = groupMeta[g].segs
      BY <1>1
    <2> QED  BY <2>1 DEF DurableFits
  <1>3. \A s \in Segment : n.segFront[s] = segMeta[s] \/ n.segFront[s] = 0  BY <1>1
  <1>4. \A s \in Segment : segMeta[s] \in Nat /\ segMeta[s] <= Cap(s) /\ 0 <= Cap(s)
    BY SizeFacts DEF DurableFits
  <1>5. \A s \in Segment : n.segFront[s] \in Nat /\ n.segFront[s] <= Cap(s)
    BY <1>3, <1>4
  <1>6. n.front = [g \in Group |-> n.front[g]] /\ n.segFront = [s \in Segment |-> n.segFront[s]]
    BY <1>1
  <1>7. MetaFits(n)  BY <1>2, <1>5, <1>6 DEF MetaFits
  <1> QED  BY <1>7 DEF n

LEMMA RestoreGroupsParts ==
  ASSUME NEW m, Own(m), NEW log, DOMAIN log \subseteq Group, NEW n, n = RestoreGroups(m, log)
  PROVE  /\ n.segs = [g \in Group |-> IF g \in DOMAIN log THEN log[g].segs ELSE m.segs[g]]
         /\ n.front = [g \in Group |-> IF g \in DOMAIN log
                                       THEN IF m.segs[g] = <<>> THEN 0 ELSE log[g].front
                                       ELSE m.front[g]]
         /\ n.segFront = m.segFront
  <1> DEFINE segs == [g \in Group |-> IF g \in DOMAIN log THEN log[g].segs ELSE m.segs[g]]
             front == [g \in Group |-> IF g \in DOMAIN log
                                       THEN IF m.segs[g] = <<>> THEN 0 ELSE log[g].front
                                       ELSE m.front[g]]
  <1>1. PICK used, free : n = [m EXCEPT !.segs = segs, !.front = front, !.used = used, !.free = free]
    BY DEF RestoreGroups
  <1> HIDE DEF segs, front
  <1>2. n = [segs |-> segs, front |-> front, segFront |-> m.segFront, used |-> used, free |-> free]
    BY <1>1 DEF Own
  <1>3. n.segs = segs /\ n.front = front /\ n.segFront = m.segFront  BY <1>2
  <1> QED  BY <1>3 DEF segs, front

LEMMA RestoreGroupsFits ==
  ASSUME NEW m, Own(m), MetaFits(m), NEW log, DOMAIN log \subseteq Group,
         \A g \in DOMAIN log : Shape(log[g].segs, g) /\ Fitting(log[g].front, log[g].segs),
         NEW n, n = RestoreGroups(m, log)
  PROVE  MetaFits(n)
  <1>1. /\ n.segs = [g \in Group |-> IF g \in DOMAIN log THEN log[g].segs ELSE m.segs[g]]
        /\ n.front = [g \in Group |-> IF g \in DOMAIN log
                                       THEN IF m.segs[g] = <<>> THEN 0 ELSE log[g].front
                                       ELSE m.front[g]]
        /\ n.segFront = m.segFront
    BY RestoreGroupsParts
  <1>2. ASSUME NEW g \in Group PROVE Fitting(n.front[g], n.segs[g])
    <2>1. CASE g \notin DOMAIN log  BY <1>1, <2>1 DEF MetaFits
    <2>2. CASE g \in DOMAIN log
      <3>1. n.segs[g] = log[g].segs /\ (n.front[g] = 0 \/ n.front[g] = log[g].front)
        BY <1>1, <2>2
      <3>2. Room(log[g].segs) \in Nat  BY <2>2, RoomFacts DEF Shape
      <3> QED  BY <2>2, <3>1, <3>2 DEF Fitting
    <2> QED  BY <2>1, <2>2
  <1>3. n.front = [g \in Group |-> n.front[g]]  BY <1>1
  <1> QED  BY <1>1, <1>2, <1>3 DEF MetaFits

\* where the records of a list of keys end in a segment
EndsIn(keys, s) ==
  {keys[i].loc.off + keys[i].loc.size : i \in {i \in DOMAIN keys : keys[i].loc.seg = s}}

LEMMA EndsFit ==
  ASSUME NEW keys \in Seq(KeyLoc), NEW s \in Segment
  PROVE  /\ EndsIn(keys, s) \in SUBSET (0..Cap(s))
         /\ EndsIn(keys, s) # {} =>
              /\ Max(EndsIn(keys, s)) \in EndsIn(keys, s)
              /\ \A e \in EndsIn(keys, s) : e <= Max(EndsIn(keys, s))
  <1>1. \A i \in DOMAIN keys : keys[i] \in KeyLoc  OBVIOUS
  <1>2. \A i \in DOMAIN keys : keys[i].loc \in Loc  BY <1>1 DEF KeyLoc
  <1>3. \A l \in Loc : l.seg = s => l.off + l.size \in 0..Cap(s)
    BY SizeFacts DEF Loc
  <1>4. EndsIn(keys, s) \in SUBSET (0..Cap(s))  BY <1>2, <1>3 DEF EndsIn
  <1>5. Cap(s) \in Nat  BY SizeFacts
  <1> QED  BY <1>4, <1>5, MaxIn

\* the fronts of the segments that such a list leaves
FrontsFrom(fronts, keys) ==
  [s \in Segment |-> IF EndsIn(keys, s) = {} THEN fronts[s] ELSE Max(EndsIn(keys, s))]

LEMMA SegmentEndsParts ==
  ASSUME NEW m, Own(m), NEW keys, NEW n, n = SegmentEnds(m, keys)
  PROVE  /\ n.segs = m.segs /\ n.front = m.front
         /\ n.segFront = FrontsFrom(m.segFront, keys)
  <1> DEFINE fronts == FrontsFrom(m.segFront, keys)
  <1>1. n = [m EXCEPT !.segFront = fronts]  BY DEF SegmentEnds, EndsIn, FrontsFrom
  <1> HIDE DEF fronts
  <1>2. n = [segs |-> m.segs, front |-> m.front, segFront |-> fronts,
             used |-> m.used, free |-> m.free]
    BY <1>1 DEF Own
  <1>3. n.segs = m.segs /\ n.front = m.front /\ n.segFront = fronts  BY <1>2
  <1> QED  BY <1>3 DEF fronts

LEMMA SegmentEndsFits ==
  ASSUME NEW m, Own(m), MetaFits(m), NEW keys \in Seq(KeyLoc), NEW n, n = SegmentEnds(m, keys)
  PROVE  MetaFits(n)
  <1>1. /\ n.segs = m.segs /\ n.front = m.front
        /\ n.segFront = FrontsFrom(m.segFront, keys)
    BY SegmentEndsParts
  <1>2. ASSUME NEW s \in Segment PROVE n.segFront[s] \in Nat /\ n.segFront[s] <= Cap(s)
    <2>1. CASE EndsIn(keys, s) = {}  BY <1>1, <2>1 DEF MetaFits, FrontsFrom
    <2>2. CASE EndsIn(keys, s) # {}
      <3>1. n.segFront[s] \in 0..Cap(s)  BY <1>1, <2>2, EndsFit DEF FrontsFrom
      <3>2. Cap(s) \in Nat  BY SizeFacts
      <3> QED  BY <3>1, <3>2
    <2> QED  BY <2>1, <2>2
  <1>3. n.segFront = [s \in Segment |-> n.segFront[s]]  BY <1>1 DEF FrontsFrom
  <1> QED  BY <1>1, <1>2, <1>3 DEF MetaFits

\* the steps of a recovery
Based    == RestoreGroups(RestoreMetaFromDB, updateLog.groups)
Ended    == SegmentEnds(Based, updateLog.keys)
Restored == RestoreGroups(Ended, gcLog)

(* Each step of a recovery works on sound metadata.                         *)
LEMMA RecoverySteps ==
  ASSUME IInv, pc = "down"
  PROVE  /\ Own(RestoreMetaFromDB) /\ Own(Based) /\ Own(Ended) /\ Own(Restored)
         /\ DOMAIN updateLog.groups \subseteq Group /\ DOMAIN gcLog \subseteq Group
         /\ \A g \in DOMAIN updateLog.groups : Shape(updateLog.groups[g].segs, g)
         /\ \A g \in DOMAIN gcLog : Shape(gcLog[g].segs, g)
         /\ DOMAIN updateLog.groups = {} \/ DOMAIN gcLog = {}
  <1> DEFINE base == RestoreMetaFromDB
             U == DOMAIN updateLog.groups
             G == DOMAIN gcLog
  <1>2. Restorable /\ \A g \in Group : Shape(groupMeta[g].segs, g)
    BY DEF IInv, Crashed
  <1>3. Own(base) /\ base.segs = [g \in Group |-> groupMeta[g].segs]
    BY <1>2, RestoreMetaOwn DEF Restorable
  <1> HIDE DEF base
  <1>4. /\ Own(Based)
        /\ Based.segs =
             [g \in Group |-> IF g \in U THEN updateLog.groups[g].segs ELSE base.segs[g]]
    <2> DEFINE log == updateLog.groups
    <2>1. Fits(log)  BY <1>2 DEF Restorable
    <2> HIDE DEF log
    <2>2. \A h \in Group : base.segs[h] = groupMeta[h].segs  BY <1>3
    <2>3. /\ DOMAIN log \subseteq Group
          /\ \A g \in DOMAIN log :
               /\ Shape(log[g].segs, g)
               /\ \A h \in Group \ {g} : LogsOf(log[g].segs) \cap LogsOf(base.segs[h]) = {}
               /\ \A h \in DOMAIN log \ {g} :
                    LogsOf(log[g].segs) \cap LogsOf(log[h].segs) = {}
      BY <2>1, <2>2 DEF Fits
    <2>4. /\ Own(RestoreGroups(base, log))
          /\ RestoreGroups(base, log).segs =
               [g \in Group |-> IF g \in DOMAIN log THEN log[g].segs ELSE base.segs[g]]
      BY <1>3, <2>3, RestoreGroupsOwn
    <2> QED  BY <2>4 DEF log, Based, base
  <1>5. Own(Ended) /\ Ended.segs = Based.segs  BY <1>4, SegmentEndsOwn DEF Ended
  <1>6. \A g \in G : \A h \in Group \ {g} :
          LogsOf(gcLog[g].segs) \cap LogsOf(Ended.segs[h]) = {}
    <2> SUFFICES ASSUME NEW g \in G, NEW h \in Group \ {g}
                 PROVE  LogsOf(gcLog[g].segs) \cap LogsOf(Ended.segs[h]) = {}
      OBVIOUS
    <2>1. U = {}  BY <1>2 DEF Restorable
    <2>2. Ended.segs[h] = groupMeta[h].segs  BY <1>3, <1>4, <1>5, <2>1
    <2> QED  BY <1>2, <2>2 DEF Restorable, Fits
  <1>7. Own(Restored)
    <2>1. Fits(gcLog)  BY <1>2 DEF Restorable
    <2>2. /\ DOMAIN gcLog \subseteq Group
          /\ \A g \in DOMAIN gcLog :
               /\ Shape(gcLog[g].segs, g)
               /\ \A h \in Group \ {g} :
                    LogsOf(gcLog[g].segs) \cap LogsOf(Ended.segs[h]) = {}
               /\ \A h \in DOMAIN gcLog \ {g} :
                    LogsOf(gcLog[g].segs) \cap LogsOf(gcLog[h].segs) = {}
      BY <1>6, <2>1 DEF Fits
    <2> QED  BY <1>5, <2>2, RestoreGroupsOwn DEF Restored
  <1>8. Own(RestoreMetaFromDB)  BY <1>3 DEF base
  <1>9. Fits(updateLog.groups) /\ Fits(gcLog) /\ (U = {} \/ G = {})  BY <1>2 DEF Restorable
  <1> QED  BY <1>4, <1>5, <1>7, <1>8, <1>9 DEF Fits

LEMMA RestoredFits ==
  ASSUME IInv, Bounds, pc = "down"
  PROVE  MetaFits(Restored) /\ MetaFits(Ended)
  <1>1. DurableFits /\ updateLog.keys \in Seq(KeyLoc)  BY DEF Bounds, Locations
  <1>2. /\ Own(RestoreMetaFromDB) /\ Own(Based) /\ Own(Ended)
        /\ DOMAIN updateLog.groups \subseteq Group /\ DOMAIN gcLog \subseteq Group
        /\ \A g \in DOMAIN updateLog.groups : Shape(updateLog.groups[g].segs, g)
        /\ \A g \in DOMAIN gcLog : Shape(gcLog[g].segs, g)
    BY RecoverySteps
  <1>3. MetaFits(RestoreMetaFromDB)  BY <1>1, RestoreMetaFits
  <1>4. /\ \A g \in DOMAIN updateLog.groups : Fitting(updateLog.groups[g].front, updateLog.groups[g].segs)
        /\ \A g \in DOMAIN gcLog : Fitting(gcLog[g].front, gcLog[g].segs)
    BY <1>1 DEF DurableFits
  <1>5. MetaFits(Based)
    <2> DEFINE base == RestoreMetaFromDB
               log == updateLog.groups
    <2>1. /\ Own(base) /\ MetaFits(base) /\ DOMAIN log \subseteq Group /\ Based = RestoreGroups(base, log)
          /\ \A g \in DOMAIN log : Shape(log[g].segs, g) /\ Fitting(log[g].front, log[g].segs)
      BY <1>2, <1>3, <1>4 DEF Based
    <2> HIDE DEF base, log
    <2> QED  BY <2>1, RestoreGroupsFits
  <1>6. MetaFits(Ended)  BY <1>1, <1>2, <1>5, SegmentEndsFits DEF Ended
  <1>7. MetaFits(Restored)  BY <1>2, <1>4, <1>6, RestoreGroupsFits DEF Restored
  <1> QED  BY <1>6, <1>7

----------------------------------------------------------------------------
(* The bounds are kept: one lemma for each part                             *)

LEMMA RecordsKept ==
  ASSUME IInv, Bounds, Next
  PROVE  Records'
  <1>0. /\ pool \in Seq(Rec) /\ survivors \subseteq Rec /\ curSize \in 0..LogSize
        /\ puts \in 0..MaxPuts
        /\ \A u \in unwritten : u.rec \in Rec /\ u.loc \in Loc /\ u.loc.size = u.rec.size
    BY DEF Bounds, Records
  <1>1. ASSUME UNCHANGED <<pool, survivors, curSize, puts, unwritten>> PROVE Records'
    BY <1>0, <1>1 DEF Records
  <1>2. ASSUME NEW k \in Key, NEW s \in Sizes[k], Put(k, s) PROVE Records'
    <2>1. UNCHANGED <<survivors, curSize, unwritten>>  BY <1>2 DEF Put
    <2>2. pool' \in Seq(Rec) /\ puts' \in 0..MaxPuts  BY <1>2, PutRecords
    <2> QED  BY <1>0, <2>1, <2>2 DEF Records
  <1>3. ASSUME NEW k \in Key, NEW s \in Sizes[k], FlushBeforeWrite(k, s) PROVE Records'
    BY <1>1, <1>3 DEF FlushBeforeWrite, history
  <1>4. ASSUME NEW g \in Group, PickGroup(g) PROVE Records'
    BY <1>1, <1>4 DEF PickGroup, history
  <1>5. ASSUME NEW g \in Group, GCOneGroup(g) PROVE Records'
    <2>1. UNCHANGED <<pool, curSize, puts, unwritten>> /\ survivors' = KeyCount(Scan(g)) /\ pc # "down"
      BY <1>5 DEF GCOneGroup, history
    <2>2. survivors' \subseteq Rec  BY <2>1, ScannedRecords
    <2> QED  BY <1>0, <2>1, <2>2 DEF Records
  <1>6. ASSUME NEW r \in survivors, RewriteRecord(r) PROVE Records'
    <2> DEFINE p == Place(meta, victim, curFront, r.size)
    <2>1. /\ UNCHANGED <<pool, curSize, puts>> /\ survivors' = survivors \ {r}
          /\ unwritten' = unwritten \cup {[rec |-> r, loc |-> p.loc]}
      BY <1>6 DEF RewriteRecord, history
    <2>2. p.loc \in Loc /\ p.loc.size = r.size /\ r \in Rec  BY <1>6, RewritePlace
    <2> HIDE DEF p
    <2> QED  BY <1>0, <2>1, <2>2 DEF Records
  <1>7. ASSUME FlushRecord \/ LeaveGroup \/ EndOfUpdates PROVE Records'
    BY <1>1, <1>7 DEF FlushRecord, LeaveGroup, EndOfUpdates, volatile, history
  <1>8. ASSUME ReservedOverflow PROVE Records'
    <2>1. /\ UNCHANGED <<pool, survivors, puts, unwritten>> /\ curSize' = pool[NextUpdate(cur)].size
          /\ pc = "flush" /\ PendingOf(cur) # {}
      BY <1>8 DEF ReservedOverflow, history
    <2>2. pending \subseteq DOMAIN pool  BY <2>1, RunningFacts DEF Buffer
    <2>3. pending \subseteq Nat  BY <1>0, <2>2
    <2>4. NextUpdate(cur) \in DOMAIN pool  BY <2>1, <2>2, <2>3, NextUpdateIn DEF PendingOf
    <2>5. pool[NextUpdate(cur)] \in Rec  BY <1>0, <2>4
    <2>6. curSize' \in 0..LogSize  BY <2>1, <2>5, SizeFacts DEF Rec, Record
    <2> QED  BY <1>0, <2>1, <2>6 DEF Records
  <1>9. ASSUME SetBatchUpdateKeyValue \/ WriteKeyBatch \/ LogMetaPersist \/ WriteKeyBatchFails
               \/ GCGreedyInVain
        PROVE  Records'
    BY <1>1, <1>9 DEF SetBatchUpdateKeyValue, WriteKeyBatch, LogMetaPersist, WriteKeyBatchFails,
                      GCGreedyInVain, volatile, history
  <1>10. ASSUME SetBatchGCKeyValue \/ AckBeforeGC \/ FinishGC PROVE Records'
    BY <1>1, <1>10 DEF SetBatchGCKeyValue, AckBeforeGC, FinishGC, history
  <1>11. ASSUME FinishFlush PROVE Records'
    <2>1. UNCHANGED <<survivors, curSize, puts, unwritten>> /\ pool' = <<>>
      BY <1>11 DEF FinishFlush
    <2> QED  BY <1>0, <2>1 DEF Records
  <1>12. ASSUME NEW s \in Segment, WriteSegment(s) PROVE Records'
    <2>1. UNCHANGED <<pool, survivors, curSize, puts>> /\ unwritten' \subseteq unwritten
      BY <1>12 DEF WriteSegment, history
    <2> QED  BY <1>0, <2>1 DEF Records
  <1>13. ASSUME Crash PROVE Records'
    <2>1. pool' = <<>> /\ survivors' = {} /\ unwritten' = {} /\ curSize' = 0 /\ puts' = puts
      BY <1>13 DEF Crash
    <2> QED  BY <1>0, <2>1, SizeFacts DEF Records
  <1>14. ASSUME Recover PROVE Records'  BY <1>1, <1>14 DEF Recover
  <1> QED
    BY <1>2, <1>3, <1>4, <1>5, <1>6, <1>7, <1>8, <1>9, <1>10, <1>11, <1>12, <1>13, <1>14
    DEF Next

LEMMA OnDiskKept ==
  ASSUME IInv, Bounds, Next
  PROVE  OnDisk'
  <1>0. /\ disk = [s \in Segment |-> disk[s]]
        /\ \A s \in Segment : \A r \in disk[s] : r \in Kept /\ r.off + r.size <= Cap(s)
    BY DEF Bounds, OnDisk
  <1>1. ASSUME disk' = disk PROVE OnDisk'  BY <1>0, <1>1 DEF OnDisk
  <1>2. ASSUME NEW k \in Key, NEW s \in Sizes[k], Put(k, s) \/ FlushBeforeWrite(k, s) PROVE OnDisk'
    BY <1>1, <1>2 DEF Put, FlushBeforeWrite, durable
  <1>3. ASSUME NEW g \in Group, PickGroup(g) \/ GCOneGroup(g) PROVE OnDisk'
    BY <1>1, <1>3 DEF PickGroup, GCOneGroup, durable
  <1>4. ASSUME NEW r \in survivors, RewriteRecord(r) PROVE OnDisk'
    BY <1>1, <1>4 DEF RewriteRecord, durable
  <1>5. ASSUME FlushRecord PROVE OnDisk'
    <2> DEFINE r == pool[NextUpdate(cur)]
               p == Place(meta, cur, curFront, r.size)
    <2>1. disk' = [disk EXCEPT ![p.loc.seg] = Store(disk[p.loc.seg], p.loc, r)]
      BY <1>5 DEF FlushRecord
    <2>2. r \in Rec /\ p.loc \in Loc /\ p.loc.size = r.size  BY <1>5, FlushRecordPlace
    <2> HIDE DEF r, p
    <2>3. p.loc.seg \in Segment  BY <2>2 DEF Loc
    <2>4. \A q \in Store(disk[p.loc.seg], p.loc, r) : q \in Kept /\ q.off + q.size <= Cap(p.loc.seg)
      BY <1>0, <2>2, <2>3, StoreFits
    <2> QED  BY <1>0, <2>1, <2>3, <2>4 DEF OnDisk
  <1>6. ASSUME LeaveGroup \/ ReservedOverflow \/ EndOfUpdates PROVE OnDisk'
    BY <1>1, <1>6 DEF LeaveGroup, ReservedOverflow, EndOfUpdates, durable
  <1>7. ASSUME SetBatchUpdateKeyValue \/ WriteKeyBatch \/ LogMetaPersist \/ WriteKeyBatchFails
               \/ GCGreedyInVain
        PROVE  OnDisk'
    BY <1>1, <1>7 DEF SetBatchUpdateKeyValue, WriteKeyBatch, LogMetaPersist, WriteKeyBatchFails,
                      GCGreedyInVain, durable
  <1>8. ASSUME SetBatchGCKeyValue \/ AckBeforeGC \/ FinishGC \/ FinishFlush PROVE OnDisk'
    BY <1>1, <1>8 DEF SetBatchGCKeyValue, AckBeforeGC, FinishGC, FinishFlush
  <1>9. ASSUME NEW s \in Segment, WriteSegment(s) PROVE OnDisk'
    <2> DEFINE mine == {u \in unwritten : u.loc.seg = s}
               rec(u) == [off |-> u.loc.off, size |-> u.rec.size, key |-> u.rec.key, val |-> u.rec.val]
               kept == {r \in disk[s] : \A u \in mine : ~ Overlaps(r, u.loc)}
               new == {rec(u) : u \in mine}
    <2>1. disk' = [disk EXCEPT ![s] = kept \cup new]  BY <1>9 DEF WriteSegment
    <2>2. \A u \in mine : rec(u) \in Kept /\ rec(u).off + rec(u).size <= Cap(s)
      <3> SUFFICES ASSUME NEW u \in mine PROVE rec(u) \in Kept /\ rec(u).off + rec(u).size <= Cap(s)
        OBVIOUS
      <3>1. u.rec \in Rec /\ u.loc \in Loc /\ u.loc.size = u.rec.size /\ u.loc.seg = s
        BY DEF Bounds, Records
      <3>2. u.loc.off \in Nat /\ u.loc.off + u.rec.size <= Cap(s)  BY <3>1 DEF Loc
      <3>3. u.rec.size \in 1..LogSize /\ u.rec.key \in Key
            /\ u.rec.val \in 1..MaxPuts
        BY <3>1 DEF Rec, Record
      <3> QED  BY <3>2, <3>3 DEF Kept
    <2>3. \A q \in new : q \in Kept /\ q.off + q.size <= Cap(s)
      <3> HIDE DEF rec, mine
      <3> QED  BY <2>2
    <2>4. kept \subseteq disk[s]  OBVIOUS
    <2> HIDE DEF kept, new
    <2> QED  BY <1>0, <2>1, <2>3, <2>4 DEF OnDisk
  <1>10. ASSUME Crash \/ Recover PROVE OnDisk'  BY <1>1, <1>10 DEF Crash, Recover, durable
  <1> QED
    BY <1>2, <1>3, <1>4, <1>5, <1>6, <1>7, <1>8, <1>9, <1>10 DEF Next

LEMMA LocationsKept ==
  ASSUME IInv, Bounds, Next
  PROVE  Locations'
  <1>0. /\ batch \in Seq(KeyLoc) /\ updateLog.keys \in Seq(KeyLoc)
        /\ lsm \in [Key -> Loc \cup {Nowhere}] /\ touched \subseteq Segment
    BY DEF Bounds, Locations
  <1>e. <<>> \in Seq(KeyLoc) /\ NoLog.keys = <<>>  BY DEF NoLog
  <1>n. Nowhere' = Nowhere  BY DEF Nowhere
  <1>1. ASSUME UNCHANGED <<batch, updateLog, lsm, touched>> PROVE Locations'
    BY <1>0, <1>n, <1>1 DEF Locations
  <1>2. ASSUME NEW k \in Key, NEW s \in Sizes[k], Put(k, s) \/ FlushBeforeWrite(k, s) PROVE Locations'
    BY <1>1, <1>2 DEF Put, FlushBeforeWrite, durable
  <1>3. ASSUME NEW g \in Group, PickGroup(g) \/ GCOneGroup(g) PROVE Locations'
    BY <1>1, <1>3 DEF PickGroup, GCOneGroup, durable
  <1>a. ASSUME NEW key \in Key, NEW loc \in Loc,
               batch' = Append(batch, [key |-> key, loc |-> loc]),
               touched' = touched \cup {loc.seg}, UNCHANGED <<updateLog, lsm>>
        PROVE  Locations'
    <2>1. [key |-> key, loc |-> loc] \in KeyLoc /\ loc.seg \in Segment  BY DEF KeyLoc, Loc
    <2>2. batch' \in Seq(KeyLoc)  BY <1>0, <1>a, <2>1
    <2> QED  BY <1>0, <1>a, <1>n, <2>1, <2>2 DEF Locations
  <1>4. ASSUME NEW r \in survivors, RewriteRecord(r) PROVE Locations'
    <2> DEFINE p == Place(meta, victim, curFront, r.size)
    <2>1. /\ batch' = Append(batch, [key |-> r.key, loc |-> p.loc])
          /\ touched' = touched \cup {p.loc.seg} /\ UNCHANGED <<updateLog, lsm>>
      BY <1>4 DEF RewriteRecord, durable
    <2>2. p.loc \in Loc /\ r \in Rec  BY <1>4, RewritePlace
    <2>3. r.key \in Key  BY <2>2 DEF Rec, Record
    <2> HIDE DEF p
    <2> QED  BY <1>a, <2>1, <2>2, <2>3
  <1>5. ASSUME FlushRecord PROVE Locations'
    <2> DEFINE r == pool[NextUpdate(cur)]
               p == Place(meta, cur, curFront, r.size)
    <2>1. /\ batch' = Append(batch, [key |-> r.key, loc |-> p.loc])
          /\ touched' = touched \cup {p.loc.seg} /\ UNCHANGED <<updateLog, lsm>>
      BY <1>5 DEF FlushRecord
    <2>2. r \in Rec /\ p.loc \in Loc  BY <1>5, FlushRecordPlace
    <2>3. r.key \in Key  BY <2>2 DEF Rec, Record
    <2> HIDE DEF r, p
    <2> QED  BY <1>a, <2>1, <2>2, <2>3
  <1>6. ASSUME LeaveGroup \/ ReservedOverflow \/ EndOfUpdates \/ LogMetaPersist
               \/ WriteKeyBatchFails \/ GCGreedyInVain
        PROVE  Locations'
    BY <1>1, <1>6 DEF LeaveGroup, ReservedOverflow, EndOfUpdates, LogMetaPersist,
                      WriteKeyBatchFails, GCGreedyInVain, durable, volatile
  <1>7. ASSUME SetBatchUpdateKeyValue PROVE Locations'
    <2>1. UNCHANGED <<batch, lsm, touched>> /\ updateLog'.keys \in {<<>>, batch}
      BY <1>7, <1>e DEF SetBatchUpdateKeyValue, volatile
    <2> QED  BY <1>0, <1>e, <1>n, <2>1 DEF Locations
  <1>8. ASSUME WriteKeyBatch PROVE Locations'
    <2>1. UNCHANGED <<batch, updateLog, touched>> /\ lsm' = Located(lsm, batch)
      BY <1>8 DEF WriteKeyBatch, volatile
    <2>2. lsm' \in [Key -> Loc \cup {Nowhere}]  BY <1>0, <2>1, LocatedType
    <2> QED  BY <1>0, <1>n, <2>1, <2>2 DEF Locations
  <1>9. ASSUME SetBatchGCKeyValue PROVE Locations'  BY <1>1, <1>9 DEF SetBatchGCKeyValue
  <1>10. ASSUME AckBeforeGC \/ FinishGC \/ FinishFlush PROVE Locations'
    <2>1. batch' = <<>> /\ touched' = {} /\ lsm' = lsm /\ (updateLog' = NoLog \/ updateLog' = updateLog)
      BY <1>10 DEF AckBeforeGC, FinishGC, FinishFlush, ForgetBatch
    <2> QED  BY <1>0, <1>e, <1>n, <2>1 DEF Locations
  <1>11. ASSUME NEW s \in Segment, WriteSegment(s) PROVE Locations'
    BY <1>1, <1>11 DEF WriteSegment
  <1>12. ASSUME Crash PROVE Locations'
    <2>1. batch' = <<>> /\ touched' = {} /\ lsm' = lsm /\ updateLog' = updateLog
      BY <1>12 DEF Crash, ForgetBatch, durable
    <2> QED  BY <1>0, <1>e, <1>n, <2>1 DEF Locations
  <1>13. ASSUME Recover PROVE Locations'
    <2>1. UNCHANGED <<batch, touched>> /\ updateLog' = NoLog /\ lsm' = Located(lsm, updateLog.keys)
      BY <1>13 DEF Recover
    <2>2. lsm' \in [Key -> Loc \cup {Nowhere}]  BY <1>0, <2>1, LocatedType
    <2> QED  BY <1>0, <1>e, <1>n, <2>1, <2>2 DEF Locations
  <1> QED
    BY <1>2, <1>3, <1>4, <1>5, <1>6, <1>7, <1>8, <1>9, <1>10, <1>11, <1>12, <1>13 DEF Next

LEMMA MemoryKept ==
  ASSUME IInv, Bounds, Next
  PROVE  MemoryFits'
  <1>0. /\ MetaFits(meta) /\ (pc = "down" => meta = NoMeta) /\ (pc \in {"idle", "down"} => cur = None)
        /\ (pc = "gc" \/ victim # None => cur # None)
        /\ curFront \in Fronts /\ (Flushing => curFront <= Room(meta.segs[cur]))
        /\ (pc = "rewrite" => curFront <= Room(meta.segs[victim]))
    BY DEF Bounds, MemoryFits
  <1>c. cur \in Group \cup {None} /\ victim \in Group \cup {None}  BY DEF IInv, Buffer
  <1>1. ASSUME NEW k \in Key, NEW s \in Sizes[k], Put(k, s) \/ FlushBeforeWrite(k, s) PROVE MemoryFits'
    <2>1. /\ pc = "idle" /\ meta' = GetNewMainSegment(meta, Hash[k]) /\ pc' \in {"idle", "flush"}
          /\ UNCHANGED <<cur, curFront, victim>>
      BY <1>1 DEF Put, FlushBeforeWrite
    <2>2. MetaFits(meta')
      <3>1. Own(meta) /\ Hash[k] \in Group  BY <2>1, RunningFacts, HashKVAssumption
      <3> QED  BY <1>0, <2>1, <3>1, NewMainFits
    <2> QED  BY <1>0, <2>1, <2>2 DEF MemoryFits, Flushing
  <1>2. ASSUME NEW g \in Group, PickGroup(g) PROVE MemoryFits'
    <2>1. /\ pc = "flush" /\ pc' = pc /\ meta' = meta /\ cur' = g /\ curFront' = meta.front[g]
          /\ victim' = victim
      BY <1>2 DEF PickGroup
    <2>2. Shape(meta.segs[g], g) /\ Fitting(meta.front[g], meta.segs[g])
      BY <1>0, <2>1, RunningFacts DEF MetaFits
    <2>3. curFront' \in Fronts /\ curFront' <= Room(meta.segs[g])  BY <2>1, <2>2, FittingFacts
    <2>4. g # None  BY DEF Group, None
    <2> QED  BY <1>0, <2>1, <2>3, <2>4 DEF MemoryFits, Flushing
  <1>3. ASSUME NEW g \in Group, GCOneGroup(g) PROVE MemoryFits'
    <2>1. /\ pc = "gc" /\ pc' = "rewrite" /\ meta' = ReleaseGroup(meta, g) /\ victim' = g
          /\ curFront' = 0 /\ cur' = cur
      BY <1>3 DEF GCOneGroup
    <2>2. Own(meta)  BY <2>1, RunningFacts
    <2>3. MetaFits(meta') /\ meta'.segs[g] = <<g>>  BY <1>0, <2>1, <2>2, ReleaseFits, ReleaseOwn
    <2>4. 0 \in Fronts /\ 0 <= Room(<<g>>)  BY MainFits DEF Fitting
    <2> QED  BY <1>0, <2>1, <2>3, <2>4 DEF MemoryFits, Flushing
  <1>4. ASSUME NEW r \in survivors, RewriteRecord(r) PROVE MemoryFits'
    <2> DEFINE p == Place(meta, victim, curFront, r.size)
    <2>1. /\ pc = "rewrite" /\ pc' = pc /\ meta' = p.meta /\ curFront' = p.front
          /\ cur' = cur /\ victim' = victim
      BY <1>4 DEF RewriteRecord
    <2>2. MetaFits(p.meta) /\ p.front \in Fronts /\ p.front <= Room(p.meta.segs[victim])
      BY <1>4, RewritePlace
    <2> HIDE DEF p
    <2> QED  BY <1>0, <2>1, <2>2 DEF MemoryFits, Flushing
  <1>5. ASSUME FlushRecord PROVE MemoryFits'
    <2> DEFINE r == pool[NextUpdate(cur)]
               p == Place(meta, cur, curFront, r.size)
    <2>1. /\ pc = "flush" /\ pc' = pc /\ meta' = p.meta /\ curFront' = p.front
          /\ cur' = cur /\ victim' = victim
      BY <1>5 DEF FlushRecord
    <2>2. MetaFits(p.meta) /\ p.front \in Fronts /\ p.front <= Room(p.meta.segs[cur])
      BY <1>5, FlushRecordPlace
    <2> HIDE DEF r, p
    <2> QED  BY <1>0, <2>1, <2>2 DEF MemoryFits, Flushing
  <1>6. ASSUME LeaveGroup \/ AckBeforeGC PROVE MemoryFits'
    <2>1. /\ pc \in {"flush", "ack"} /\ cur # None /\ meta' = [meta EXCEPT !.front[cur] = curFront]
          /\ victim' = victim /\ curFront' = curFront
          /\ (pc' = "flush" /\ cur' = None) \/ (pc' = "gc" /\ cur' = cur)
      BY <1>6 DEF LeaveGroup, AckBeforeGC
    <2>2. victim = None
      <3>1. CASE LeaveGroup  BY <3>1, RunningFacts DEF LeaveGroup, Phases
      <3>2. CASE AckBeforeGC  BY <3>2 DEF AckBeforeGC
      <3> QED  BY <1>6, <3>1, <3>2
    <2>3. curFront \in Nat /\ curFront <= Room(meta.segs[cur]) /\ cur \in Group
      BY <1>0, <1>c, <2>1, <2>2 DEF Flushing, Fronts
    <2>4. MetaFits(meta')  BY <1>0, <2>1, <2>3, RunningFacts, NewFrontFits
    <2> QED  BY <1>0, <2>1, <2>2, <2>4 DEF MemoryFits, Flushing
  <1>7. ASSUME SetBatchGCKeyValue PROVE MemoryFits'
    <2>1. /\ pc = "rewrite" /\ pc' = "gcdata" /\ meta' = [meta EXCEPT !.front[victim] = curFront]
          /\ victim' = victim /\ curFront' = curFront /\ cur' = cur
      BY <1>7 DEF SetBatchGCKeyValue
    <2>2. Own(meta) /\ victim # None /\ victim \in Group
      BY <1>c, <2>1, RunningFacts DEF Phases
    <2>3. curFront \in Nat /\ curFront <= Room(meta.segs[victim])
      BY <1>0, <2>1 DEF Fronts
    <2>4. MetaFits(meta')  BY <1>0, <2>1, <2>2, <2>3, NewFrontFits
    <2> QED  BY <1>0, <2>1, <2>4 DEF MemoryFits, Flushing
  <1>8. ASSUME ReservedOverflow \/ EndOfUpdates \/ SetBatchUpdateKeyValue \/ WriteKeyBatch
                 \/ WriteKeyBatchFails \/ LogMetaPersist
        PROVE  MemoryFits'
    <2>1. /\ UNCHANGED <<meta, cur, curFront, victim>>
          /\ pc \in {"flush", "log", "keys", "meta"} /\ pc' \in {"log", "keys", "meta", "ack"}
      BY <1>8 DEF ReservedOverflow, EndOfUpdates, SetBatchUpdateKeyValue, WriteKeyBatch,
                  WriteKeyBatchFails, LogMetaPersist, volatile
    <2>2. Flushing' => Flushing  BY <2>1 DEF Flushing
    <2> QED  BY <1>0, <2>1, <2>2 DEF MemoryFits
  <1>13. ASSUME GCGreedyInVain PROVE MemoryFits'
    <2>1. UNCHANGED <<meta, cur, curFront, victim, pc>>  BY <1>13 DEF GCGreedyInVain
    <2>2. NoMeta' = NoMeta /\ Flushing' = Flushing  BY <2>1 DEF NoMeta, Flushing
    <2> QED  BY <1>0, <2>1, <2>2 DEF MemoryFits
  <1>9. ASSUME NEW s \in Segment, WriteSegment(s) PROVE MemoryFits'
    <2>1. UNCHANGED <<meta, cur, curFront, victim>> /\ pc = "gcdata" /\ pc' \in {"keys", "gcdata"}
      BY <1>9 DEF WriteSegment
    <2>2. victim # None  BY <2>1, RunningFacts DEF Phases
    <2> QED  BY <1>0, <2>1, <2>2 DEF MemoryFits, Flushing
  <1>10. ASSUME FinishFlush \/ FinishGC PROVE MemoryFits'
    <2>1. /\ UNCHANGED <<meta, curFront>> /\ victim' = None
          /\ \/ (pc' = "idle" \/ pc' = "flush") /\ cur' = None
             \/ pc' = "gc" /\ cur' = cur /\ victim # None
      BY <1>10 DEF FinishFlush, FinishGC
    <2> QED  BY <1>0, <2>1 DEF MemoryFits, Flushing
  <1>11. ASSUME Crash PROVE MemoryFits'
    <2>1. meta' = NoMeta /\ pc' = "down" /\ cur' = None /\ curFront' = 0 /\ victim' = None
      BY <1>11 DEF Crash
    <2>2. NoMeta' = NoMeta  BY DEF NoMeta
    <2>3. MetaFits(meta') /\ 0 \in Fronts
      <3>1. 0 \in Group  BY HashKVAssumption DEF Group
      <3> QED  BY <2>1, <3>1, NoMetaFits, MainFits
    <2> QED  BY <2>1, <2>2, <2>3 DEF MemoryFits, Flushing
  <1>12. ASSUME Recover PROVE MemoryFits'
    <2>1. pc = "down" /\ pc' = "idle" /\ meta' = Restored /\ UNCHANGED <<cur, curFront, victim>>
      BY <1>12 DEF Recover, Restored, Ended, Based
    <2>2. MetaFits(meta')  BY <2>1, RestoredFits
    <2> QED  BY <1>0, <2>1, <2>2 DEF MemoryFits, Flushing
  <1> QED
    BY <1>1, <1>2, <1>3, <1>4, <1>5, <1>6, <1>7, <1>8, <1>9, <1>10, <1>11, <1>12, <1>13 DEF Next

LEMMA PersistedFits ==
  ASSUME NEW m, MetaFits(m), DurableFits, NEW gs \in SUBSET Group, NEW new, new = Persisted(m, gs)
  PROVE  /\ new = [g \in Group |-> [front |-> new[g].front, segs |-> new[g].segs]]
         /\ \A g \in Group : Fitting(new[g].front, new[g].segs)
         /\ \A g \in gs : new[g] = [front |-> m.front[g], segs |-> m.segs[g]]
         /\ \A g \in Group \ gs : new[g] = groupMeta[g]
  <1>1. /\ new = [g \in Group |-> new[g]]
        /\ \A g \in gs : new[g] = [front |-> m.front[g], segs |-> m.segs[g]]
        /\ \A g \in Group \ gs : new[g] = groupMeta[g]
    BY DEF Persisted, GroupsOf
  <1>2. \A g \in Group : groupMeta[g] = [front |-> groupMeta[g].front, segs |-> groupMeta[g].segs]
    <2> DEFINE F(g) == [front |-> groupMeta[g].front, segs |-> groupMeta[g].segs]
    <2>1. groupMeta = [g \in Group |-> F(g)]  BY DEF DurableFits
    <2> HIDE DEF F
    <2>2. \A g \in Group : groupMeta[g] = F(g)  BY <2>1
    <2> QED  BY <2>2 DEF F
  <1>3. ASSUME NEW g \in Group
        PROVE  new[g] = [front |-> new[g].front, segs |-> new[g].segs] /\ Fitting(new[g].front, new[g].segs)
    <2>1. CASE g \in gs
      <3>1. new[g] = [front |-> m.front[g], segs |-> m.segs[g]]  BY <1>1, <2>1
      <3>2. new[g].front = m.front[g] /\ new[g].segs = m.segs[g]  BY <3>1
      <3>3. Fitting(m.front[g], m.segs[g])  BY DEF MetaFits
      <3> QED  BY <3>1, <3>2, <3>3
    <2>2. CASE g \notin gs
      <3>1. new[g] = groupMeta[g] /\ Fitting(groupMeta[g].front, groupMeta[g].segs)
        BY <1>1, <2>2 DEF DurableFits
      <3> QED  BY <1>2, <3>1
    <2> QED  BY <2>1, <2>2
  <1>4. new = [g \in Group |-> [front |-> new[g].front, segs |-> new[g].segs]]
    <2> DEFINE F(g) == [front |-> new[g].front, segs |-> new[g].segs]
    <2>1. \A g \in Group : new[g] = F(g)  BY <1>3
    <2> HIDE DEF F
    <2>2. new = [g \in Group |-> F(g)]  BY <1>1, <2>1
    <2> QED  BY <2>2 DEF F
  <1> QED  BY <1>1, <1>3, <1>4

LEMMA DurableKept ==
  ASSUME IInv, Bounds, Next
  PROVE  DurableFits'
  <1>0. DurableFits  BY DEF Bounds
  <1>m. MetaFits(meta)  BY DEF Bounds, MemoryFits
  <1>c. modified \subseteq Group  BY DEF IInv, Buffer
  <1>e. DOMAIN <<>> = {} /\ NoLog.groups = <<>>  BY DEF NoLog
  <1>d. ASSUME UNCHANGED <<groupMeta, segMeta>>,
               updateLog' = updateLog \/ \A g \in DOMAIN updateLog'.groups :
                 Fitting(updateLog'.groups[g].front, updateLog'.groups[g].segs),
               gcLog' = gcLog \/ \A g \in DOMAIN gcLog' : Fitting(gcLog'[g].front, gcLog'[g].segs)
        PROVE  DurableFits'
    <2>1. \A g \in DOMAIN updateLog'.groups :
            Fitting(updateLog'.groups[g].front, updateLog'.groups[g].segs)
      BY <1>0, <1>d DEF DurableFits
    <2>2. \A g \in DOMAIN gcLog' : Fitting(gcLog'[g].front, gcLog'[g].segs)
      BY <1>0, <1>d DEF DurableFits
    <2>3. groupMeta' = groupMeta /\ segMeta' = segMeta  BY <1>d
    <2> QED  BY <1>0, <2>1, <2>2, <2>3 DEF DurableFits
  <1>g. ASSUME NEW m, MetaFits(m), NEW gs \in SUBSET Group
        PROVE  \A g \in DOMAIN GroupsOf(m, gs) :
                 Fitting(GroupsOf(m, gs)[g].front, GroupsOf(m, gs)[g].segs)
    BY <1>g DEF GroupsOf, MetaFits
  <1>1. ASSUME UNCHANGED <<groupMeta, segMeta, updateLog, gcLog>> PROVE DurableFits'
    BY <1>d, <1>1
  <1>2. ASSUME NEW k \in Key, NEW s \in Sizes[k], Put(k, s) \/ FlushBeforeWrite(k, s) PROVE DurableFits'
    BY <1>1, <1>2 DEF Put, FlushBeforeWrite, durable
  <1>3. ASSUME NEW g \in Group, PickGroup(g) \/ GCOneGroup(g) PROVE DurableFits'
    BY <1>1, <1>3 DEF PickGroup, GCOneGroup, durable
  <1>4. ASSUME NEW r \in survivors, RewriteRecord(r) PROVE DurableFits'
    BY <1>1, <1>4 DEF RewriteRecord, durable
  <1>5. ASSUME FlushRecord \/ LeaveGroup \/ ReservedOverflow \/ EndOfUpdates \/ WriteKeyBatch
               \/ WriteKeyBatchFails \/ GCGreedyInVain \/ Crash
        PROVE DurableFits'
    BY <1>1, <1>5 DEF FlushRecord, LeaveGroup, ReservedOverflow, EndOfUpdates, WriteKeyBatch,
                      WriteKeyBatchFails, GCGreedyInVain, Crash, durable
  <1>6. ASSUME NEW s \in Segment, WriteSegment(s) PROVE DurableFits'
    BY <1>1, <1>6 DEF WriteSegment
  <1>7. ASSUME SetBatchUpdateKeyValue PROVE DurableFits'
    <2>1. /\ UNCHANGED <<groupMeta, segMeta, gcLog>>
          /\ updateLog'.groups = <<>> \/ updateLog'.groups = GroupsOf(meta, modified)
      BY <1>7, <1>e DEF SetBatchUpdateKeyValue
    <2>2. \A g \in DOMAIN updateLog'.groups :
            Fitting(updateLog'.groups[g].front, updateLog'.groups[g].segs)
      <3>1. CASE updateLog'.groups = <<>>  BY <1>e, <3>1
      <3>2. CASE updateLog'.groups = GroupsOf(meta, modified)
        BY <1>m, <1>c, <1>g, <3>2
      <3> QED  BY <2>1, <3>1, <3>2
    <2> QED  BY <1>d, <2>1, <2>2
  <1>8. ASSUME SetBatchGCKeyValue PROVE DurableFits'
    <2>1. UNCHANGED <<groupMeta, segMeta, updateLog>> /\ gcLog' = GroupsOf(meta', modified)
      BY <1>8 DEF SetBatchGCKeyValue
    <2>2. MetaFits(meta')  BY MemoryKept DEF MemoryFits
    <2>3. \A g \in DOMAIN gcLog' : Fitting(gcLog'[g].front, gcLog'[g].segs)
      BY <1>c, <1>g, <2>1, <2>2
    <2> QED  BY <1>d, <2>1, <2>3
  <1>9. ASSUME AckBeforeGC \/ FinishGC \/ FinishFlush PROVE DurableFits'
    <2>1. /\ UNCHANGED <<groupMeta, segMeta>> /\ (updateLog' = NoLog \/ updateLog' = updateLog)
          /\ gcLog' = gcLog \/ gcLog' = <<>>
      BY <1>9 DEF AckBeforeGC, FinishGC, FinishFlush
    <2> QED  BY <1>d, <1>e, <2>1
  <1>10. ASSUME LogMetaPersist PROVE DurableFits'
    <2>1. /\ groupMeta' = Persisted(meta, modified) /\ UNCHANGED <<updateLog, gcLog>>
          /\ segMeta' = [s \in Segment |-> IF s \in touched THEN meta.segFront[s] ELSE segMeta[s]]
      BY <1>10 DEF LogMetaPersist
    <2>2. /\ groupMeta' = [g \in Group |-> [front |-> groupMeta'[g].front, segs |-> groupMeta'[g].segs]]
          /\ \A g \in Group : Fitting(groupMeta'[g].front, groupMeta'[g].segs)
      BY <1>0, <1>m, <1>c, <2>1, PersistedFits
    <2>3. \A s \in Segment : segMeta'[s] \in Nat /\ segMeta'[s] <= Cap(s)
      BY <1>0, <1>m, <2>1 DEF DurableFits, MetaFits
    <2>4. segMeta' = [s \in Segment |-> segMeta'[s]]  BY <2>1
    <2> QED  BY <1>0, <2>1, <2>2, <2>3, <2>4 DEF DurableFits
  <1>11. ASSUME Recover PROVE DurableFits'
    <2> DEFINE gs == DOMAIN updateLog.groups \cup DOMAIN gcLog
               ends == {updateLog.keys[i].loc.seg : i \in DOMAIN updateLog.keys}
    <2>1. /\ groupMeta' = Persisted(Restored, gs) /\ updateLog' = NoLog /\ gcLog' = <<>>
          /\ segMeta' = [s \in Segment |-> IF s \in ends THEN Restored.segFront[s] ELSE segMeta[s]]
          /\ pc = "down"
      BY <1>11 DEF Recover, Restored, Ended, Based
    <2>2. MetaFits(Restored) /\ gs \in SUBSET Group  BY <2>1, RestoredFits, RecoverySteps
    <2> HIDE DEF gs, ends
    <2>3. /\ groupMeta' = [g \in Group |-> [front |-> groupMeta'[g].front, segs |-> groupMeta'[g].segs]]
          /\ \A g \in Group : Fitting(groupMeta'[g].front, groupMeta'[g].segs)
      BY <1>0, <2>1, <2>2, PersistedFits
    <2>4. \A s \in Segment : segMeta'[s] \in Nat /\ segMeta'[s] <= Cap(s)
      BY <1>0, <2>1, <2>2 DEF DurableFits, MetaFits
    <2>5. segMeta' = [s \in Segment |-> segMeta'[s]]  BY <2>1
    <2> QED  BY <1>e, <2>1, <2>3, <2>4, <2>5 DEF DurableFits
  <1> QED
    BY <1>2, <1>3, <1>4, <1>5, <1>6, <1>7, <1>8, <1>9, <1>10, <1>11 DEF Next

LEMMA ControlKept ==
  ASSUME IInv, Bounds, Next
  PROVE  Control'
  <1>0. Control  BY DEF Bounds
  <1> USE DEF Control
  <1>c. cur \in Group \cup {None} /\ modified \subseteq Group  BY DEF IInv, Buffer
  <1>1. ASSUME NEW k \in Key, NEW s \in Sizes[k], Put(k, s) \/ FlushBeforeWrite(k, s) PROVE Control'
    BY <1>0, <1>1 DEF Put, FlushBeforeWrite, history
  <1>2. ASSUME NEW g \in Group, PickGroup(g) PROVE Control'
    BY <1>0, <1>2 DEF PickGroup, history
  <1>10. ASSUME NEW g \in Group, GCOneGroup(g) PROVE Control'
    <2>1. pc = "gc" /\ survivors' = KeyCount(Scan(g)) /\ torn' = torn \cup Revived(g, survivors')
      BY <1>10 DEF GCOneGroup
    <2>2. survivors' \subseteq Rec  BY <2>1, ScannedRecords
    <2>3. Revived(g, survivors') \subseteq Group
      BY <2>2, HashKVAssumption DEF Revived, Rec, Record
    <2> QED  BY <1>0, <1>10, <2>1, <2>3 DEF GCOneGroup
  <1>3. ASSUME NEW r \in survivors, RewriteRecord(r) PROVE Control'
    BY <1>0, <1>3 DEF RewriteRecord, history
  <1>4. ASSUME FlushRecord \/ LeaveGroup \/ ReservedOverflow \/ EndOfUpdates \/ WriteKeyBatch
               \/ GCGreedyInVain
        PROVE  Control'
    BY <1>0, <1>4 DEF FlushRecord, LeaveGroup, ReservedOverflow, EndOfUpdates, WriteKeyBatch,
                      GCGreedyInVain, history
  <1>11. ASSUME WriteKeyBatchFails PROVE Control'
    <2>1. /\ pc' = "meta" /\ torn' = torn \cup {Hash[batch[i].key] : i \in DOMAIN batch}
          /\ faults < MaxFaults /\ faults' = faults + 1 /\ UNCHANGED <<exposed, unranked>>
      BY <1>11 DEF WriteKeyBatchFails
    <2>2. \A i \in DOMAIN batch : batch[i] \in KeyLoc  BY DEF Bounds, Locations
    <2>3. \A i \in DOMAIN batch : Hash[batch[i].key] \in Group
      BY <2>2, HashKVAssumption DEF KeyLoc
    <2> QED  BY <1>0, <2>1, <2>3, HashKVAssumption
  <1>s. Stale \subseteq Group  BY <1>c DEF Stale
  <1>5. ASSUME SetBatchUpdateKeyValue \/ LogMetaPersist PROVE Control'
    BY <1>0, <1>5, <1>s DEF SetBatchUpdateKeyValue, LogMetaPersist
  <1>6. ASSUME SetBatchGCKeyValue \/ AckBeforeGC \/ FinishGC \/ FinishFlush PROVE Control'
    BY <1>0, <1>6 DEF SetBatchGCKeyValue, AckBeforeGC, FinishGC, FinishFlush, history
  <1>7. ASSUME NEW s \in Segment, WriteSegment(s) PROVE Control'
    BY <1>0, <1>7 DEF WriteSegment, history
  <1>8. ASSUME Crash PROVE Control'
    <2>1. /\ pc # "down" /\ pc' = "down" /\ faults < MaxFaults /\ faults' = faults + 1
          /\ torn' = torn \cup exposed \cup Unborn \cup DOMAIN gcLog /\ exposed' = {}
          /\ unranked' = {}
      BY <1>8 DEF Crash
    <2>2. DOMAIN gcLog \subseteq Group /\ DOMAIN updateLog.groups \subseteq Group
      BY <2>1, RunningRestorable DEF Restorable, Fits
    <2> QED  BY <1>0, <2>1, <2>2, HashKVAssumption DEF Unborn
  <1>9. ASSUME Recover PROVE Control'  BY <1>0, <1>9 DEF Recover
  <1> QED
    BY <1>1, <1>2, <1>3, <1>4, <1>5, <1>6, <1>7, <1>8, <1>9, <1>10, <1>11 DEF Next

(* Every ratio in the heap is that of a front within the group's segments.  *)
LEMMA HeapKept ==
  ASSUME IInv, Bounds, Next
  PROVE  HeapFits'
  <1> DEFINE T == [Group -> Fronts \cup {None}]
  <1>0. /\ heap = [front |-> heap.front, ordered |-> heap.ordered]
        /\ heap.front \in T /\ heap.ordered \in BOOLEAN
    BY DEF Bounds, HeapFits
  <1>b. \A a, b : AtMost(a, b) \in BOOLEAN  BY DEF AtMost
  <1>m. curFront \in Fronts /\ \A g \in Group : meta.front[g] \in Fronts
    <2>1. MetaFits(meta) /\ curFront \in Fronts  BY DEF Bounds, MemoryFits
    <2>2. \A g \in Group : Shape(meta.segs[g], g)
      <3>1. Own(meta)
        <4>1. CASE pc = "down"  BY <4>1, NoMetaOwn DEF Bounds, MemoryFits
        <4>2. CASE pc # "down"  BY <4>2, RunningFacts
        <4> QED  BY <4>1, <4>2
      <3> QED  BY <3>1 DEF Own
    <2>3. \A g \in Group : meta.front[g] \in Fronts  BY <2>1, <2>2, FittingFacts DEF MetaFits
    <2> QED  BY <2>1, <2>3
  <1>c. cur \in Group \cup {None} /\ victim \in Group \cup {None}  BY DEF IInv, Buffer
  <1>t. ASSUME NEW F \in T, NEW b \in BOOLEAN, heap' = [front |-> F, ordered |-> b] PROVE HeapFits'
    <2>1. heap'.front = F /\ heap'.ordered = b  BY <1>t
    <2>2. HeapFits' = (/\ heap' = [front |-> heap'.front, ordered |-> heap'.ordered]
                       /\ heap'.front \in T /\ heap'.ordered \in BOOLEAN)
      BY DEF HeapFits, None
    <2> QED  BY <1>t, <2>1, <2>2
  <1>u. ASSUME heap' = heap PROVE HeapFits'
    <2>1. heap' = [front |-> heap.front, ordered |-> heap.ordered]  BY <1>0, <1>u
    <2> QED  BY <1>0, <1>t, <2>1
  <1>r. ASSUME NEW g \in Group, NEW f \in Fronts, heap' = Rank(g, f) PROVE HeapFits'
    <2>1. CASE f = 0  BY <1>u, <1>r, <2>1 DEF Rank
    <2>2. CASE f # 0
      <3> DEFINE F == [heap.front EXCEPT ![g] = f]
                 b == heap.ordered /\ AtMost(MinRatio(f), MinRatio(heap.front[g]))
      <3>1. heap' = [front |-> F, ordered |-> b]  BY <1>r, <2>2 DEF Rank
      <3>2. F \in T /\ b \in BOOLEAN  BY <1>0, <1>b
      <3> HIDE DEF F, b, T
      <3> QED  BY <1>t, <3>1, <3>2
    <2> QED  BY <2>1, <2>2
  <1>n. ASSUME heap' = NoHeap PROVE HeapFits'
    <2>1. [g \in Group |-> None] \in T  OBVIOUS
    <2>2. heap' = [front |-> [g \in Group |-> None], ordered |-> TRUE]  BY <1>n DEF NoHeap
    <2> HIDE DEF T
    <2> QED  BY <1>t, <2>1, <2>2
  <1> HIDE DEF T
  <1>1. ASSUME NEW k \in Key, NEW s \in Sizes[k], Put(k, s) \/ FlushBeforeWrite(k, s) PROVE HeapFits'
    BY <1>1, <1>u DEF Put, FlushBeforeWrite
  <1>2. ASSUME NEW g \in Group, PickGroup(g) PROVE HeapFits'
    BY <1>2, <1>u DEF PickGroup
  <1>3. ASSUME NEW g \in Group, GCOneGroup(g) PROVE HeapFits'
    <2>1. PICK out \in Dropped : heap' = [heap EXCEPT !.front =
            [h \in Group |-> IF h = g THEN MainSize ELSE IF h \in out THEN None ELSE heap.front[h]]]
      BY <1>3 DEF GCOneGroup
    <2> DEFINE F == [h \in Group |-> IF h = g THEN MainSize ELSE IF h \in out THEN None
                                     ELSE heap.front[h]]
    <2>2. MainSize \in Fronts
      <3>1. MainSize \in Nat /\ LogSize \in Nat /\ NumLog \in Nat  BY SizeFacts
      <3>2. NumLog * LogSize \in Nat  BY <3>1
      <3> HIDE DEF F
      <3> QED  BY <3>1, <3>2 DEF Fronts
    <2>3. F \in T  BY <1>0, <2>2 DEF T
    <2> HIDE DEF F
    <2>4. heap' = [front |-> F, ordered |-> heap.ordered]  BY <1>0, <2>1 DEF F
    <2> QED  BY <1>0, <1>t, <2>3, <2>4
  <1>4. ASSUME NEW r \in survivors, RewriteRecord(r) PROVE HeapFits'
    BY <1>4, <1>u DEF RewriteRecord
  <1>5. ASSUME FlushRecord \/ ReservedOverflow \/ EndOfUpdates \/ SetBatchUpdateKeyValue
               \/ WriteKeyBatch \/ WriteKeyBatchFails \/ LogMetaPersist \/ FinishFlush
        PROVE  HeapFits'
    BY <1>5, <1>u DEF FlushRecord, ReservedOverflow, EndOfUpdates, SetBatchUpdateKeyValue,
                      WriteKeyBatch, WriteKeyBatchFails, LogMetaPersist, FinishFlush, volatile
  <1>6. ASSUME LeaveGroup \/ AckBeforeGC PROVE HeapFits'
    <2>1. cur # None /\ heap' = Rank(cur, curFront)  BY <1>6 DEF LeaveGroup, AckBeforeGC
    <2> QED  BY <1>c, <1>m, <1>r, <2>1
  <1>7. ASSUME SetBatchGCKeyValue PROVE HeapFits'
    <2>1. pc = "rewrite" /\ heap' = Rank(victim, curFront)  BY <1>7 DEF SetBatchGCKeyValue
    <2>2. victim \in Group  BY <1>c, <2>1, RunningFacts DEF Phases
    <2> QED  BY <1>m, <1>r, <2>1, <2>2
  <1>8. ASSUME FinishGC PROVE HeapFits'
    <2>1. heap' = heap \/ heap' = Rank(cur, meta.front[cur])  BY <1>8 DEF FinishGC
    <2>2. cur \in Group  BY <1>8, <1>c DEF FinishGC, Bounds, MemoryFits
    <2> QED  BY <1>m, <1>r, <1>u, <2>1, <2>2
  <1>9. ASSUME GCGreedyInVain \/ Crash PROVE HeapFits'
    BY <1>9, <1>n DEF GCGreedyInVain, Crash
  <1>10. ASSUME NEW s \in Segment, WriteSegment(s) PROVE HeapFits'
    BY <1>10, <1>u DEF WriteSegment
  <1>11. ASSUME Recover PROVE HeapFits'
    <2> DEFINE F == [g \in Group |-> IF groupMeta[g] = NoGroup THEN None ELSE groupMeta[g].front]
    <2>1. heap' = [front |-> F, ordered |-> TRUE] /\ pc = "down"  BY <1>11 DEF Recover
    <2>2. \A g \in Group : groupMeta[g].front \in Fronts
      <3>1. \A g \in Group : Shape(groupMeta[g].segs, g)  BY DEF IInv
      <3> QED  BY <3>1, FittingFacts DEF Bounds, DurableFits
    <2>3. F \in T  BY <2>2 DEF T
    <2> HIDE DEF F
    <2> QED  BY <1>t, <2>1, <2>3
  <1> QED
    BY <1>1, <1>2, <1>3, <1>4, <1>5, <1>6, <1>7, <1>8, <1>9, <1>10, <1>11 DEF Next

LEMMA InitBounds == RecordsFit /\ Init => Bounds
  <1> SUFFICES ASSUME RecordsFit, Init PROVE Bounds  OBVIOUS
  <1> USE DEF Init
  <1>0. 0 \in Group  BY HashKVAssumption DEF Group
  <1>1. Records  BY SizeFacts, HashKVAssumption DEF Records
  <1>2. OnDisk  BY DEF OnDisk
  <1>3. Locations  BY DEF Locations, NoLog
  <1>4. MemoryFits
    <2>1. MetaFits(meta) /\ 0 \in Fronts  BY <1>0, NoMetaFits, MainFits
    <2> QED  BY <2>1 DEF MemoryFits, Flushing
  <1>5. DurableFits
    <2>1. NoGroup.front = 0 /\ NoGroup.segs = <<>> /\ NoGroup = [front |-> 0, segs |-> <<>>]
      BY DEF NoGroup
    <2>2. \A g \in Group : groupMeta[g].front = 0 /\ groupMeta[g].segs = <<>>  BY <2>1
    <2>3. \A g \in Group : Fitting(groupMeta[g].front, groupMeta[g].segs)
      BY <2>2, MainFits
    <2>4. groupMeta = [g \in Group |-> [front |-> groupMeta[g].front, segs |-> groupMeta[g].segs]]
      <3> DEFINE F(g) == [front |-> groupMeta[g].front, segs |-> groupMeta[g].segs]
      <3>1. \A g \in Group : groupMeta[g] = F(g)  BY <2>1, <2>2
      <3> HIDE DEF F
      <3>2. groupMeta = [g \in Group |-> F(g)]  BY <3>1
      <3> QED  BY <3>2 DEF F
    <2>5. \A s \in Segment : 0 <= Cap(s)  BY SizeFacts
    <2>6. DOMAIN updateLog.groups = {} /\ DOMAIN gcLog = {}  BY DEF NoLog
    <2> QED  BY <2>3, <2>4, <2>5, <2>6 DEF DurableFits
  <1>6. Control  BY HashKVAssumption DEF Control
  <1>7. HeapFits  BY DEF HeapFits, NoHeap
  <1> QED  BY <1>1, <1>2, <1>3, <1>4, <1>5, <1>6, <1>7 DEF Bounds

LEMMA NextBounds ==
  ASSUME IInv, Bounds, [Next]_vars
  PROVE  Bounds'
  <1>1. CASE Next
    <2>1. RecordsFit' = RecordsFit  BY DEF RecordsFit, Accepted
    <2> QED  BY <1>1, <2>1, RecordsKept, OnDiskKept, LocationsKept, MemoryKept, DurableKept,
                ControlKept, HeapKept DEF Bounds
  <1>2. CASE UNCHANGED vars
    <2> USE <1>2 DEF vars, volatile, durable, history
    <2>1. Records' /\ OnDisk' /\ Control'  BY DEF Bounds, Records, OnDisk, Control
    <2>2. Locations'  BY DEF Bounds, Locations, Nowhere
    <2>3. MemoryFits'
      <3>1. Flushing' = Flushing /\ NoMeta' = NoMeta  BY DEF Flushing, NoMeta
      <3> QED  BY <3>1 DEF Bounds, MemoryFits
    <2>4. DurableFits'  BY DEF Bounds, DurableFits
    <2>5. RecordsFit' /\ HeapFits'  BY DEF Bounds, RecordsFit, Accepted, HeapFits, None
    <2> QED  BY <2>1, <2>2, <2>3, <2>4, <2>5 DEF Bounds
  <1> QED  BY <1>1, <1>2

LEMMA BoundsInvariant == RecordsFit /\ Spec => [](IInv /\ Bounds)
  <1>1. IInv /\ Bounds /\ [Next]_vars => (IInv /\ Bounds)'  BY NextIInv, NextBounds
  <1>2. RecordsFit /\ Init => IInv /\ Bounds  BY InitIInv, InitBounds
  <1> QED  BY <1>1, <1>2, PTL DEF Spec

LEMMA MaxOfSizes ==
  Max({MainSize, LogSize}) \in Nat /\ \A s : Cap(s) <= Max({MainSize, LogSize})
  <1>1. MainSize \in Nat /\ LogSize \in Nat  BY SizeFacts
  <1>2. \E n \in Nat : {MainSize, LogSize} \subseteq 0..n
    <2> WITNESS MainSize + LogSize \in Nat
    <2> QED  BY <1>1
  <1>3. Max({MainSize, LogSize}) \in {MainSize, LogSize}
        /\ \A y \in {MainSize, LogSize} : y <= Max({MainSize, LogSize})
    BY <1>2, MaxIn
  <1> QED  BY <1>1, <1>3, SizeFacts

LEMMA BoundsTypes ==
  ASSUME IInv, Bounds
  PROVE  TypeOK
  <1>1. /\ Records /\ OnDisk /\ Locations /\ MemoryFits /\ DurableFits /\ Control /\ Buffer
        /\ HeapFits
    BY DEF Bounds, IInv
  <1>2. MainSize \in Nat \ {0} /\ LogSize \in Nat \ {0} /\ NumLog \in Nat  BY SizeFacts
  <1>3. Own(meta)
    <2>1. CASE pc = "down"  BY <1>1, <2>1, NoMetaOwn DEF MemoryFits
    <2>2. CASE pc # "down"  BY <2>2, RunningFacts
    <2> QED  BY <2>1, <2>2
  <1>4. Rec \subseteq Record  BY DEF Rec
  <1>5. pool \in Seq(Record) /\ survivors \subseteq Record
    BY <1>1, <1>4 DEF Records
  <1>6. ASSUME NEW g \in Group
        PROVE  /\ meta.segs[g] \in Seq(Segment) /\ Len(meta.segs[g]) <= NumLog + 1
               /\ meta.front[g] \in Fronts
    <2>1. Shape(meta.segs[g], g) /\ Fitting(meta.front[g], meta.segs[g])
      BY <1>1, <1>3 DEF Own, MemoryFits, MetaFits
    <2>2. Len(meta.segs[g]) \in 0..(NumLog + 1)  BY <2>1, ListBounded DEF Fitting
    <2>3. meta.front[g] \in Fronts  BY <2>1, FittingFacts
    <2> QED  BY <1>2, <2>1, <2>2, <2>3 DEF Shape
  <1>7. meta.front \in [Group -> Fronts]
    <2>1. meta.front = [g \in Group |-> meta.front[g]]  BY <1>1 DEF MemoryFits, MetaFits
    <2> QED  BY <1>6, <2>1
  <1>8. \A s \in Segment : meta.segFront[s] \in 0..(IF s \in Group THEN MainSize ELSE LogSize)
    <2>1. \A s \in Segment : meta.segFront[s] \in Nat /\ meta.segFront[s] <= Cap(s) /\ Cap(s) \in Nat
      BY <1>1, SizeFacts DEF MemoryFits, MetaFits
    <2>2. \A s \in Segment : meta.segFront[s] \in 0..Cap(s)  BY <2>1
    <2> QED  BY <2>2 DEF Cap
  <1>9. meta.used \subseteq LogSeg /\ meta.free \in 0..NumLog
    <2>1. meta.used \subseteq LogSeg  BY <1>3, OwnFacts
    <2>2. meta.used \in SUBSET LogSeg  BY <2>1
    <2>3. Cardinality(meta.used) \in Nat /\ Cardinality(meta.used) <= NumLog
      <3>1. IsFiniteSet(LogSeg) /\ Cardinality(LogSeg) = NumLog  BY SegmentFacts
      <3> QED  BY <2>1, <2>2, <3>1, LogCount, FS_Subset
    <2> QED  BY <1>2, <1>3, <2>1, <2>3 DEF Own
  <1>10. \A l \in Loc : l \in Location
    <2>1. \A l \in Loc : l.off \in 0..Max({MainSize, LogSize})
      <3> SUFFICES ASSUME NEW l \in Loc PROVE l.off \in 0..Max({MainSize, LogSize})
        OBVIOUS
      <3>1. l.off \in Nat /\ l.size \in 1..LogSize /\ l.off + l.size <= Cap(l.seg)  BY DEF Loc
      <3>2. Cap(l.seg) \in Nat /\ Cap(l.seg) <= Max({MainSize, LogSize})
        BY MaxOfSizes, SizeFacts
      <3>3. l.off <= Cap(l.seg)  BY <1>2, <3>1, <3>2
      <3> DEFINE M == Max({MainSize, LogSize})
      <3>4. M \in Nat /\ Cap(l.seg) <= M  BY <3>2, MaxOfSizes
      <3> HIDE DEF M
      <3>5. l.off \in 0..M  BY <3>1, <3>2, <3>3, <3>4
      <3> QED  BY <3>5 DEF M
    <2> QED  BY <2>1 DEF Loc, Location
  <1>11. batch \in Keys /\ updateLog.keys \in Keys
    <2> DEFINE T == [key : Key, loc : Location]
    <2>1. \A e \in KeyLoc : e \in T  BY <1>10 DEF KeyLoc
    <2> HIDE DEF T
    <2>2. \A q \in Seq(KeyLoc) : q \in Seq(T)
      <3> SUFFICES ASSUME NEW q \in Seq(KeyLoc) PROVE q \in Seq(T)  OBVIOUS
      <3>1. Len(q) \in Nat /\ \A i \in 1..Len(q) : q[i] \in T  BY <2>1
      <3>2. q = [i \in 1..Len(q) |-> q[i]]  OBVIOUS
      <3> QED  BY <3>1, <3>2
    <2> QED  BY <1>1, <2>2 DEF Locations, Keys, T
  <1>12. lsm \in [Key -> Location \cup {Nowhere}] /\ touched \subseteq Segment
    BY <1>1, <1>10 DEF Locations
  <1>13. \A u \in unwritten : u.rec \in Record /\ u.loc \in Location
    BY <1>1, <1>4, <1>10 DEF Records
  <1>14. \A s \in Segment : \A r \in disk[s] :
           r.off + r.size <= IF s \in Group THEN MainSize ELSE LogSize
    <2>1. \A s \in Segment : \A r \in disk[s] : r.off + r.size <= Cap(s)  BY <1>1 DEF OnDisk
    <2> QED  BY <2>1 DEF Cap
  <1>15. DOMAIN groupMeta = Group /\ segMeta \in [Segment -> Nat]  BY <1>1 DEF DurableFits
  <1>16. DOMAIN updateLog.groups \subseteq Group /\ DOMAIN gcLog \subseteq Group
    <2>1. Restorable
      <3>1. CASE pc = "down"  BY <3>1 DEF IInv, Crashed
      <3>2. CASE pc # "down"  BY <3>2, RunningRestorable
      <3> QED  BY <3>1, <3>2
    <2> QED  BY <2>1 DEF Restorable, Fits
  <1>17. /\ pending \subseteq DOMAIN pool /\ cur \in Group \cup {None} /\ modified \subseteq Group
         /\ victim \in Group \cup {None} /\ curFront \in Fronts /\ curSize \in 0..LogSize
         /\ puts \in 0..MaxPuts
    BY <1>1 DEF Buffer, MemoryFits, Records
  <1> QED
    BY <1>1, <1>5, <1>6, <1>7, <1>8, <1>9, <1>11, <1>12, <1>13, <1>14, <1>15, <1>16, <1>17
    DEF TypeOK, Control, HeapFits

(* The types of HashKV, for any number of segments and records: a segment  *)
(* is never filled past its end (setBatchUpdateKeyValue and gcKvPair place *)
(* a record only where it fits), the front of a group lies within its      *)
(* segments, and what the two logs and the persisted metadata say of a     *)
(* group is of a group that exists, across crashes and recoveries. All of  *)
(* this provided that what putValue accepts fits a log segment: putValue   *)
(* only compares the value with the main segment.                          *)
THEOREM TypeCorrect == RecordsFit => (Spec => []TypeOK)
  <1>1. IInv /\ Bounds => TypeOK  BY BoundsTypes
  <1> QED  BY <1>1, BoundsInvariant, PTL

=============================================================================
