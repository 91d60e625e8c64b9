------------------------ MODULE BlobAccounting_proofs ------------------------
(***************************************************************************)
(* The discardable sizes of BlobAccounting, for any number of blob files,  *)
(* SSTs and records and any order of callbacks.                            *)
(*                                                                         *)
(* A sum over SSTs is the cardinality of a disjoint union, so the laws of  *)
(* sums that an induction over sets would give follow from those of        *)
(* Cardinality.  Inv has three layers: where the bytes of a file are       *)
(* (Budget, Origin), what callbacks in any order have made of its count    *)
(* (Reported, Dead, Listed), and what callbacks in order make of it        *)
(* (Ordered, Exact).                                                       *)
(***************************************************************************)
EXTENDS BlobAccounting, TLAPS, FiniteSetTheorems


----------------------------------------------------------------------------
(* Sums                                                                     *)

Tagged(h, S) == UNION {{x} \X (1..h[x]) : x \in S}

LEMMA TaggedFinite ==
  ASSUME NEW S, IsFiniteSet(S), NEW h, \A x \in S : h[x] \in Nat
  PROVE  IsFiniteSet(Tagged(h, S))
  <1> DEFINE part(x) == {x} \X (1..h[x])
             T == {part(x) : x \in S}
             m == [x \in S |-> part(x)]
  <1>1. m \in Surjection(S, T)  BY DEF Surjection
  <1>2. IsFiniteSet(T)  BY <1>1, FS_Surjection
  <1>3. ASSUME NEW x \in S PROVE IsFiniteSet(part(x))
    <2>1. IsFiniteSet(1..h[x])  BY FS_Interval
    <2>2. IsFiniteSet({x})  BY FS_Singleton
    <2> QED  BY <2>1, <2>2, FS_Product
  <1>4. \A t \in T : IsFiniteSet(t)  BY <1>3
  <1> HIDE DEF T
  <1>5. IsFiniteSet(UNION T)  BY <1>2, <1>4, FS_UNION
  <1> QED  BY <1>5 DEF Tagged, T

LEMMA SumType ==
  ASSUME NEW S, IsFiniteSet(S), NEW h, \A x \in S : h[x] \in Nat
  PROVE  SumOver(h, S) \in Nat
  BY TaggedFinite, FS_CardinalityType DEF SumOver, Tagged

LEMMA SumEmpty == ASSUME NEW h PROVE SumOver(h, {}) = 0
  <1>1. UNION {{x} \X (1..h[x]) : x \in {}} = {}  OBVIOUS
  <1> QED  BY <1>1, FS_EmptySet DEF SumOver

LEMMA SumSame ==
  ASSUME NEW S, NEW h, NEW k, \A x \in S : h[x] = k[x]
  PROVE  SumOver(h, S) = SumOver(k, S)
  <1>1. {{x} \X (1..h[x]) : x \in S} = {{x} \X (1..k[x]) : x \in S}  OBVIOUS
  <1> QED  BY <1>1 DEF SumOver

LEMMA SumUnion ==
  ASSUME NEW S, NEW T, IsFiniteSet(S), IsFiniteSet(T), S \cap T = {},
         NEW h, \A x \in S \cup T : h[x] \in Nat
  PROVE  SumOver(h, S \cup T) = SumOver(h, S) + SumOver(h, T)
  <1> DEFINE A == Tagged(h, S)
             B == Tagged(h, T)
  <1>1. IsFiniteSet(A) /\ IsFiniteSet(B)  BY TaggedFinite
  <1>2. Tagged(h, S \cup T) = A \cup B  BY DEF Tagged
  <1>3. A \cap B = {}
    <2> SUFFICES ASSUME NEW p, p \in A, p \in B PROVE FALSE  OBVIOUS
    <2>1. PICK x \in S : p \in {x} \X (1..h[x])  BY DEF Tagged
    <2>2. PICK y \in T : p \in {y} \X (1..h[y])  BY DEF Tagged
    <2>3. p[1] = x /\ p[1] = y  BY <2>1, <2>2
    <2> QED  BY <2>3
  <1> HIDE DEF A, B
  <1>4. Cardinality(A \cup B) = Cardinality(A) + Cardinality(B) - Cardinality(A \cap B)
    BY <1>1, FS_Union
  <1>5. Cardinality(A) \in Nat /\ Cardinality(B) \in Nat  BY <1>1, FS_CardinalityType
  <1>6. Cardinality(A \cap B) = 0  BY <1>3, FS_EmptySet
  <1>7. Cardinality(A \cup B) = Cardinality(A) + Cardinality(B)  BY <1>4, <1>5, <1>6
  <1> QED  BY <1>2, <1>7 DEF SumOver, Tagged, A, B

LEMMA SumOne ==
  ASSUME NEW x, NEW h, h[x] \in Nat
  PROVE  SumOver(h, {x}) = h[x]
  <1>1. UNION {{y} \X (1..h[y]) : y \in {x}} = {x} \X (1..h[x])  OBVIOUS
  <1>2. IsFiniteSet(1..h[x]) /\ Cardinality(1..h[x]) = h[x]  BY FS_Interval
  <1>3. IsFiniteSet({x}) /\ Cardinality({x}) = 1  BY FS_Singleton
  <1>4. Cardinality({x} \X (1..h[x])) = 1 * h[x]  BY <1>2, <1>3, FS_Product
  <1>5. 1 * h[x] = h[x]  OBVIOUS
  <1> QED  BY <1>1, <1>4, <1>5, Zenon DEF SumOver

LEMMA SumAdd ==
  ASSUME NEW S, IsFiniteSet(S), NEW x, x \notin S,
         NEW h, \A y \in S \cup {x} : h[y] \in Nat
  PROVE  SumOver(h, S \cup {x}) = SumOver(h, S) + h[x]
  <1>1. IsFiniteSet({x}) /\ S \cap {x} = {}  BY FS_Singleton
  <1> QED  BY <1>1, SumUnion, SumOne

LEMMA SumRemove ==
  ASSUME NEW S, IsFiniteSet(S), NEW x \in S,
         NEW h, \A y \in S : h[y] \in Nat
  PROVE  /\ SumOver(h, S) = SumOver(h, S \ {x}) + h[x]
         /\ SumOver(h, S \ {x}) \in Nat
  <1> DEFINE T == S \ {x}
  <1>1. IsFiniteSet(T)  BY FS_RemoveElement
  <1>2. x \notin T /\ T \cup {x} = S /\ \A y \in T \cup {x} : h[y] \in Nat  OBVIOUS
  <1> HIDE DEF T
  <1>3. SumOver(h, T \cup {x}) = SumOver(h, T) + h[x]  BY <1>1, <1>2, SumAdd
  <1>4. SumOver(h, T) \in Nat  BY <1>1, <1>2, SumType
  <1> QED  BY <1>2, <1>3, <1>4 DEF T

LEMMA SumPart ==
  ASSUME NEW S, IsFiniteSet(S), NEW T \in SUBSET S,
         NEW h, \A y \in S : h[y] \in Nat
  PROVE  SumOver(h, T) <= SumOver(h, S)
  <1>1. IsFiniteSet(Tagged(h, S))  BY TaggedFinite
  <1>2. Tagged(h, T) \in SUBSET Tagged(h, S)  BY DEF Tagged
  <1> QED  BY <1>1, <1>2, FS_Subset DEF SumOver, Tagged

LEMMA SumElement ==
  ASSUME NEW S, IsFiniteSet(S), NEW x \in S, NEW h, \A y \in S : h[y] \in Nat
  PROVE  h[x] <= SumOver(h, S)
  <1>1. SumOver(h, S) = SumOver(h, S \ {x}) + h[x] /\ SumOver(h, S \ {x}) \in Nat
    BY SumRemove
  <1> QED  BY <1>1

LEMMA SumZero ==
  ASSUME NEW S, NEW h, \A y \in S : h[y] = 0
  PROVE  SumOver(h, S) = 0
  <1>1. UNION {{y} \X (1..h[y]) : y \in S} = {}  OBVIOUS
  <1> QED  BY <1>1, FS_EmptySet DEF SumOver

----------------------------------------------------------------------------
(* What SSTs refer to, for the properties p                                 *)

Props == [Sst -> [BlobFile -> Nat]]

Ref(p, f, S) == SumOver([s \in Sst |-> p[s][f]], S)

DroppedBy(p, f, c) ==
  IF Ref(p, f, c[1]) > Ref(p, f, c[2]) THEN Ref(p, f, c[1]) - Ref(p, f, c[2]) ELSE 0

Outstanding(p, f, C) == SumOver([c \in C |-> DroppedBy(p, f, c)], C)

Jobsets == SUBSET ((SUBSET Sst) \X (SUBSET Sst))

LEMMA SstFinite == \A S \in SUBSET Sst : IsFiniteSet(S)
  BY AccountingAssumption, FS_Subset

LEMMA JobsFinite == \A C \in Jobsets : IsFiniteSet(C)
  <1> DEFINE P == SUBSET Sst
  <1>1. IsFiniteSet(P)  BY AccountingAssumption, FS_SUBSET
  <1> HIDE DEF P
  <1>2. IsFiniteSet(P \X P)  BY <1>1, FS_Product
  <1>3. \A C \in SUBSET (P \X P) : IsFiniteSet(C)  BY <1>2, FS_Subset
  <1> QED  BY <1>3 DEF Jobsets, P

LEMMA RefType ==
  ASSUME NEW p \in Props, NEW f \in BlobFile, NEW S \in SUBSET Sst
  PROVE  Ref(p, f, S) \in Nat
  <1> DEFINE h == [s \in Sst |-> p[s][f]]
  <1>1. \A s \in S : h[s] \in Nat  BY DEF Props
  <1> HIDE DEF h
  <1>2. SumOver(h, S) \in Nat  BY <1>1, SstFinite, SumType
  <1> QED  BY <1>2 DEF Ref, h

LEMMA RefSame ==
  ASSUME NEW p, NEW q, NEW f \in BlobFile, NEW S \in SUBSET Sst,
         \A s \in S : p[s][f] = q[s][f]
  PROVE  Ref(p, f, S) = Ref(q, f, S)
  <1> DEFINE h == [s \in Sst |-> p[s][f]]
             k == [s \in Sst |-> q[s][f]]
  <1>1. \A s \in S : h[s] = k[s]  OBVIOUS
  <1> HIDE DEF h, k
  <1>2. SumOver(h, S) = SumOver(k, S)  BY <1>1, SumSame
  <1> QED  BY <1>2 DEF Ref, h, k

LEMMA RefUnion ==
  ASSUME NEW p \in Props, NEW f \in BlobFile, NEW S \in SUBSET Sst, NEW T \in SUBSET Sst,
         S \cap T = {}
  PROVE  Ref(p, f, S \cup T) = Ref(p, f, S) + Ref(p, f, T)
  <1> DEFINE h == [s \in Sst |-> p[s][f]]
  <1>1. \A s \in S \cup T : h[s] \in Nat  BY DEF Props
  <1> HIDE DEF h
  <1>2. SumOver(h, S \cup T) = SumOver(h, S) + SumOver(h, T)  BY <1>1, SstFinite, SumUnion
  <1> QED  BY <1>2 DEF Ref, h

LEMMA RefOne ==
  ASSUME NEW p \in Props, NEW f \in BlobFile, NEW s \in Sst
  PROVE  Ref(p, f, {s}) = p[s][f]
  <1> DEFINE h == [t \in Sst |-> p[t][f]]
  <1>1. h[s] = p[s][f] /\ h[s] \in Nat  BY DEF Props
  <1> HIDE DEF h
  <1>2. SumOver(h, {s}) = h[s]  BY <1>1, SumOne
  <1> QED  BY <1>1, <1>2 DEF Ref, h

LEMMA RefAdd ==
  ASSUME NEW p \in Props, NEW f \in BlobFile, NEW S \in SUBSET Sst, NEW s \in Sst \ S
  PROVE  Ref(p, f, S \cup {s}) = Ref(p, f, S) + p[s][f]
  <1>1. {s} \in SUBSET Sst /\ S \cap {s} = {}  OBVIOUS
  <1>2. Ref(p, f, S \cup {s}) = Ref(p, f, S) + Ref(p, f, {s})  BY <1>1, RefUnion
  <1> QED  BY <1>2, RefOne

LEMMA RefRemove ==
  ASSUME NEW p \in Props, NEW f \in BlobFile, NEW S \in SUBSET Sst, NEW T \in SUBSET S
  PROVE  /\ Ref(p, f, S) = Ref(p, f, S \ T) + Ref(p, f, T)
         /\ Ref(p, f, S \ T) \in Nat /\ Ref(p, f, T) \in Nat
  <1> DEFINE A == S \ T
  <1>1. A \in SUBSET Sst /\ T \in SUBSET Sst /\ A \cap T = {} /\ A \cup T = S  OBVIOUS
  <1> HIDE DEF A
  <1>2. Ref(p, f, A \cup T) = Ref(p, f, A) + Ref(p, f, T)  BY <1>1, RefUnion
  <1>3. Ref(p, f, A) \in Nat /\ Ref(p, f, T) \in Nat  BY <1>1, RefType
  <1> QED  BY <1>1, <1>2, <1>3 DEF A

LEMMA RefElement ==
  ASSUME NEW p \in Props, NEW f \in BlobFile, NEW S \in SUBSET Sst, NEW s \in S
  PROVE  p[s][f] <= Ref(p, f, S) /\ p[s][f] \in Nat
  <1>1. {s} \in SUBSET S /\ s \in Sst  OBVIOUS
  <1>2. Ref(p, f, S) = Ref(p, f, S \ {s}) + Ref(p, f, {s}) /\ Ref(p, f, S \ {s}) \in Nat
    BY <1>1, RefRemove
  <1>3. p[s][f] \in Nat  BY DEF Props
  <1> QED  BY <1>1, <1>2, <1>3, RefOne

LEMMA RefZero ==
  ASSUME NEW p, NEW f \in BlobFile, NEW S \in SUBSET Sst, \A s \in S : p[s][f] = 0
  PROVE  Ref(p, f, S) = 0
  <1> DEFINE h == [s \in Sst |-> p[s][f]]
  <1>1. \A s \in S : h[s] = 0  OBVIOUS
  <1> HIDE DEF h
  <1>2. SumOver(h, S) = 0  BY <1>1, SumZero
  <1> QED  BY <1>2 DEF Ref, h

LEMMA RefEmpty == ASSUME NEW p, NEW f PROVE Ref(p, f, {}) = 0
  BY SumEmpty DEF Ref

LEMMA DroppedType ==
  ASSUME NEW p \in Props, NEW f \in BlobFile, NEW C \in Jobsets, NEW c \in C
  PROVE  DroppedBy(p, f, c) \in Nat
  <1>1. c[1] \in SUBSET Sst /\ c[2] \in SUBSET Sst  BY DEF Jobsets
  <1>2. Ref(p, f, c[1]) \in Nat /\ Ref(p, f, c[2]) \in Nat  BY <1>1, RefType
  <1> QED  BY <1>2 DEF DroppedBy

LEMMA OutstandingType ==
  ASSUME NEW p \in Props, NEW f \in BlobFile, NEW C \in Jobsets
  PROVE  Outstanding(p, f, C) \in Nat
  <1> DEFINE h == [c \in C |-> DroppedBy(p, f, c)]
  <1>1. \A c \in C : h[c] \in Nat  BY DroppedType
  <1> HIDE DEF h
  <1>2. SumOver(h, C) \in Nat  BY <1>1, JobsFinite, SumType
  <1> QED  BY <1>2 DEF Outstanding, h

LEMMA OutstandingSame ==
  ASSUME NEW p, NEW q, NEW f \in BlobFile, NEW C,
         \A c \in C : DroppedBy(p, f, c) = DroppedBy(q, f, c)
  PROVE  Outstanding(p, f, C) = Outstanding(q, f, C)
  <1>1. [c \in C |-> DroppedBy(p, f, c)] = [c \in C |-> DroppedBy(q, f, c)]  OBVIOUS
  <1> QED  BY <1>1 DEF Outstanding

LEMMA OutstandingRemove ==
  ASSUME NEW p \in Props, NEW f \in BlobFile, NEW C \in Jobsets, NEW c \in C
  PROVE  /\ Outstanding(p, f, C) = Outstanding(p, f, C \ {c}) + DroppedBy(p, f, c)
         /\ Outstanding(p, f, C \ {c}) \in Nat /\ DroppedBy(p, f, c) \in Nat
  <1> DEFINE h == [d \in C |-> DroppedBy(p, f, d)]
             k == [d \in C \ {c} |-> DroppedBy(p, f, d)]
  <1>1. (\A d \in C : h[d] \in Nat) /\ h[c] = DroppedBy(p, f, c)  BY DroppedType
  <1>2. \A d \in C \ {c} : h[d] = k[d]  OBVIOUS
  <1> HIDE DEF h, k
  <1>3. SumOver(h, C) = SumOver(h, C \ {c}) + h[c] /\ SumOver(h, C \ {c}) \in Nat
    BY <1>1, JobsFinite, SumRemove
  <1>4. SumOver(h, C \ {c}) = SumOver(k, C \ {c})  BY <1>2, SumSame
  <1> QED  BY <1>1, <1>3, <1>4 DEF Outstanding, h, k

LEMMA OutstandingAdd ==
  ASSUME NEW p \in Props, NEW f \in BlobFile, NEW C \in Jobsets,
         NEW c \in (SUBSET Sst) \X (SUBSET Sst), c \notin C
  PROVE  Outstanding(p, f, C \cup {c}) = Outstanding(p, f, C) + DroppedBy(p, f, c)
  <1> DEFINE D == C \cup {c}
  <1>1. D \in Jobsets /\ c \in D /\ D \ {c} = C  BY DEF Jobsets
  <1> HIDE DEF D
  <1>2. Outstanding(p, f, D) = Outstanding(p, f, D \ {c}) + DroppedBy(p, f, c)
    BY <1>1, OutstandingRemove
  <1> QED  BY <1>1, <1>2 DEF D
----------------------------------------------------------------------------
(* The inductive invariant                                                  *)

\* the bytes of f in the current SSTs, those in SSTs whose flush is to be
\* reported, and those that were dropped without a report yet
InSsts(f) == Ref(prop, f, ssts)
InFlushed(f) == Ref(prop, f, flushed)
Unreported(f) == Outstanding(prop, f, compacted)

\* the flush and the compaction that made f, until they are reported
Flushes(f) == {s \in flushed : prop[s][f] > 0}
Creates(p, f, c) == Ref(p, f, c[1]) = 0 /\ Ref(p, f, c[2]) > 0
Creators(f) == {c \in compacted : Creates(prop, f, c)}

\* numbers not given out yet occur nowhere
Fresh ==
  \A f \in BlobFile : data[f] = 0 =>
    /\ f \notin sorted /\ f \notin counted /\ meta[f] = "kAbsent"
    /\ mem[f] = 0 /\ unindexed[f] = 0 /\ discardable[f] = 0
    /\ \A s \in Sst : prop[s][f] = 0

Jobs ==
  /\ ranged = {}
  /\ \A c \in compacted : c[1] # {} /\ c[1] \cap ssts = {}

\* what refers to a record, will refer to it, or has been dropped without a
\* report, is at most what the file has
Budget ==
  \A f \in BlobFile :
    /\ InSsts(f) + Unreported(f) + mem[f] + unindexed[f] <= data[f]
    /\ InFlushed(f) + mem[f] + unindexed[f] <= data[f]

\* an unsorted file is never deleted and comes with flushes only; a sorted one
\* comes whole, with one SST
Origin ==
  /\ \A f \in BlobFile \ sorted :
       /\ data[f] > 0 => IsLive(meta[f])
       /\ Creators(f) = {}
  /\ \A f \in sorted :
       /\ mem[f] = 0 /\ unindexed[f] = 0
       /\ \A s \in Flushes(f) : prop[s][f] = data[f] /\ Creators(f) = {}
       /\ \A s, t \in Flushes(f) : s = t
       /\ \A c, d \in Creators(f) : c = d

\* In whatever order reports come, a sorted file is not found dead too early.
\* A flush that is reported late subtracts the file's size once.
Reported ==
  \A f \in sorted : \E e \in 0..data[f] :
    /\ e + InSsts(f) + Unreported(f) <= data[f]
    /\ \/ discardable[f] = e
       \/ Flushes(f) = {} /\ discardable[f] = (e - data[f]) % Word

Dead ==
  \A f \in sorted : ~IsLive(meta[f]) => InSsts(f) = 0 /\ Unreported(f) = 0

\* A file listed for removal stays dead, even when the callback of the
\* compaction that made it comes late and makes its state kNormal again.
Listed ==
  /\ obsolete \subseteq sorted
  /\ \A f \in obsolete : InSsts(f) = 0 /\ Unreported(f) = 0
  /\ ~disordered => \A f \in obsolete : ~IsLive(meta[f])

\* files of which nothing has been reported
New(f) == IF f \in sorted THEN Flushes(f) # {} \/ Creators(f) # {} ELSE f \notin counted

\* SSTs whose own making has not been reported
Awaited == flushed \cup UNION {c[2] : c \in compacted}

\* Reports in order: all that refers to a new file is awaited itself.
Ordered ==
  \A f \in BlobFile : data[f] > 0 /\ New(f) =>
    /\ IsLive(meta[f]) /\ discardable[f] = 0
    /\ \A s \in ssts \cup UNION {c[1] : c \in compacted} : prop[s][f] > 0 => s \in Awaited

Exact ==
  /\ \A f \in sorted : IsLive(meta[f]) =>
       /\ InSsts(f) + Unreported(f) > 0
       /\ discardable[f] = data[f] - InSsts(f) - Unreported(f)
  /\ \A f \in BlobFile \ sorted :
       IF f \in counted
       THEN discardable[f] =
              (data[f] - InSsts(f) - Unreported(f) + InFlushed(f)) % Word
       ELSE InSsts(f) + Unreported(f) = InFlushed(f)

Inv ==
  /\ TypeOK /\ Fresh /\ Jobs /\ Budget /\ Origin /\ Reported /\ Dead
  /\ Listed
  /\ ~disordered => Ordered /\ Exact

----------------------------------------------------------------------------
(* Types and what a step may leave alone                                    *)

LEMMA Types ==
  ASSUME TypeOK
  PROVE  /\ prop \in Props /\ ssts \in SUBSET Sst /\ flushed \in SUBSET Sst
         /\ compacted \in Jobsets
         /\ \A c \in compacted : c[1] \in SUBSET Sst /\ c[2] \in SUBSET Sst
         /\ \A f \in BlobFile :
              /\ InSsts(f) \in Nat /\ InFlushed(f) \in Nat /\ Unreported(f) \in Nat
              /\ data[f] \in 0..MaxRec /\ mem[f] \in 0..MaxRec /\ unindexed[f] \in 0..MaxRec
              /\ discardable[f] \in 0..(Word - 1) /\ discardable[f] \in Nat
              /\ \A s \in Sst : prop[s][f] \in 0..MaxRec
         /\ MaxRec \in Nat \ {0} /\ Word \in Nat /\ Word > 2 * MaxRec + HeaderSize
         /\ HeaderSize \in Nat
  <1>1. MaxRec \in Nat \ {0} /\ Word \in Nat /\ Word > 2 * MaxRec + HeaderSize /\ HeaderSize \in Nat
    BY AccountingAssumption
  <1>2. prop \in Props  BY <1>1 DEF TypeOK, Props, Count
  <1>3. ssts \in SUBSET Sst /\ flushed \in SUBSET Sst /\ compacted \in Jobsets
    BY DEF TypeOK, Jobsets
  <1>4. \A c \in compacted : c[1] \in SUBSET Sst /\ c[2] \in SUBSET Sst  BY DEF TypeOK
  <1>5. ASSUME NEW f \in BlobFile
        PROVE  InSsts(f) \in Nat /\ InFlushed(f) \in Nat /\ Unreported(f) \in Nat
    BY <1>2, <1>3, RefType, OutstandingType DEF InSsts, InFlushed, Unreported
  <1>6. ASSUME NEW f \in BlobFile
        PROVE  /\ data[f] \in 0..MaxRec /\ mem[f] \in 0..MaxRec /\ unindexed[f] \in 0..MaxRec
               /\ discardable[f] \in 0..(Word - 1) /\ discardable[f] \in Nat
               /\ \A s \in Sst : prop[s][f] \in 0..MaxRec
    BY <1>1 DEF TypeOK, Count
  <1> QED  BY <1>1, <1>2, <1>3, <1>4, <1>5, <1>6

LEMMA InitInv == Init => Inv
  <1> SUFFICES ASSUME Init PROVE Inv  OBVIOUS
  <1>0. MaxRec \in Nat \ {0} /\ Word \in Nat /\ Word > 2 * MaxRec + HeaderSize /\ HeaderSize \in Nat
    BY AccountingAssumption
  <1>1. TypeOK
    <2>1. Zero \in Count /\ Zero \in [BlobFile -> 0..(Word - 1)]  BY <1>0 DEF Count, Zero
    <2>2. meta \in [BlobFile -> MetaState]  BY DEF Init, MetaState
    <2>3. disordered \in BOOLEAN  BY DEF Init
    <2> QED  BY <2>1, <2>2, <2>3 DEF Init, TypeOK
  <1>2. ASSUME NEW f \in BlobFile
        PROVE  /\ InSsts(f) = 0 /\ InFlushed(f) = 0 /\ Unreported(f) = 0
               /\ Creators(f) = {} /\ data[f] = 0 /\ discardable[f] = 0
               /\ mem[f] = 0 /\ unindexed[f] = 0 /\ \A s \in Sst : prop[s][f] = 0
    BY SumEmpty, RefEmpty DEF Init, InSsts, InFlushed, Unreported, Outstanding, Creators, Zero
  <1>3. Fresh /\ Jobs /\ Budget /\ Origin /\ Reported /\ Dead /\ Listed /\ Ordered /\ Exact
    BY <1>2 DEF Init, Fresh, Jobs, Budget, Origin, Reported, Dead, Listed, Ordered, Exact
  <1> QED  BY <1>1, <1>3 DEF Inv

\* the references are where they were
Unmoved == UNCHANGED <<ssts, prop, flushed, compacted>>

LEMMA UnmovedKeeps ==
  ASSUME Unmoved
  PROVE  \A f : /\ InSsts(f)' = InSsts(f) /\ InFlushed(f)' = InFlushed(f)
                /\ Unreported(f)' = Unreported(f)
                /\ Flushes(f)' = Flushes(f) /\ Creators(f)' = Creators(f)
  BY DEF Unmoved, InSsts, InFlushed, Unreported, Flushes, Creators

LEMMA FinishUnsortedInv ==
  ASSUME Inv, NEW f \in BlobFile, NEW n \in 0..MaxRec, NEW m \in 0..MaxRec, FinishUnsorted(f, n, m)
  PROVE  Inv'
  <1> USE DEF Inv
  <1>t. /\ MaxRec \in Nat \ {0} /\ Word \in Nat /\ DOMAIN meta = BlobFile /\ DOMAIN data = BlobFile
        /\ DOMAIN mem = BlobFile /\ DOMAIN unindexed = BlobFile
    BY Types DEF TypeOK, Count
  <1>1. Unmoved /\ UNCHANGED <<sorted, discardable, obsolete, counted, disordered, ranged>>
    BY DEF FinishUnsorted, Unmoved
  <1>2. /\ data[f] = 0 /\ n > 0 /\ m <= n
        /\ meta'[f] = "kNormal" /\ data'[f] = n /\ mem'[f] = m /\ unindexed'[f] = n - m
        /\ \A g \in BlobFile \ {f} : /\ meta'[g] = meta[g] /\ data'[g] = data[g]
                                     /\ mem'[g] = mem[g] /\ unindexed'[g] = unindexed[g]
    BY <1>t DEF FinishUnsorted, NextFile
  <1>3. /\ f \notin sorted /\ f \notin counted /\ discardable[f] = 0
        /\ \A s \in Sst : prop[s][f] = 0
    BY <1>2 DEF Fresh
  <1>4. InSsts(f) = 0 /\ InFlushed(f) = 0 /\ Unreported(f) = 0
    <2>1. InSsts(f) + Unreported(f) + mem[f] + unindexed[f] <= data[f]
          /\ InFlushed(f) + mem[f] + unindexed[f] <= data[f]
      BY DEF Budget
    <2> QED  BY <1>2, <2>1, Types
  <1>5. \A g \in BlobFile : /\ InSsts(g)' = InSsts(g) /\ InFlushed(g)' = InFlushed(g)
                            /\ Unreported(g)' = Unreported(g)
                            /\ Flushes(g)' = Flushes(g) /\ Creators(g)' = Creators(g)
    BY <1>1, UnmovedKeeps
  <1>6. TypeOK'
    BY <1>1, <1>t DEF TypeOK, FinishUnsorted, Unmoved, Count, MetaState, FileState
  <1>7. Fresh'  BY <1>1, <1>2, <1>3 DEF Fresh, Unmoved
  <1>8. Jobs'  BY <1>1 DEF Jobs, Unmoved
  <1>9. Budget'
    <2> SUFFICES ASSUME NEW g \in BlobFile
                 PROVE  /\ InSsts(g)' + Unreported(g)' + mem'[g] + unindexed'[g] <= data'[g]
                        /\ InFlushed(g)' + mem'[g] + unindexed'[g] <= data'[g]
      BY DEF Budget
    <2>1. CASE g = f  BY <1>2, <1>4, <1>5, <2>1
    <2>2. CASE g # f  BY <1>2, <1>5, <2>2 DEF Budget
    <2> QED  BY <2>1, <2>2
  <1>10. Origin'
    <2>1. \A g \in sorted : g # f  BY <1>3
    <2>2. sorted' = sorted /\ sorted \subseteq BlobFile  BY <1>1 DEF TypeOK
    <2> QED  BY <1>1, <1>2, <1>5, <2>1, <2>2 DEF Origin, IsLive, Unmoved
  <1>11. Reported' /\ Dead'
    <2>1. \A g \in sorted : g # f /\ g \in BlobFile  BY <1>3 DEF TypeOK
    <2>2. \A g \in sorted : /\ data'[g] = data[g] /\ meta'[g] = meta[g]
                            /\ discardable'[g] = discardable[g]
      BY <1>1, <1>2, <2>1
    <2> QED  BY <1>1, <1>5, <2>1, <2>2 DEF Reported, Dead
  <1>12. ASSUME ~disordered' PROVE Ordered' /\ Exact'
    <2>1. Ordered /\ Exact  BY <1>1, <1>12
    <2>2. \A g \in BlobFile : New(g)' = New(g)  BY <1>1, <1>5 DEF New
    <2>3. Ordered'
      <3>0. Awaited' = Awaited  BY <1>1 DEF Awaited, Unmoved
      <3>1. IsLive(meta'[f])  BY <1>2 DEF IsLive
      <3>2. \A s \in ssts \cup UNION {c[1] : c \in compacted} : s \in Sst
        BY Types
      <3>3. ASSUME NEW g \in BlobFile, data'[g] > 0, New(g)'
            PROVE /\ IsLive(meta'[g]) /\ discardable'[g] = 0
                  /\ \A s \in ssts \cup UNION {c[1] : c \in compacted} : prop[s][g] > 0 => s \in Awaited
        <4>1. CASE g = f  BY <1>1, <1>3, <3>1, <3>2, <4>1
        <4>2. CASE g # f  BY <1>1, <1>2, <2>1, <2>2, <3>3, <4>2 DEF Ordered
        <4> QED  BY <4>1, <4>2
      <3> QED  BY <1>1, <3>0, <3>3 DEF Ordered, Unmoved
    <2>4. Exact'
      <3>1. \A g \in sorted : g # f /\ g \in BlobFile  BY <1>3 DEF TypeOK
      <3>2. \A g \in sorted' : IsLive(meta'[g]) =>
              /\ InSsts(g)' + Unreported(g)' > 0
              /\ discardable'[g] = data'[g] - InSsts(g)' - Unreported(g)'
        BY <1>1, <1>2, <1>5, <2>1, <3>1 DEF Exact
      <3>3. ASSUME NEW g \in BlobFile \ sorted'
            PROVE  IF g \in counted'
                   THEN discardable'[g] = (data'[g] - InSsts(g)' - Unreported(g)' + InFlushed(g)') % Word
                   ELSE InSsts(g)' + Unreported(g)' = InFlushed(g)'
        <4>1. CASE g = f  BY <1>1, <1>3, <1>4, <1>5, <4>1
        <4>2. CASE g # f  BY <1>1, <1>2, <1>5, <2>1, <4>2 DEF Exact
        <4> QED  BY <4>1, <4>2
      <3> QED  BY <3>2, <3>3 DEF Exact
    <2> QED  BY <2>3, <2>4
  <1>13. Listed'
    <2>1. \A g \in obsolete : g \in BlobFile /\ g # f  BY <1>3 DEF Listed, TypeOK
    <2> QED  BY <1>1, <1>2, <1>5, <2>1 DEF Listed
  <1> QED  BY <1>6, <1>7, <1>8, <1>9, <1>10, <1>11, <1>12, <1>13

LEMMA WriteIndexInv ==
  ASSUME Inv, NEW f \in BlobFile, NEW accepted \in BOOLEAN, WriteIndex(f, accepted)
  PROVE  Inv'
  <1> USE DEF Inv
  <1>t. /\ MaxRec \in Nat \ {0} /\ Word \in Nat
        /\ DOMAIN mem = BlobFile /\ DOMAIN unindexed = BlobFile
    BY Types DEF TypeOK, Count
  <1>1. Unmoved /\ UNCHANGED <<meta, data, sorted, discardable, obsolete, counted, disordered, ranged>>
    BY DEF WriteIndex, Unmoved
  <1>2. /\ unindexed[f] > 0 /\ unindexed'[f] = unindexed[f] - 1 /\ mem'[f] \in {mem[f], mem[f] + 1}
        /\ \A g \in BlobFile \ {f} : mem'[g] = mem[g] /\ unindexed'[g] = unindexed[g]
    BY <1>t DEF WriteIndex
  <1>3. f \notin sorted /\ data[f] # 0
    BY <1>2, Types DEF Origin, Fresh
  <1>5. \A g \in BlobFile : /\ InSsts(g)' = InSsts(g) /\ InFlushed(g)' = InFlushed(g)
                            /\ Unreported(g)' = Unreported(g)
                            /\ Flushes(g)' = Flushes(g) /\ Creators(g)' = Creators(g)
    BY <1>1, UnmovedKeeps
  <1>a. \A g \in BlobFile : /\ mem'[g] \in Nat /\ unindexed'[g] \in Nat
                            /\ mem'[g] + unindexed'[g] <= mem[g] + unindexed[g]
    BY <1>2, Types
  <1>b. \A g \in BlobFile : mem'[g] <= data[g] /\ unindexed'[g] <= data[g]
    <2> SUFFICES ASSUME NEW g \in BlobFile PROVE mem'[g] <= data[g] /\ unindexed'[g] <= data[g]
      OBVIOUS
    <2>1. mem[g] + unindexed[g] <= data[g]
      <3>1. InFlushed(g) + mem[g] + unindexed[g] <= data[g]  BY DEF Budget
      <3> QED  BY <3>1, Types
    <2> QED  BY <1>a, <2>1, Types
  <1>6. TypeOK'
    <2>1. mem' \in Count /\ unindexed' \in Count
      <3>1. DOMAIN mem' = BlobFile /\ DOMAIN unindexed' = BlobFile
            /\ mem' = [g \in BlobFile |-> mem'[g]] /\ unindexed' = [g \in BlobFile |-> unindexed'[g]]
        BY DEF WriteIndex, TypeOK, Count
      <3>2. \A g \in BlobFile : mem'[g] \in 0..MaxRec /\ unindexed'[g] \in 0..MaxRec
        BY <1>a, <1>b, <1>t, Types
      <3> QED  BY <3>1, <3>2 DEF Count
    <2> QED  BY <1>1, <2>1 DEF TypeOK, Unmoved
  <1>7. Fresh'  BY <1>1, <1>2, <1>3 DEF Fresh, Unmoved
  <1>8. Jobs'  BY <1>1 DEF Jobs, Unmoved
  <1>9. Budget'
    <2> SUFFICES ASSUME NEW g \in BlobFile
                 PROVE  /\ InSsts(g)' + Unreported(g)' + mem'[g] + unindexed'[g] <= data'[g]
                        /\ InFlushed(g)' + mem'[g] + unindexed'[g] <= data'[g]
      BY DEF Budget
    <2>1. /\ InSsts(g) + Unreported(g) + mem[g] + unindexed[g] <= data[g]
          /\ InFlushed(g) + mem[g] + unindexed[g] <= data[g]
      BY DEF Budget
    <2> QED  BY <1>1, <1>5, <1>a, <2>1, Types
  <1>10. Origin'
    <2>1. \A g \in sorted : g # f /\ g \in BlobFile  BY <1>3 DEF TypeOK
    <2> QED  BY <1>1, <1>2, <1>5, <2>1 DEF Origin, Unmoved
  <1>11. Reported' /\ Dead'
    <2>1. \A g \in sorted : g \in BlobFile  BY DEF TypeOK
    <2> QED  BY <1>1, <1>5, <2>1 DEF Reported, Dead
  <1>12. ASSUME ~disordered' PROVE Ordered' /\ Exact'
    <2>1. Ordered /\ Exact  BY <1>1, <1>12
    <2>2. \A g \in BlobFile : New(g)' = New(g)  BY <1>1, <1>5 DEF New
    <2>3. Awaited' = Awaited  BY <1>1 DEF Awaited, Unmoved
    <2>4. \A g \in sorted : g \in BlobFile  BY DEF TypeOK
    <2>5. Ordered'  BY <1>1, <2>1, <2>2, <2>3 DEF Ordered, Unmoved
    <2>6. Exact'  BY <1>1, <1>5, <2>1, <2>4 DEF Exact
    <2> QED  BY <2>5, <2>6
  <1>13. Listed'
    <2>1. \A g \in obsolete : g \in BlobFile  BY DEF Listed, TypeOK
    <2> QED  BY <1>1, <1>5, <2>1 DEF Listed
  <1> QED  BY <1>6, <1>7, <1>8, <1>9, <1>10, <1>11, <1>12, <1>13

LEMMA PurgeInv ==
  ASSUME Inv, NEW f \in BlobFile, Purge(f)
  PROVE  Inv'
  <1> USE DEF Inv
  <1>1. Unmoved /\ UNCHANGED <<data, mem, unindexed, sorted, discardable, counted, disordered, ranged>>
    BY DEF Purge, Unmoved
  <1>2. /\ f \in obsolete /\ obsolete' = obsolete \ {f} /\ meta'[f] = "kAbsent"
        /\ \A g \in BlobFile \ {f} : meta'[g] = meta[g]
    BY DEF Purge, TypeOK
  <1>3. \A g \in BlobFile : IsLive(meta'[g]) => IsLive(meta[g])  BY <1>2 DEF IsLive
  <1>4. /\ f \in sorted /\ data[f] # 0 /\ InSsts(f) = 0 /\ Unreported(f) = 0
        /\ ~disordered => ~IsLive(meta[f])
    BY <1>2 DEF Listed, Fresh
  <1>5. \A g \in BlobFile : /\ InSsts(g)' = InSsts(g) /\ InFlushed(g)' = InFlushed(g)
                            /\ Unreported(g)' = Unreported(g)
                            /\ Flushes(g)' = Flushes(g) /\ Creators(g)' = Creators(g)
    BY <1>1, UnmovedKeeps
  <1>s. \A g \in sorted : g \in BlobFile  BY DEF TypeOK
  <1>6. TypeOK'  BY <1>1 DEF TypeOK, Unmoved, Purge, MetaState
  <1>7. Fresh'  BY <1>1, <1>2, <1>4 DEF Fresh, Unmoved
  <1>8. Jobs' /\ Budget'  BY <1>1, <1>5 DEF Jobs, Budget, Unmoved
  <1>9. Origin'
    <2>1. \A g \in BlobFile \ sorted : g # f  BY <1>4
    <2> QED  BY <1>1, <1>2, <1>5, <1>s, <2>1 DEF Origin, Unmoved
  <1>10. Reported'  BY <1>1, <1>5, <1>s DEF Reported
  <1>11. Dead'
    <2> SUFFICES ASSUME NEW g \in sorted, ~IsLive(meta'[g])
                 PROVE  InSsts(g)' = 0 /\ Unreported(g)' = 0
      BY <1>1 DEF Dead
    <2>1. CASE g = f  BY <1>4, <1>5, <2>1
    <2>2. CASE g # f  BY <1>2, <1>5, <1>s, <2>2 DEF Dead
    <2> QED  BY <2>1, <2>2
  <1>12. Listed'
    <2>1. \A g \in obsolete' : g \in obsolete /\ g \in BlobFile /\ g # f  BY <1>2 DEF TypeOK
    <2> QED  BY <1>1, <1>2, <1>5, <2>1 DEF Listed
  <1>13. ASSUME ~disordered' PROVE Ordered' /\ Exact'
    <2>1. Ordered /\ Exact  BY <1>1, <1>13
    <2>2. \A g \in BlobFile : New(g)' = New(g)  BY <1>1, <1>5 DEF New
    <2>3. Awaited' = Awaited  BY <1>1 DEF Awaited, Unmoved
    <2>4. \A g \in BlobFile : IsLive(meta[g]) => g # f /\ IsLive(meta'[g])
      BY <1>1, <1>2, <1>4, <1>13
    <2>5. Ordered'  BY <1>1, <2>1, <2>2, <2>3, <2>4 DEF Ordered, Unmoved
    <2>6. Exact'  BY <1>1, <1>3, <1>5, <1>s, <2>1 DEF Exact
    <2> QED  BY <2>5, <2>6
  <1> QED  BY <1>6, <1>7, <1>8, <1>9, <1>10, <1>11, <1>12, <1>13

----------------------------------------------------------------------------
(* Flush                                                                    *)

\* Properties that agree on the SSTs that callbacks mention.
LEMMA JobsKept ==
  ASSUME NEW p, NEW q, NEW f \in BlobFile, NEW C \in Jobsets,
         \A c \in C : \A u \in c[1] \cup c[2] : p[u][f] = q[u][f]
  PROVE  /\ Outstanding(p, f, C) = Outstanding(q, f, C)
         /\ \A c \in C : /\ Ref(p, f, c[1]) = Ref(q, f, c[1])
                         /\ Ref(p, f, c[2]) = Ref(q, f, c[2])
                         /\ DroppedBy(p, f, c) = DroppedBy(q, f, c)
                         /\ Creates(p, f, c) = Creates(q, f, c)
  <1>1. ASSUME NEW c \in C
        PROVE  Ref(p, f, c[1]) = Ref(q, f, c[1]) /\ Ref(p, f, c[2]) = Ref(q, f, c[2])
    <2>1. c[1] \in SUBSET Sst /\ c[2] \in SUBSET Sst  BY DEF Jobsets
    <2>2. (\A u \in c[1] : p[u][f] = q[u][f]) /\ (\A u \in c[2] : p[u][f] = q[u][f])
      OBVIOUS
    <2> QED  BY <2>1, <2>2, RefSame
  <1>2. \A c \in C : DroppedBy(p, f, c) = DroppedBy(q, f, c) /\ Creates(p, f, c) = Creates(q, f, c)
    BY <1>1 DEF DroppedBy, Creates
  <1>3. Outstanding(p, f, C) = Outstanding(q, f, C)  BY <1>2, OutstandingSame
  <1> QED  BY <1>1, <1>2, <1>3

LEMMA MadeFresh ==
  ASSUME TypeOK, NEW made \in Made
  PROVE  /\ \A f \in BlobFile : made[f] \in 0..MaxRec /\ (made[f] > 0 => data[f] = 0)
         /\ made \in Count
  <1>1. MaxRec \in Nat \ {0}  BY AccountingAssumption
  <1>2. CASE made = Zero  BY <1>1, <1>2 DEF Zero, Count
  <1>3. CASE made # Zero
    <2>1. PICK g \in BlobFile, n \in 1..MaxRec : NextFile(g) /\ made = [Zero EXCEPT ![g] = n]
      BY <1>3 DEF Made
    <2>2. made = [f \in BlobFile |-> IF f = g THEN n ELSE 0]  BY <2>1 DEF Zero
    <2>3. data[g] = 0  BY <2>1 DEF NextFile
    <2> QED  BY <1>1, <2>2, <2>3 DEF Count
  <1> QED  BY <1>2, <1>3

\* What is known of a file number that has not been given out.
LEMMA FreshFacts ==
  ASSUME Inv, NEW f \in BlobFile, data[f] = 0
  PROVE  /\ f \notin sorted /\ f \notin counted /\ meta[f] = "kAbsent"
         /\ mem[f] = 0 /\ unindexed[f] = 0 /\ discardable[f] = 0
         /\ \A s \in Sst : prop[s][f] = 0
         /\ InSsts(f) = 0 /\ InFlushed(f) = 0 /\ Unreported(f) = 0
         /\ Creators(f) = {} /\ Flushes(f) = {}
  <1>1. /\ f \notin sorted /\ f \notin counted /\ meta[f] = "kAbsent"
        /\ mem[f] = 0 /\ unindexed[f] = 0 /\ discardable[f] = 0
        /\ \A s \in Sst : prop[s][f] = 0
    BY DEF Inv, Fresh
  <1>t. TypeOK  BY DEF Inv
  <1>2. InSsts(f) + Unreported(f) + mem[f] + unindexed[f] <= data[f]
        /\ InFlushed(f) + mem[f] + unindexed[f] <= data[f]
    BY DEF Inv, Budget
  <1>3. InSsts(f) = 0 /\ InFlushed(f) = 0 /\ Unreported(f) = 0  BY <1>1, <1>2, <1>t, Types
  <1>4. Creators(f) = {}  BY <1>1 DEF Inv, Origin
  <1>5. Flushes(f) = {}  BY <1>1, <1>t, Types DEF Flushes
  <1> QED  BY <1>1, <1>3, <1>4, <1>5

\* The new sorted files, which the maker has logged.
MadeFiles(made) ==
  \A f \in BlobFile :
    /\ data'[f] = data[f] + made[f]
    /\ made[f] > 0 => meta'[f] = "kPendingLSM" /\ f \in sorted' /\ data[f] = 0
    /\ ~(made[f] > 0) => /\ meta'[f] = meta[f] /\ data'[f] = data[f]
                         /\ (f \in sorted' <=> f \in sorted)

LEMMA NewSortedFacts ==
  ASSUME Inv, NEW made \in Made, NewSorted(made)
  PROVE  /\ MadeFiles(made)
         /\ meta' \in [BlobFile -> MetaState] /\ sorted' \in SUBSET BlobFile /\ data' \in Count
  <1>t. TypeOK  BY DEF Inv
  <1>1. /\ \A f \in BlobFile : made[f] \in 0..MaxRec /\ (made[f] > 0 => data[f] = 0)
        /\ \A f \in BlobFile : data[f] \in 0..MaxRec
        /\ MaxRec \in Nat
    BY <1>t, MadeFresh, Types
  <1>2. FileStateTransit("kFlushOrCompactionOutput", "kInit") = "kPendingLSM"
    BY DEF FileStateTransit
  <1>3. MadeFiles(made)
    <2> SUFFICES ASSUME NEW f \in BlobFile
                 PROVE  /\ data'[f] = data[f] + made[f]
                        /\ made[f] > 0 => meta'[f] = "kPendingLSM" /\ f \in sorted' /\ data[f] = 0
                        /\ ~(made[f] > 0) => /\ meta'[f] = meta[f] /\ data'[f] = data[f]
                                             /\ (f \in sorted' <=> f \in sorted)
      BY DEF MadeFiles
    <2>1. CASE made[f] > 0  BY <1>1, <1>2, <2>1 DEF NewSorted
    <2>2. CASE ~(made[f] > 0)
      <3>1. made[f] = 0  BY <1>1, <2>2
      <3> QED  BY <1>1, <2>2, <3>1 DEF NewSorted
    <2> QED  BY <2>1, <2>2
  <1>4. meta' \in [BlobFile -> MetaState]
    BY <1>2, <1>t DEF NewSorted, TypeOK, MetaState, FileState
  <1>5. sorted' \in SUBSET BlobFile  BY <1>t DEF NewSorted, TypeOK
  <1>6. data' \in Count
    <2>1. \A f \in BlobFile : data[f] + made[f] \in 0..MaxRec
      <3> SUFFICES ASSUME NEW f \in BlobFile PROVE data[f] + made[f] \in 0..MaxRec  OBVIOUS
      <3>1. CASE made[f] > 0  BY <1>1, <3>1
      <3>2. CASE ~(made[f] > 0)  BY <1>1, <3>2
      <3> QED  BY <3>1, <3>2
    <2> QED  BY <2>1 DEF NewSorted, Count
  <1> QED  BY <1>3, <1>4, <1>5, <1>6

LEMMA FlushInv ==
  ASSUME Inv, NEW s \in Sst, NEW kept \in UpTo(mem), NEW made \in Made, Flush(s, kept, made)
  PROVE  Inv'
  <1> USE DEF Inv
  <1> DEFINE K == Plus(kept, made)
  <1>t. TypeOK  OBVIOUS
  <1>0. /\ MadeFiles(made)
        /\ meta' \in [BlobFile -> MetaState] /\ sorted' \in SUBSET BlobFile /\ data' \in Count
    BY NewSortedFacts DEF Flush
  <1>1. /\ FreeSst(s) /\ prop' = [prop EXCEPT ![s] = K]
        /\ ssts' = ssts \cup {s} /\ flushed' = flushed \cup {s} /\ compacted' = compacted
        /\ mem' = Zero
        /\ UNCHANGED <<discardable, unindexed, obsolete, counted, disordered, ranged>>
    BY DEF Flush
  <1>2. /\ s \notin ssts /\ s \notin flushed /\ \A c \in compacted : s \notin c[1] \cup c[2]
    BY <1>1 DEF FreeSst
  <1>3. \A f \in BlobFile : /\ kept[f] \in 0..MaxRec /\ kept[f] <= mem[f] /\ made[f] \in 0..MaxRec
                            /\ K[f] = kept[f] + made[f] /\ mem'[f] = 0
    BY <1>1, <1>t, MadeFresh DEF UpTo, Count, Plus, Zero
  <1>4. \A f \in BlobFile : made[f] > 0 => mem[f] = 0 /\ kept[f] = 0 /\ K[f] = made[f] /\ data[f] = 0
    BY <1>0, <1>3, FreshFacts, Types DEF MadeFiles
  <1>5. \A f \in BlobFile : K[f] \in 0..MaxRec /\ (made[f] = 0 => K[f] = kept[f])
    <2> SUFFICES ASSUME NEW f \in BlobFile
                 PROVE  K[f] \in 0..MaxRec /\ (made[f] = 0 => K[f] = kept[f])  OBVIOUS
    <2>1. CASE made[f] > 0  BY <1>3, <1>4, <2>1
    <2>2. CASE made[f] = 0  BY <1>3, <2>2
    <2> QED  BY <1>3, <2>1, <2>2
  <1>6. K \in Count  BY <1>5 DEF Plus, Count
  <1> HIDE DEF K
  <1>7. prop' \in [Sst -> Count] /\ prop'[s] = K /\ \A u \in Sst \ {s} : prop'[u] = prop[u]
    BY <1>1, <1>6, <1>t DEF TypeOK
  <1>8. prop' \in Props  BY <1>7, AccountingAssumption DEF Props, Count
  <1>9. ASSUME NEW f \in BlobFile
        PROVE  /\ InSsts(f)' = InSsts(f) + K[f] /\ InFlushed(f)' = InFlushed(f) + K[f]
               /\ Unreported(f)' = Unreported(f) /\ Creators(f)' = Creators(f)
               /\ Flushes(f)' = Flushes(f) \cup (IF K[f] > 0 THEN {s} ELSE {})
    <2>1. (\A u \in ssts : u \in Sst /\ u # s) /\ (\A u \in flushed : u \in Sst /\ u # s)
      BY <1>2, <1>t, Types
    <2>2. Ref(prop', f, ssts) = Ref(prop, f, ssts) /\ Ref(prop', f, flushed) = Ref(prop, f, flushed)
      BY <1>7, <2>1, <1>t, Types, RefSame
    <2>3. /\ Ref(prop', f, ssts \cup {s}) = Ref(prop', f, ssts) + prop'[s][f]
          /\ Ref(prop', f, flushed \cup {s}) = Ref(prop', f, flushed) + prop'[s][f]
      BY <1>8, <1>2, <1>t, Types, RefAdd
    <2>4. \A c \in compacted : \A u \in c[1] \cup c[2] : prop'[u][f] = prop[u][f]
      BY <1>2, <1>7, <1>t, Types
    <2>5. /\ Outstanding(prop', f, compacted) = Outstanding(prop, f, compacted)
          /\ \A c \in compacted : Creates(prop', f, c) = Creates(prop, f, c)
      BY <2>4, <1>t, Types, JobsKept
    <2>6. Flushes(f)' = Flushes(f) \cup (IF K[f] > 0 THEN {s} ELSE {})
      BY <1>1, <1>7, <2>1 DEF Flushes
    <2>7. Creators(f)' = Creators(f)  BY <1>1, <2>5 DEF Creators
    <2> QED  BY <1>1, <1>7, <2>2, <2>3, <2>5, <2>6, <2>7 DEF InSsts, InFlushed, Unreported
  <1>10. ASSUME NEW f \in BlobFile, made[f] > 0
         PROVE  /\ f \in sorted' /\ meta'[f] = "kPendingLSM" /\ data'[f] = made[f] /\ K[f] = made[f]
                /\ InSsts(f)' = made[f] /\ InFlushed(f)' = made[f] /\ Unreported(f)' = 0
                /\ Creators(f)' = {} /\ Flushes(f)' = {s}
                /\ mem'[f] = 0 /\ unindexed'[f] = 0 /\ discardable'[f] = 0
    BY <1>0, <1>1, <1>3, <1>4, <1>9, <1>10, FreshFacts DEF MadeFiles
  <1>11. ASSUME NEW f \in BlobFile, ~(made[f] > 0)
         PROVE  /\ data'[f] = data[f] /\ meta'[f] = meta[f] /\ (f \in sorted' <=> f \in sorted)
                /\ K[f] = kept[f] /\ K[f] <= mem[f]
                /\ f \in sorted => K[f] = 0 /\ mem[f] = 0
    <2>1. made[f] = 0  BY <1>3, <1>11
    <2>2. f \in sorted => mem[f] = 0  BY DEF Origin
    <2> QED  BY <1>0, <1>3, <1>5, <1>11, <2>1, <2>2 DEF MadeFiles
  <1>12. \A f \in sorted' : f \in BlobFile  BY <1>0
  <1>13. ASSUME NEW f \in sorted, ~(made[f] > 0)
         PROVE  /\ InSsts(f)' = InSsts(f) /\ Unreported(f)' = Unreported(f)
                /\ Flushes(f)' = Flushes(f) /\ Creators(f)' = Creators(f)
    <2>1. f \in BlobFile  BY <1>t DEF TypeOK
    <2>2. K[f] = 0  BY <2>1, <1>11, <1>13
    <2>3. InSsts(f) \in Nat  BY <2>1, <1>t, Types
    <2>4. /\ InSsts(f)' = InSsts(f) + K[f] /\ Unreported(f)' = Unreported(f)
          /\ Creators(f)' = Creators(f)
          /\ Flushes(f)' = Flushes(f) \cup (IF K[f] > 0 THEN {s} ELSE {})
      BY <2>1, <1>9
    <2>5. Flushes(f)' = Flushes(f)  BY <2>2, <2>4
    <2> QED  BY <2>2, <2>3, <2>4, <2>5
  <1>20. TypeOK'
    <2>1. Zero \in Count  BY AccountingAssumption DEF Zero, Count
    <2>2. ssts' \in SUBSET Sst /\ flushed' \in SUBSET Sst  BY <1>1, <1>t DEF TypeOK
    <2> QED  BY <1>0, <1>1, <1>7, <2>1, <2>2 DEF TypeOK
  <1>21. Fresh'
    <2> SUFFICES ASSUME NEW f \in BlobFile, data'[f] = 0
                 PROVE  /\ f \notin sorted' /\ f \notin counted' /\ meta'[f] = "kAbsent"
                        /\ mem'[f] = 0 /\ unindexed'[f] = 0 /\ discardable'[f] = 0
                        /\ \A u \in Sst : prop'[u][f] = 0
      BY DEF Fresh
    <2>1. ~(made[f] > 0)  BY <1>3, <1>10
    <2>2. data[f] = 0  BY <1>11, <2>1
    <2>3. K[f] = 0  BY <1>3, <1>11, <2>1, <2>2, FreshFacts
    <2> QED  BY <1>1, <1>3, <1>7, <1>11, <2>1, <2>2, <2>3, FreshFacts
  <1>22. Jobs'
    BY <1>1, <1>2 DEF Jobs
  <1>23. Budget'
    <2> SUFFICES ASSUME NEW f \in BlobFile
                 PROVE  /\ InSsts(f)' + Unreported(f)' + mem'[f] + unindexed'[f] <= data'[f]
                        /\ InFlushed(f)' + mem'[f] + unindexed'[f] <= data'[f]
      BY DEF Budget
    <2>1. CASE made[f] > 0  BY <1>3, <1>10, <2>1
    <2>2. CASE ~(made[f] > 0)
      <3>1. /\ InSsts(f) + Unreported(f) + mem[f] + unindexed[f] <= data[f]
            /\ InFlushed(f) + mem[f] + unindexed[f] <= data[f]
        BY DEF Budget
      <3>2. K[f] \in Nat /\ K[f] <= mem[f] /\ mem'[f] = 0 /\ unindexed'[f] = unindexed[f]
        BY <1>1, <1>3, <1>5, <1>11, <2>2
      <3> QED  BY <1>9, <1>11, <2>2, <3>1, <3>2, <1>t, Types
    <2> QED  BY <2>1, <2>2
  <1>24. Origin'
    <2>1. ASSUME NEW f \in BlobFile \ sorted'
          PROVE  (data'[f] > 0 => IsLive(meta'[f])) /\ Creators(f)' = {}
      <3>1. ~(made[f] > 0)  BY <1>10, <2>1
      <3>2. f \notin sorted /\ data'[f] = data[f] /\ meta'[f] = meta[f]  BY <1>11, <3>1
      <3> QED  BY <1>9, <3>2 DEF Origin
    <2>2. ASSUME NEW f \in sorted'
          PROVE  /\ mem'[f] = 0 /\ unindexed'[f] = 0
                 /\ \A u \in Flushes(f)' : prop'[u][f] = data'[f] /\ Creators(f)' = {}
                 /\ \A u, v \in Flushes(f)' : u = v
                 /\ \A c, d \in Creators(f)' : c = d
      <3>0. f \in BlobFile  BY <1>12
      <3>1. CASE made[f] > 0
        <4>1. prop'[s][f] = data'[f]  BY <1>7, <1>10, <3>0, <3>1
        <4> QED  BY <1>10, <3>0, <3>1, <4>1
      <3>2. CASE ~(made[f] > 0)
        <4>1. f \in sorted /\ data'[f] = data[f]  BY <1>11, <3>0, <3>2
        <4>2. \A u \in Flushes(f) : u # s /\ u \in Sst  BY <1>2, <1>t DEF Flushes, TypeOK
        <4> QED  BY <1>1, <1>3, <1>7, <1>13, <3>0, <3>2, <4>1, <4>2 DEF Origin
      <3> QED  BY <3>1, <3>2
    <2> QED  BY <2>1, <2>2 DEF Origin
  <1>25. Reported'
    <2> SUFFICES ASSUME NEW f \in sorted'
                 PROVE  \E e \in 0..data'[f] :
                          /\ e + InSsts(f)' + Unreported(f)' <= data'[f]
                          /\ \/ discardable'[f] = e
                             \/ Flushes(f)' = {} /\ discardable'[f] = (e - data'[f]) % Word
      BY DEF Reported
    <2>0. f \in BlobFile  BY <1>12
    <2>1. CASE made[f] > 0
      <3>1. 0 \in 0..data'[f] /\ 0 + InSsts(f)' + Unreported(f)' <= data'[f] /\ discardable'[f] = 0
        BY <1>3, <1>10, <2>0, <2>1
      <3> QED  BY <3>1
    <2>2. CASE ~(made[f] > 0)
      <3>1. f \in sorted /\ data'[f] = data[f] /\ discardable'[f] = discardable[f]
        BY <1>1, <1>11, <2>0, <2>2
      <3> QED  BY <1>13, <2>2, <3>1 DEF Reported
    <2> QED  BY <2>1, <2>2
  <1>26. Dead'
    <2> SUFFICES ASSUME NEW f \in sorted', ~IsLive(meta'[f])
                 PROVE  InSsts(f)' = 0 /\ Unreported(f)' = 0
      BY DEF Dead
    <2>0. f \in BlobFile  BY <1>12
    <2>1. ~(made[f] > 0)  BY <1>10, <2>0 DEF IsLive
    <2>2. f \in sorted /\ meta'[f] = meta[f]  BY <1>11, <2>0, <2>1
    <2> QED  BY <1>13, <2>1, <2>2 DEF Dead
  <1>27. ASSUME ~disordered' PROVE Ordered' /\ Exact'
    <2>0. Ordered /\ Exact  BY <1>1, <1>27
    <2>1. Awaited' = Awaited \cup {s}  BY <1>1 DEF Awaited
    <2>2. ASSUME NEW f \in BlobFile, data'[f] > 0, New(f)'
          PROVE  /\ IsLive(meta'[f]) /\ discardable'[f] = 0
                 /\ \A u \in ssts' \cup UNION {c[1] : c \in compacted'} :
                      prop'[u][f] > 0 => u \in Awaited'
      <3>a. \A u \in ssts \cup UNION {c[1] : c \in compacted} : u \in Sst  BY <1>t, Types
      <3>1. CASE made[f] > 0
        <4>1. data[f] = 0  BY <1>4, <3>1
        <4>2. \A u \in Sst : prop[u][f] = 0  BY <4>1, FreshFacts
        <4>3. \A u \in ssts' \cup UNION {c[1] : c \in compacted'} :
                prop'[u][f] > 0 => u \in Awaited'
          BY <1>1, <1>7, <2>1, <3>a, <4>2
        <4> QED  BY <1>10, <3>1, <4>3 DEF IsLive
      <3>2. CASE ~(made[f] > 0)
        <4>1. data[f] > 0 /\ meta'[f] = meta[f] /\ discardable'[f] = discardable[f]
          BY <1>1, <1>11, <2>2, <3>2
        <4>2. New(f)
          <5>1. CASE f \in sorted  BY <1>11, <1>13, <2>2, <3>2, <5>1 DEF New
          <5>2. CASE f \notin sorted  BY <1>1, <1>11, <2>2, <3>2, <5>2 DEF New
          <5> QED  BY <5>1, <5>2
        <4> QED  BY <1>1, <1>7, <2>0, <2>1, <3>a, <4>1, <4>2 DEF Ordered
      <3> QED  BY <3>1, <3>2
    <2>3. ASSUME NEW f \in sorted', IsLive(meta'[f])
          PROVE  /\ InSsts(f)' + Unreported(f)' > 0
                 /\ discardable'[f] = data'[f] - InSsts(f)' - Unreported(f)'
      <3>0. f \in BlobFile  BY <1>12
      <3>1. CASE made[f] > 0  BY <1>3, <1>10, <3>0, <3>1
      <3>2. CASE ~(made[f] > 0)
        <4>1. /\ f \in sorted /\ meta'[f] = meta[f] /\ data'[f] = data[f]
              /\ discardable'[f] = discardable[f]
          BY <1>1, <1>11, <3>0, <3>2
        <4> QED  BY <1>13, <2>0, <2>3, <3>2, <4>1 DEF Exact
      <3> QED  BY <3>1, <3>2
    <2>4. ASSUME NEW f \in BlobFile \ sorted'
          PROVE  IF f \in counted'
                 THEN discardable'[f] =
                        (data'[f] - InSsts(f)' - Unreported(f)' + InFlushed(f)') % Word
                 ELSE InSsts(f)' + Unreported(f)' = InFlushed(f)'
      <3>1. ~(made[f] > 0)  BY <1>10, <2>4
      <3>2. f \in BlobFile \ sorted /\ data'[f] = data[f]  BY <1>11, <2>4, <3>1
      <3>3. K[f] \in Nat  BY <1>5
      <3>4. CASE f \in counted
        <4>1. discardable[f] = (data[f] - InSsts(f) - Unreported(f) + InFlushed(f)) % Word
          BY <2>0, <3>2, <3>4 DEF Exact
        <4>2. data'[f] - InSsts(f)' - Unreported(f)' + InFlushed(f)' =
                data[f] - InSsts(f) - Unreported(f) + InFlushed(f)
          BY <1>9, <3>2, <3>3, <1>t, Types
        <4> QED  BY <1>1, <3>4, <4>1, <4>2
      <3>5. CASE f \notin counted
        <4>1. InSsts(f) + Unreported(f) = InFlushed(f)  BY <2>0, <3>2, <3>5 DEF Exact
        <4> QED  BY <1>1, <1>9, <3>3, <3>5, <4>1, <1>t, Types
      <3> QED  BY <3>4, <3>5
    <2>5. Ordered'  BY <2>2 DEF Ordered
    <2>6. Exact'  BY <2>3, <2>4 DEF Exact
    <2> QED  BY <2>5, <2>6
  <1>28. Listed'
    <2> SUFFICES ASSUME NEW f \in obsolete
                 PROVE  /\ f \in sorted' /\ InSsts(f)' = 0 /\ Unreported(f)' = 0
                        /\ ~disordered => ~IsLive(meta'[f])
      BY <1>1 DEF Listed
    <2>1. f \in sorted /\ f \in BlobFile  BY <1>t DEF Listed, TypeOK
    <2>2. ~(made[f] > 0)  BY <1>4, <2>1 DEF Fresh
    <2>3. f \in sorted' /\ meta'[f] = meta[f]  BY <1>11, <2>1, <2>2
    <2> QED  BY <1>13, <2>1, <2>2, <2>3 DEF Listed
  <1> QED  BY <1>20, <1>21, <1>22, <1>23, <1>24, <1>25, <1>26, <1>27, <1>28

----------------------------------------------------------------------------
(* Callbacks                                                                *)

LEMMA WordMod ==
  /\ \A a \in Int : a % Word \in 0..(Word - 1) /\ a % Word \in Nat
  /\ \A a \in 0..(Word - 1) : a % Word = a
  /\ 0 % Word = 0
  <1>1. Word \in Nat /\ Word > 0  BY AccountingAssumption
  <1> QED  BY <1>1

\* What a callback leaves mentioned keeps its properties.
LEMMA ForgetFacts ==
  ASSUME TypeOK, Forget, ssts' \in SUBSET Sst, flushed' \in SUBSET Sst, compacted' \in Jobsets
  PROVE  /\ prop' \in [Sst -> Count] /\ prop' \in Props
         /\ \A u \in ssts' \cup flushed' : prop'[u] = prop[u]
         /\ \A c \in compacted' : \A u \in c[1] \cup c[2] : prop'[u] = prop[u]
         /\ \A u \in Sst, f \in BlobFile : prop'[u][f] \in {0, prop[u][f]}
  <1>1. Zero \in Count /\ prop \in [Sst -> Count]  BY AccountingAssumption DEF Zero, Count, TypeOK
  <1>2. \A u \in Sst : prop'[u] = IF FreeSst(u)' THEN Zero ELSE prop[u]  BY DEF Forget
  <1>3. prop' \in [Sst -> Count]  BY <1>1 DEF Forget
  <1>4. prop' \in Props  BY <1>3, AccountingAssumption DEF Props, Count
  <1>5. \A u \in ssts' \cup flushed' : prop'[u] = prop[u]  BY <1>2 DEF FreeSst
  <1>6. \A c \in compacted' : \A u \in c[1] \cup c[2] : prop'[u] = prop[u]
    <2>1. ASSUME NEW c \in compacted', NEW u \in c[1] \cup c[2] PROVE prop'[u] = prop[u]
      <3>1. u \in Sst  BY DEF Jobsets
      <3>2. ~FreeSst(u)'  BY DEF FreeSst
      <3> QED  BY <1>2, <3>1, <3>2
    <2> QED  BY <2>1
  <1>7. \A u \in Sst, f \in BlobFile : prop'[u][f] \in {0, prop[u][f]}  BY <1>2 DEF Zero
  <1> QED  BY <1>3, <1>4, <1>5, <1>6, <1>7

LEMMA ForgetKeeps ==
  ASSUME TypeOK, Forget, ssts' \in SUBSET Sst, flushed' \in SUBSET Sst, compacted' \in Jobsets,
         NEW f \in BlobFile
  PROVE  /\ InSsts(f)' = Ref(prop, f, ssts') /\ InFlushed(f)' = Ref(prop, f, flushed')
         /\ Unreported(f)' = Outstanding(prop, f, compacted')
         /\ Flushes(f)' = {u \in flushed' : prop[u][f] > 0}
         /\ Creators(f)' = {c \in compacted' : Creates(prop, f, c)}
  <1>1. /\ \A u \in ssts' : prop'[u][f] = prop[u][f]
        /\ \A u \in flushed' : prop'[u][f] = prop[u][f]
        /\ \A c \in compacted' : \A u \in c[1] \cup c[2] : prop'[u][f] = prop[u][f]
    BY ForgetFacts
  <1>2. Ref(prop', f, ssts') = Ref(prop, f, ssts') /\ Ref(prop', f, flushed') = Ref(prop, f, flushed')
    BY <1>1, RefSame
  <1>3. /\ Outstanding(prop', f, compacted') = Outstanding(prop, f, compacted')
        /\ \A c \in compacted' : Creates(prop', f, c) = Creates(prop, f, c)
    BY <1>1, JobsKept
  <1>4. Flushes(f)' = {u \in flushed' : prop[u][f] > 0}  BY <1>1 DEF Flushes
  <1>5. Creators(f)' = {c \in compacted' : Creates(prop, f, c)}  BY <1>3 DEF Creators
  <1> QED  BY <1>2, <1>3, <1>4, <1>5 DEF InSsts, InFlushed, Unreported

\* No event but kDelete makes a file obsolete, none makes it unknown.
LEMMA TransitLive ==
  ASSUME NEW st \in MetaState
  PROVE  /\ \A e \in {"kFlushCompleted", "kNeedMerge", "kNeedGC"} :
              /\ IsLive(st) => IsLive(FileStateTransit(e, st))
              /\ FileStateTransit(e, st) \in MetaState
         /\ FileStateTransit("kCompactionCompleted", st) = "kNormal"
         /\ FileStateTransit("kDelete", st) = "kObsolete"
         /\ FileStateTransit("kFlushCompleted", st) =
              IF st = "kPendingLSM" THEN "kNormal" ELSE st
         /\ FileStateTransit("kNeedMerge", "kObsolete") = "kObsolete"
         /\ FileStateTransit("kNeedGC", "kObsolete") = "kObsolete"
  BY DEF FileStateTransit, MetaState, FileState, IsLive

LEMMA OnFlushCompletedInv ==
  ASSUME Inv, NEW s \in flushed, OnFlushCompleted(s)
  PROVE  Inv'
  <1> USE DEF Inv
  <1>t. TypeOK /\ s \in Sst  BY DEF TypeOK
  <1> DEFINE n(f) == prop[s][f]
             files == {f \in BlobFile : prop[s][f] > 0 /\ Known(f)}
  <1>1. /\ flushed' = flushed \ {s} /\ counted' = counted \cup files
        /\ UNCHANGED <<sorted, data, unindexed, mem, ssts, compacted, obsolete, disordered, ranged>>
        /\ Forget
    BY DEF OnFlushCompleted
  <1>2. ASSUME NEW f \in BlobFile
        PROVE  /\ discardable'[f] = IF f \in files
                 THEN (discardable[f] + FlushedDiscardable(f, n(f))) % Word ELSE discardable[f]
               /\ meta'[f] = IF f \in files THEN FileStateTransit("kFlushCompleted", meta[f])
                                            ELSE meta[f]
    BY DEF OnFlushCompleted
  <1>3. \A f \in BlobFile : n(f) \in 0..MaxRec /\ n(f) \in Nat  BY <1>t, Types
  <1>4. \A f \in BlobFile : FlushedDiscardable(f, n(f)) \in Int /\ discardable[f] \in Int
    BY <1>3, <1>t, Types DEF FlushedDiscardable
  <1>5. \A f \in BlobFile : f \in files <=> n(f) > 0 /\ Known(f)  OBVIOUS
  <1>6. files \subseteq BlobFile  OBVIOUS
  <1>7. ssts' \in SUBSET Sst /\ flushed' \in SUBSET Sst /\ compacted' \in Jobsets
    BY <1>1, <1>t, Types
  <1>8. TypeOK'
    <2>1. discardable' \in [BlobFile -> 0..(Word - 1)]
      <3>1. DOMAIN discardable' = BlobFile /\ discardable' = [f \in BlobFile |-> discardable'[f]]
        BY DEF OnFlushCompleted
      <3>2. \A f \in BlobFile : discardable'[f] \in 0..(Word - 1)
        BY <1>2, <1>4, <1>t, Types, WordMod
      <3> QED  BY <3>1, <3>2
    <2>2. meta' \in [BlobFile -> MetaState]
      <3>1. DOMAIN meta' = BlobFile /\ meta' = [f \in BlobFile |-> meta'[f]]
        BY DEF OnFlushCompleted
      <3>2. \A f \in BlobFile : meta[f] \in MetaState  BY <1>t DEF TypeOK
      <3>3. \A f \in BlobFile : meta'[f] \in MetaState  BY <1>2, <3>2, TransitLive
      <3> QED  BY <3>1, <3>3
    <2>3. prop' \in [Sst -> Count]  BY <1>1, <1>7, <1>t, ForgetFacts
    <2>4. counted' \in SUBSET BlobFile  BY <1>1, <1>6, <1>t DEF TypeOK
    <2> QED  BY <1>1, <1>7, <2>1, <2>2, <2>3, <2>4, <1>t DEF TypeOK
  <1>9. \A f \in BlobFile : /\ IsLive(meta'[f]) = IsLive(meta[f])
                            /\ (meta'[f] = "kAbsent") = (meta[f] = "kAbsent")
    <2>1. \A f \in BlobFile : meta[f] \in MetaState  BY <1>t DEF TypeOK
    <2> QED  BY <1>2, <2>1, TransitLive DEF IsLive
  <1> HIDE DEF files, n
  <1>10. ASSUME NEW f \in BlobFile
         PROVE  /\ InSsts(f)' = InSsts(f) /\ Unreported(f)' = Unreported(f)
                /\ Creators(f)' = Creators(f) /\ Flushes(f)' = Flushes(f) \ {s}
                /\ InFlushed(f) = InFlushed(f)' + n(f) /\ InFlushed(f)' \in Nat
    <2>1. /\ InSsts(f)' = Ref(prop, f, ssts') /\ InFlushed(f)' = Ref(prop, f, flushed')
          /\ Unreported(f)' = Outstanding(prop, f, compacted')
          /\ Flushes(f)' = {u \in flushed' : prop[u][f] > 0}
          /\ Creators(f)' = {c \in compacted' : Creates(prop, f, c)}
      BY <1>1, <1>7, <1>t, ForgetKeeps
    <2>2. /\ Ref(prop, f, flushed) = Ref(prop, f, flushed \ {s}) + Ref(prop, f, {s})
          /\ Ref(prop, f, flushed \ {s}) \in Nat
      <3>1. {s} \in SUBSET flushed  OBVIOUS
      <3> QED  BY <3>1, <1>t, Types, RefRemove
    <2>3. Ref(prop, f, {s}) = n(f)  BY <1>t, Types, RefOne DEF n
    <2>4. Flushes(f)' = Flushes(f) \ {s}  BY <1>1, <2>1 DEF Flushes
    <2>5. Creators(f)' = Creators(f)  BY <1>1, <2>1 DEF Creators
    <2> QED  BY <1>1, <2>1, <2>2, <2>3, <2>4, <2>5 DEF InSsts, InFlushed, Unreported
  <1>11. \A f \in BlobFile : n(f) > 0 => data[f] > 0 /\ s \in Flushes(f)
    <2> SUFFICES ASSUME NEW f \in BlobFile, n(f) > 0 PROVE data[f] > 0 /\ s \in Flushes(f)
      OBVIOUS
    <2>1. s \in Flushes(f)  BY DEF Flushes, n
    <2>2. data[f] # 0  BY <2>1, FreshFacts
    <2> QED  BY <2>1, <2>2, <1>t, Types
  <1>12. \A f \in sorted : f \in BlobFile  BY <1>t DEF TypeOK
  <1>13. ASSUME NEW f \in sorted, n(f) > 0
         PROVE  n(f) = data[f] /\ Flushes(f)' = {} /\ Creators(f) = {} /\ Flushes(f) # {}
    <2>1. s \in Flushes(f)  BY <1>11, <1>12, <1>13
    <2>2. n(f) = data[f] /\ Creators(f) = {} /\ \A u, v \in Flushes(f) : u = v
      BY <2>1 DEF Origin, n
    <2> QED  BY <1>10, <1>12, <2>1, <2>2
  <1>20. Fresh'
    <2>1. \A f \in BlobFile : data[f] = 0 => f \notin files
      BY <1>5, <1>3, <1>11
    <2>2. \A f \in BlobFile, u \in Sst : prop[u][f] = 0 => prop'[u][f] = 0
      BY <1>1, <1>7, <1>t, ForgetFacts
    <2> QED  BY <1>1, <1>2, <2>1, <2>2 DEF Fresh
  <1>21. Jobs'  BY <1>1 DEF Jobs
  <1>22. Budget'
    <2> SUFFICES ASSUME NEW f \in BlobFile
                 PROVE  /\ InSsts(f)' + Unreported(f)' + mem'[f] + unindexed'[f] <= data'[f]
                        /\ InFlushed(f)' + mem'[f] + unindexed'[f] <= data'[f]
      BY DEF Budget
    <2>1. /\ InSsts(f) + Unreported(f) + mem[f] + unindexed[f] <= data[f]
          /\ InFlushed(f) + mem[f] + unindexed[f] <= data[f]
      BY DEF Budget
    <2>2. InFlushed(f)' <= InFlushed(f)  BY <1>3, <1>10
    <2> QED  BY <1>1, <1>10, <2>1, <2>2, <1>t, Types
  <1>23. Origin'
    <2>1. ASSUME NEW f \in BlobFile \ sorted'
          PROVE  (data'[f] > 0 => IsLive(meta'[f])) /\ Creators(f)' = {}
      BY <1>1, <1>9, <1>10 DEF Origin
    <2>2. ASSUME NEW f \in sorted'
          PROVE  /\ mem'[f] = 0 /\ unindexed'[f] = 0
                 /\ \A u \in Flushes(f)' : prop'[u][f] = data'[f] /\ Creators(f)' = {}
                 /\ \A u, v \in Flushes(f)' : u = v
                 /\ \A c, d \in Creators(f)' : c = d
      <3>1. f \in sorted /\ f \in BlobFile  BY <1>1, <1>12
      <3>2. Flushes(f)' \subseteq Flushes(f) /\ Flushes(f)' \subseteq flushed'
        BY <1>10, <3>1 DEF Flushes
      <3>3. \A u \in flushed' : prop'[u] = prop[u]  BY <1>1, <1>7, <1>t, ForgetFacts
      <3> QED  BY <1>1, <1>10, <3>1, <3>2, <3>3 DEF Origin
    <2> QED  BY <2>1, <2>2 DEF Origin
  <1>24. Reported'
    <2> SUFFICES ASSUME NEW f \in sorted'
                 PROVE  \E e \in 0..data'[f] :
                          /\ e + InSsts(f)' + Unreported(f)' <= data'[f]
                          /\ \/ discardable'[f] = e
                             \/ Flushes(f)' = {} /\ discardable'[f] = (e - data'[f]) % Word
      BY DEF Reported
    <2>1. f \in sorted /\ f \in BlobFile  BY <1>1, <1>12
    <2>2. PICK e \in 0..data[f] :
            /\ e + InSsts(f) + Unreported(f) <= data[f]
            /\ \/ discardable[f] = e
               \/ Flushes(f) = {} /\ discardable[f] = (e - data[f]) % Word
      BY <2>1 DEF Reported
    <2>3. /\ e \in 0..data'[f] /\ e + InSsts(f)' + Unreported(f)' <= data'[f] /\ e \in Nat
          /\ data'[f] = data[f] /\ data[f] \in Nat
      BY <1>1, <1>10, <2>1, <2>2, <1>t, Types
    <2>4. CASE f \in files
      <3>1. n(f) = data[f] /\ Flushes(f)' = {} /\ discardable[f] = e
        BY <1>5, <1>13, <2>1, <2>2, <2>4
      <3>2. CASE e = 0
        <4>1. FlushedDiscardable(f, n(f)) = 0
          BY <3>1, <3>2, <2>3 DEF FlushedDiscardable
        <4>2. discardable'[f] = 0
          <5>1. discardable'[f] = (discardable[f] + FlushedDiscardable(f, n(f))) % Word
            BY <1>2, <2>1, <2>4
          <5> QED  BY <3>1, <3>2, <4>1, <5>1, WordMod
        <4> QED  BY <2>3, <3>2, <4>2
      <3>3. CASE e # 0
        <4>1. FlushedDiscardable(f, n(f)) = 0 - data[f]  BY <3>1, <3>3 DEF FlushedDiscardable
        <4>2. discardable[f] + FlushedDiscardable(f, n(f)) = e - data[f]
          BY <2>3, <3>1, <4>1
        <4>3. discardable'[f] = (e - data'[f]) % Word
          BY <1>2, <2>1, <2>3, <2>4, <4>2
        <4> QED  BY <2>3, <3>1, <4>3
      <3> QED  BY <3>2, <3>3
    <2>5. CASE f \notin files
      <3>1. discardable'[f] = discardable[f] /\ (Flushes(f) = {} => Flushes(f)' = {})
        BY <1>2, <1>10, <2>1, <2>5
      <3> QED  BY <2>2, <2>3, <3>1
    <2> QED  BY <2>4, <2>5
  <1>25. Dead'  BY <1>1, <1>9, <1>10, <1>12 DEF Dead
  <1>26. ASSUME ~disordered' PROVE Ordered' /\ Exact'
    <2>0. Ordered /\ Exact  BY <1>1, <1>26
    <2>1. ASSUME NEW f \in BlobFile, data'[f] > 0, New(f)'
          PROVE  /\ IsLive(meta'[f]) /\ discardable'[f] = 0
                 /\ \A u \in ssts' \cup UNION {c[1] : c \in compacted'} :
                      prop'[u][f] > 0 => u \in Awaited'
      <3>1. New(f)
        <4>1. CASE f \in sorted  BY <1>1, <1>10, <2>1, <4>1 DEF New
        <4>2. CASE f \notin sorted  BY <1>1, <2>1, <4>2 DEF New
        <4> QED  BY <4>1, <4>2
      <3>2. /\ IsLive(meta[f]) /\ discardable[f] = 0
            /\ \A u \in ssts \cup UNION {c[1] : c \in compacted} : prop[u][f] > 0 => u \in Awaited
        BY <1>1, <2>0, <2>1, <3>1 DEF Ordered
      <3>3. Known(f)  BY <3>2 DEF IsLive, Known
      <3>4. f \notin files
        <4>1. CASE f \in sorted
          <5>1. f \in files => Flushes(f)' = {} /\ Creators(f)' = {}
            BY <1>5, <1>10, <1>13, <4>1
          <5> QED  BY <1>1, <2>1, <4>1, <5>1 DEF New
        <4>2. CASE f \notin sorted  BY <1>1, <2>1, <4>2 DEF New
        <4> QED  BY <4>1, <4>2
      <3>5. n(f) = 0  BY <1>3, <1>5, <3>3, <3>4
      <3>6. \A u \in ssts \cup UNION {c[1] : c \in compacted} : u \in Sst  BY <1>t, Types
      <3>7. \A u \in Sst : prop'[u][f] > 0 => prop[u][f] > 0 /\ u # s
        <4>1. \A u \in Sst : prop'[u][f] \in {0, prop[u][f]}  BY <1>1, <1>7, <1>t, ForgetFacts
        <4> QED  BY <3>5, <4>1 DEF n
      <3>8. \A u \in Awaited : u # s => u \in Awaited'  BY <1>1 DEF Awaited
      <3> QED  BY <1>1, <1>2, <1>9, <3>2, <3>4, <3>6, <3>7, <3>8
    <2>2. ASSUME NEW f \in sorted', IsLive(meta'[f])
          PROVE  /\ InSsts(f)' + Unreported(f)' > 0
                 /\ discardable'[f] = data'[f] - InSsts(f)' - Unreported(f)'
      <3>1. f \in sorted /\ f \in BlobFile /\ IsLive(meta[f])  BY <1>1, <1>9, <1>12, <2>2
      <3>2. discardable'[f] = discardable[f]
        <4>1. CASE f \notin files  BY <1>2, <3>1, <4>1
        <4>2. CASE f \in files
          <5>1. n(f) > 0 /\ n(f) = data[f] /\ Flushes(f) # {} /\ data[f] > 0
            BY <1>5, <1>11, <1>13, <3>1, <4>2
          <5>2. New(f)  BY <3>1, <5>1 DEF New
          <5>3. discardable[f] = 0  BY <2>0, <3>1, <5>1, <5>2 DEF Ordered
          <5>4. FlushedDiscardable(f, n(f)) = 0
            BY <1>3, <3>1, <5>1, <5>3 DEF FlushedDiscardable
          <5>5. discardable'[f] = (discardable[f] + FlushedDiscardable(f, n(f))) % Word
            BY <1>2, <3>1, <4>2
          <5> QED  BY <5>3, <5>4, <5>5, WordMod
        <4> QED  BY <4>1, <4>2
      <3> QED  BY <1>1, <1>10, <2>0, <3>1, <3>2 DEF Exact
    <2>3. ASSUME NEW f \in BlobFile \ sorted'
          PROVE  IF f \in counted'
                 THEN discardable'[f] =
                        (data'[f] - InSsts(f)' - Unreported(f)' + InFlushed(f)') % Word
                 ELSE InSsts(f)' + Unreported(f)' = InFlushed(f)'
      <3>0. f \in BlobFile \ sorted  BY <1>1
      <3>t. /\ data[f] \in Nat /\ data[f] <= MaxRec /\ InSsts(f) \in Nat /\ Unreported(f) \in Nat
            /\ InFlushed(f) \in Nat /\ InFlushed(f)' \in Nat /\ n(f) \in Nat
            /\ discardable[f] \in Nat /\ MaxRec \in Nat /\ Word \in Nat
            /\ Word > 2 * MaxRec + HeaderSize /\ HeaderSize \in Nat
        BY <1>3, <1>10, <3>0, <1>t, Types
      <3>b. /\ InSsts(f) + Unreported(f) <= data[f] /\ InFlushed(f) <= data[f]
        <4>1. /\ InSsts(f) + Unreported(f) + mem[f] + unindexed[f] <= data[f]
              /\ InFlushed(f) + mem[f] + unindexed[f] <= data[f]
          BY DEF Budget
        <4>2. mem[f] \in Nat /\ unindexed[f] \in Nat  BY <1>t, Types
        <4> QED  BY <3>t, <4>1, <4>2
      <3>1. CASE f \notin files
        <4>1. n(f) = 0
          <5>1. n(f) > 0 => Known(f)
            <6>1. data[f] > 0 => IsLive(meta[f])  BY <3>0 DEF Origin
            <6> QED  BY <1>11, <6>1 DEF IsLive, Known
          <5> QED  BY <1>5, <3>1, <3>t, <5>1
        <4>2. InFlushed(f)' = InFlushed(f)  BY <1>10, <4>1, <3>t
        <4>3. discardable'[f] = discardable[f] /\ (f \in counted' <=> f \in counted)
          BY <1>1, <1>2, <3>1
        <4> QED  BY <1>1, <1>10, <2>0, <3>0, <4>2, <4>3 DEF Exact
      <3>2. CASE f \in files
        <4>0. f \in counted' /\ n(f) > 0 /\ data[f] > 0  BY <1>1, <1>5, <1>11, <3>2
        <4>1. discardable'[f] = (discardable[f] + FlushedDiscardable(f, n(f))) % Word
          BY <1>2, <3>2
        <4>2. InFlushed(f) = InFlushed(f)' + n(f) /\ InSsts(f)' = InSsts(f)
              /\ Unreported(f)' = Unreported(f) /\ data'[f] = data[f]
          BY <1>1, <1>10
        <4>3. discardable[f] + FlushedDiscardable(f, n(f)) =
                data[f] - InSsts(f) - Unreported(f) + InFlushed(f)'
          <5>1. CASE f \in counted
            <6>1. discardable[f] = (data[f] - InSsts(f) - Unreported(f) + InFlushed(f)) % Word
              BY <2>0, <3>0, <5>1 DEF Exact
            <6>2. /\ data[f] - InSsts(f) - Unreported(f) + InFlushed(f) \in 0..(Word - 1)
                  /\ data[f] - InSsts(f) - Unreported(f) + InFlushed(f) > 0
              BY <3>t, <3>b, <4>0, <4>2
            <6>3. discardable[f] = data[f] - InSsts(f) - Unreported(f) + InFlushed(f)
              BY <6>1, <6>2, WordMod
            <6>4. FlushedDiscardable(f, n(f)) = 0 - n(f)
              BY <6>2, <6>3 DEF FlushedDiscardable
            <6> QED  BY <3>t, <4>2, <6>3, <6>4
          <5>2. CASE f \notin counted
            <6>1. InSsts(f) + Unreported(f) = InFlushed(f)  BY <2>0, <3>0, <5>2 DEF Exact
            <6>2. New(f)  BY <3>0, <5>2 DEF New
            <6>3. discardable[f] = 0  BY <2>0, <4>0, <6>2 DEF Ordered
            <6>4. FlushedDiscardable(f, n(f)) = data[f] - n(f)  BY <6>3 DEF FlushedDiscardable
            <6>5. data[f] - InSsts(f) - Unreported(f) + InFlushed(f)' = data[f] - n(f)
              BY <3>t, <4>2, <6>1
            <6>6. 0 + (data[f] - n(f)) = data[f] - n(f)  BY <3>t
            <6> QED  BY <6>3, <6>4, <6>5, <6>6
          <5> QED  BY <5>1, <5>2
        <4> QED  BY <4>0, <4>1, <4>2, <4>3
      <3> QED  BY <3>1, <3>2
    <2>4. Ordered'  BY <2>1 DEF Ordered
    <2>5. Exact'  BY <2>2, <2>3 DEF Exact
    <2> QED  BY <2>4, <2>5
  <1>27. Listed'
    <2>1. \A f \in obsolete : f \in BlobFile  BY <1>t DEF TypeOK
    <2> QED  BY <1>1, <1>9, <1>10, <2>1 DEF Listed
  <1> QED  BY <1>8, <1>20, <1>21, <1>22, <1>23, <1>24, <1>25, <1>26, <1>27

----------------------------------------------------------------------------
(* Compact                                                                  *)

LEMMA CompactInv ==
  ASSUME Inv, NEW ins \in (SUBSET ssts) \ {{}}, NEW s \in Sst, NEW t \in Sst, NEW made \in Made,
         NEW kept \in UpTo([f \in BlobFile |-> Referred(f, ins)]),
         NEW rest \in UpTo([f \in BlobFile |->
                              [g \in BlobFile |-> Referred(g, ins)][f] - kept[f]]),
         Compact(ins, s, t, kept, rest, made)
  PROVE  Inv'
  <1> USE DEF Inv
  <1> DEFINE K == Plus(kept, made)
             outs == (IF K = Zero THEN {} ELSE {s}) \cup (IF rest = Zero THEN {} ELSE {t})
             c == <<ins, outs>>
             all(f) == Ref(prop, f, ins)
  <1>t. TypeOK  OBVIOUS
  <1>0. /\ MadeFiles(made)
        /\ meta' \in [BlobFile -> MetaState] /\ sorted' \in SUBSET BlobFile /\ data' \in Count
    BY NewSortedFacts DEF Compact
  <1>1. /\ FreeSst(s) /\ FreeSst(t) /\ (s = t <=> rest = Zero)
        /\ prop' = [u \in Sst |-> IF u \notin outs THEN prop[u]
                                  ELSE IF u = s THEN K ELSE rest]
        /\ ssts' = (ssts \ ins) \cup outs /\ compacted' = compacted \cup {c}
        /\ UNCHANGED <<discardable, unindexed, mem, flushed, obsolete, counted, disordered, ranged>>
    BY DEF Compact
  <1>2. \A u \in {s, t} : /\ u \notin ssts /\ u \notin flushed
                          /\ \A d \in compacted : u \notin d[1] \cup d[2]
    BY <1>1 DEF FreeSst
  <1>o. outs \in SUBSET {s, t} /\ outs \in SUBSET Sst /\ c[1] = ins /\ c[2] = outs  OBVIOUS
  <1>i. ins \in SUBSET Sst /\ ins # {} /\ ins \in SUBSET ssts  BY <1>t, Types
  <1>3. \A f \in BlobFile : /\ kept[f] \in 0..MaxRec /\ rest[f] \in 0..MaxRec /\ all(f) \in Nat
                            /\ made[f] \in 0..MaxRec /\ kept[f] + rest[f] <= all(f)
                            /\ K[f] = kept[f] + made[f]
    <2> SUFFICES ASSUME NEW f \in BlobFile
                 PROVE  /\ kept[f] \in 0..MaxRec /\ rest[f] \in 0..MaxRec /\ all(f) \in Nat
                        /\ made[f] \in 0..MaxRec /\ kept[f] + rest[f] <= all(f)
                        /\ K[f] = kept[f] + made[f]
      OBVIOUS
    <2>1. Referred(f, ins) = all(f)  BY DEF Referred, Ref
    <2>2. all(f) \in Nat  BY <1>i, <1>t, Types, RefType
    <2>3. kept[f] \in 0..MaxRec /\ kept[f] <= all(f)  BY <2>1 DEF UpTo, Count
    <2>4. rest[f] \in 0..MaxRec /\ rest[f] <= all(f) - kept[f]  BY <2>1 DEF UpTo, Count
    <2>5. made[f] \in 0..MaxRec  BY <1>t, MadeFresh
    <2>6. K[f] = kept[f] + made[f]  BY DEF Plus
    <2>7. MaxRec \in Nat  BY AccountingAssumption
    <2> QED  BY <2>2, <2>3, <2>4, <2>5, <2>6, <2>7
  <1>4. ASSUME NEW f \in BlobFile, made[f] > 0
        PROVE  /\ all(f) = 0 /\ kept[f] = 0 /\ rest[f] = 0 /\ K[f] = made[f] /\ data[f] = 0
    <2>1. data[f] = 0  BY <1>0, <1>4 DEF MadeFiles
    <2>2. \A u \in ins : prop[u][f] = 0  BY <2>1, <1>i, FreshFacts
    <2>3. all(f) = 0  BY <2>2, <1>i, RefZero
    <2>4. /\ kept[f] \in Nat /\ rest[f] \in Nat /\ made[f] \in Nat
          /\ kept[f] + rest[f] <= all(f) /\ K[f] = kept[f] + made[f]
      BY <1>3, AccountingAssumption
    <2> HIDE DEF all, K
    <2>5. kept[f] = 0 /\ rest[f] = 0  BY <2>3, <2>4
    <2> QED  BY <2>1, <2>3, <2>4, <2>5
  <1>5. \A f \in BlobFile : K[f] \in 0..MaxRec /\ (made[f] = 0 => K[f] = kept[f])
    <2> SUFFICES ASSUME NEW f \in BlobFile
                 PROVE  K[f] \in 0..MaxRec /\ (made[f] = 0 => K[f] = kept[f])  OBVIOUS
    <2>1. CASE made[f] > 0  BY <1>3, <1>4, <2>1
    <2>2. CASE made[f] = 0  BY <1>3, <2>2
    <2> QED  BY <1>3, <2>1, <2>2
  <1>6. K \in Count /\ rest \in Count  BY <1>5 DEF Plus, Count, UpTo
  <1>z. \A f \in BlobFile : Zero[f] = 0  BY DEF Zero
  <1> HIDE DEF K
  <1>7. /\ prop' \in [Sst -> Count]
        /\ \A u \in Sst \ outs : prop'[u] = prop[u]
        /\ s \in outs => prop'[s] = K
        /\ t \in outs /\ t # s => prop'[t] = rest
    BY <1>1, <1>6, <1>o, <1>t DEF TypeOK
  <1>8. prop' \in Props  BY <1>7, AccountingAssumption DEF Props, Count
  <1> HIDE DEF outs
  <1>9. ASSUME NEW f \in BlobFile PROVE Ref(prop', f, outs) = K[f] + rest[f]
    <2>0. K[f] \in Nat /\ rest[f] \in Nat  BY <1>3, <1>5
    <2>1. CASE rest = Zero
      <3>1. rest[f] = 0  BY <2>1, <1>z
      <3>2. CASE K = Zero
        <4>1. outs = {}  BY <2>1, <3>2 DEF outs
        <4>2. K[f] = 0  BY <3>2, <1>z
        <4>3. Ref(prop', f, {}) = 0  BY RefEmpty
        <4> QED  BY <3>1, <4>1, <4>2, <4>3
      <3>3. CASE K # Zero
        <4>1. outs = {s}  BY <2>1, <3>3 DEF outs
        <4>2. Ref(prop', f, {s}) = prop'[s][f]  BY <1>8, RefOne
        <4> QED  BY <1>7, <2>0, <3>1, <4>1, <4>2
      <3> QED  BY <3>2, <3>3
    <2>2. CASE rest # Zero
      <3>0. s # t  BY <1>1, <2>2
      <3>2. CASE K = Zero
        <4>1. outs = {t}  BY <2>2, <3>2 DEF outs
        <4>2. K[f] = 0  BY <3>2, <1>z
        <4>3. Ref(prop', f, {t}) = prop'[t][f]  BY <1>8, RefOne
        <4> QED  BY <1>7, <2>0, <3>0, <4>1, <4>2, <4>3
      <3>3. CASE K # Zero
        <4>1. outs = {s} \cup {t}  BY <2>2, <3>3 DEF outs
        <4>2. Ref(prop', f, {s}) = prop'[s][f]  BY <1>8, RefOne
        <4>3. Ref(prop', f, {s} \cup {t}) = Ref(prop', f, {s}) + prop'[t][f]
          <5>1. {s} \in SUBSET Sst /\ t \in Sst \ {s}  BY <3>0
          <5> QED  BY <1>8, <5>1, RefAdd
        <4> QED  BY <1>7, <2>0, <3>0, <4>1, <4>2, <4>3
      <3> QED  BY <3>2, <3>3
    <2> QED  BY <2>1, <2>2
  <1>n. c \notin compacted  BY <1>i, <1>o DEF Jobs
  <1>d. \A u \in ssts \cup flushed : u \in Sst \ outs  BY <1>2, <1>o, <1>t, Types
  <1>e. \A d \in compacted : \A u \in d[1] \cup d[2] : u \in Sst \ outs  BY <1>2, <1>o, <1>t, Types
  <1> HIDE DEF c, all
  <1>10. ASSUME NEW f \in BlobFile
         PROVE  /\ InFlushed(f)' = InFlushed(f) /\ Flushes(f)' = Flushes(f)
                /\ InSsts(f)' = (InSsts(f) - all(f)) + (K[f] + rest[f]) /\ all(f) <= InSsts(f)
                /\ Unreported(f)' = Unreported(f) + DroppedBy(prop', f, c)
                /\ Creators(f)' = Creators(f) \cup (IF Creates(prop', f, c) THEN {c} ELSE {})
                /\ Ref(prop', f, c[1]) = all(f) /\ Ref(prop', f, c[2]) = K[f] + rest[f]
    <2>1. \A u \in ssts \cup flushed : u \in Sst /\ prop'[u][f] = prop[u][f]  BY <1>d, <1>7
    <2>2. Ref(prop', f, flushed) = Ref(prop, f, flushed)  BY <2>1, <1>t, Types, RefSame
    <2>3. Ref(prop', f, ins) = Ref(prop, f, ins)  BY <2>1, <1>i, RefSame
    <2>4. Ref(prop', f, ssts \ ins) = Ref(prop, f, ssts \ ins)
      <3>1. ssts \ ins \in SUBSET Sst  BY <1>t, Types
      <3> QED  BY <2>1, <3>1, RefSame
    <2>5. /\ Ref(prop, f, ssts) = Ref(prop, f, ssts \ ins) + Ref(prop, f, ins)
          /\ Ref(prop, f, ssts \ ins) \in Nat /\ Ref(prop, f, ins) \in Nat
      BY <1>i, <1>t, Types, RefRemove
    <2>6. Ref(prop', f, (ssts \ ins) \cup outs) = Ref(prop', f, ssts \ ins) + Ref(prop', f, outs)
      <3>1. ssts \ ins \in SUBSET Sst /\ outs \in SUBSET Sst /\ (ssts \ ins) \cap outs = {}
        BY <1>d, <1>o, <1>t, Types
      <3> QED  BY <1>8, <3>1, RefUnion
    <2>7. \A d \in compacted : \A u \in d[1] \cup d[2] : prop'[u][f] = prop[u][f]
      BY <1>e, <1>7
    <2>8. /\ Outstanding(prop', f, compacted) = Outstanding(prop, f, compacted)
          /\ \A d \in compacted : Creates(prop', f, d) = Creates(prop, f, d)
      BY <2>7, <1>t, Types, JobsKept
    <2>9. Outstanding(prop', f, compacted \cup {c}) =
            Outstanding(prop', f, compacted) + DroppedBy(prop', f, c)
      <3>1. c \in (SUBSET Sst) \X (SUBSET Sst)  BY <1>i, <1>o DEF c
      <3> QED  BY <1>8, <1>n, <3>1, <1>t, Types, OutstandingAdd
    <2>10. Flushes(f)' = Flushes(f)  BY <1>1, <2>1 DEF Flushes
    <2>11. Creators(f)' = Creators(f) \cup (IF Creates(prop', f, c) THEN {c} ELSE {})
      BY <1>1, <2>8 DEF Creators
    <2>12. InSsts(f)' = (InSsts(f) - all(f)) + (K[f] + rest[f]) /\ all(f) <= InSsts(f)
      <3>1. InSsts(f)' = Ref(prop, f, ssts \ ins) + (K[f] + rest[f])
        BY <1>1, <1>9, <2>4, <2>6 DEF InSsts
      <3>2. Ref(prop, f, ssts \ ins) = InSsts(f) - all(f) /\ all(f) <= InSsts(f)
        BY <2>5 DEF InSsts, all
      <3> QED  BY <3>1, <3>2
    <2> QED  BY <1>1, <1>9, <1>o, <2>2, <2>3, <2>8, <2>9, <2>10, <2>11, <2>12
             DEF InFlushed, Unreported, all
  <1>11. ASSUME NEW f \in BlobFile, made[f] > 0
         PROVE  /\ f \in sorted' /\ meta'[f] = "kPendingLSM" /\ data'[f] = made[f]
                /\ InSsts(f)' = made[f] /\ InFlushed(f)' = 0 /\ Unreported(f)' = 0
                /\ Creators(f)' = {c} /\ Flushes(f)' = {}
                /\ mem'[f] = 0 /\ unindexed'[f] = 0 /\ discardable'[f] = 0
                /\ \A u \in Sst : prop[u][f] = 0
    <2>1. all(f) = 0 /\ rest[f] = 0 /\ K[f] = made[f] /\ data[f] = 0 /\ made[f] \in Nat
      BY <1>3, <1>4, <1>11
    <2>2. /\ f \in sorted' /\ meta'[f] = "kPendingLSM" /\ data'[f] = made[f]
      BY <1>0, <1>11, <2>1 DEF MadeFiles
    <2>3. /\ mem[f] = 0 /\ unindexed[f] = 0 /\ discardable[f] = 0
          /\ \A u \in Sst : prop[u][f] = 0
          /\ InSsts(f) = 0 /\ InFlushed(f) = 0 /\ Unreported(f) = 0
          /\ Creators(f) = {} /\ Flushes(f) = {}
      BY <2>1, FreshFacts
    <2>4. Ref(prop', f, c[1]) = 0 /\ Ref(prop', f, c[2]) = made[f]  BY <1>10, <2>1
    <2>5. DroppedBy(prop', f, c) = 0 /\ Creates(prop', f, c)
      BY <1>11, <2>1, <2>4 DEF DroppedBy, Creates
    <2> QED  BY <1>1, <1>10, <2>1, <2>2, <2>3, <2>5
  <1>12. ASSUME NEW f \in BlobFile, ~(made[f] > 0)
         PROVE  /\ data'[f] = data[f] /\ meta'[f] = meta[f] /\ (f \in sorted' <=> f \in sorted)
                /\ InSsts(f)' + Unreported(f)' = InSsts(f) + Unreported(f)
                /\ InSsts(f)' \in Nat /\ Unreported(f)' \in Nat
                /\ Creators(f)' = Creators(f)
    <2>1. made[f] = 0 /\ K[f] = kept[f]  BY <1>3, <1>5, <1>12
    <2>2. /\ kept[f] \in Nat /\ rest[f] \in Nat /\ all(f) \in Nat /\ kept[f] + rest[f] <= all(f)
          /\ InSsts(f) \in Nat /\ Unreported(f) \in Nat
      BY <1>3, <1>t, Types
    <2>3. DroppedBy(prop', f, c) = all(f) - (kept[f] + rest[f])
      BY <1>10, <2>1, <2>2 DEF DroppedBy
    <2>4. ~Creates(prop', f, c)  BY <1>10, <2>1, <2>2 DEF Creates
    <2>5. data'[f] = data[f] /\ meta'[f] = meta[f] /\ (f \in sorted' <=> f \in sorted)
      BY <1>0, <1>12 DEF MadeFiles
    <2>6. InSsts(f)' = (InSsts(f) - all(f)) + (kept[f] + rest[f]) /\ all(f) <= InSsts(f)
          /\ Unreported(f)' = Unreported(f) + (all(f) - (kept[f] + rest[f]))
      BY <1>10, <2>1, <2>3
    <2>7. /\ InSsts(f)' + Unreported(f)' = InSsts(f) + Unreported(f)
          /\ InSsts(f)' \in Nat /\ Unreported(f)' \in Nat
      BY <2>2, <2>6
    <2> QED  BY <1>10, <2>4, <2>5, <2>7
  <1>13. \A f \in sorted' : f \in BlobFile  BY <1>0
  <1>20. TypeOK'
    <2>1. ssts' \in SUBSET Sst  BY <1>1, <1>o, <1>t DEF TypeOK
    <2>2. compacted' \in SUBSET ((SUBSET Sst) \X (SUBSET Sst))
      BY <1>1, <1>i, <1>o, <1>t DEF TypeOK, c
    <2> QED  BY <1>0, <1>1, <1>7, <2>1, <2>2, <1>t DEF TypeOK
  <1>21. Fresh'
    <2> SUFFICES ASSUME NEW f \in BlobFile, data'[f] = 0
                 PROVE  /\ f \notin sorted' /\ f \notin counted' /\ meta'[f] = "kAbsent"
                        /\ mem'[f] = 0 /\ unindexed'[f] = 0 /\ discardable'[f] = 0
                        /\ \A u \in Sst : prop'[u][f] = 0
      BY DEF Fresh
    <2>1. ~(made[f] > 0)  BY <1>3, <1>11
    <2>2. data[f] = 0  BY <1>12, <2>1
    <2>3. \A u \in ins : prop[u][f] = 0  BY <2>2, <1>i, FreshFacts
    <2>4. all(f) = 0  BY <2>3, <1>i, RefZero DEF all
    <2>5. K[f] = 0 /\ rest[f] = 0  BY <1>3, <1>5, <2>1, <2>4
    <2>6. \A u \in outs : prop'[u][f] = 0  BY <1>7, <1>o, <2>5
    <2> QED  BY <1>1, <1>7, <1>12, <2>1, <2>2, <2>6, FreshFacts
  <1>22. Jobs'
    <2>1. \A d \in compacted : d[1] \cap outs = {}  BY <1>e
    <2>2. ins \cap outs = {}  BY <1>d, <1>i
    <2> QED  BY <1>1, <1>i, <1>o, <2>1, <2>2 DEF Jobs
  <1>23. Budget'
    <2> SUFFICES ASSUME NEW f \in BlobFile
                 PROVE  /\ InSsts(f)' + Unreported(f)' + mem'[f] + unindexed'[f] <= data'[f]
                        /\ InFlushed(f)' + mem'[f] + unindexed'[f] <= data'[f]
      BY DEF Budget
    <2>1. CASE made[f] > 0  BY <1>3, <1>11, <2>1
    <2>2. CASE ~(made[f] > 0)
      <3>1. /\ InSsts(f) + Unreported(f) + mem[f] + unindexed[f] <= data[f]
            /\ InFlushed(f) + mem[f] + unindexed[f] <= data[f]
        BY DEF Budget
      <3> QED  BY <1>1, <1>10, <1>12, <2>2, <3>1
    <2> QED  BY <2>1, <2>2
  <1>24. Origin'
    <2>1. ASSUME NEW f \in BlobFile \ sorted'
          PROVE  (data'[f] > 0 => IsLive(meta'[f])) /\ Creators(f)' = {}
      <3>1. ~(made[f] > 0)  BY <1>11, <2>1
      <3> QED  BY <1>12, <2>1, <3>1 DEF Origin
    <2>2. ASSUME NEW f \in sorted'
          PROVE  /\ mem'[f] = 0 /\ unindexed'[f] = 0
                 /\ \A u \in Flushes(f)' : prop'[u][f] = data'[f] /\ Creators(f)' = {}
                 /\ \A u, v \in Flushes(f)' : u = v
                 /\ \A d, e \in Creators(f)' : d = e
      <3>0. f \in BlobFile  BY <1>13
      <3>1. CASE made[f] > 0  BY <1>11, <3>0, <3>1
      <3>2. CASE ~(made[f] > 0)
        <4>1. /\ f \in sorted /\ data'[f] = data[f] /\ Creators(f)' = Creators(f)
              /\ Flushes(f)' = Flushes(f)
          BY <1>10, <1>12, <3>0, <3>2
        <4>2. \A u \in Flushes(f) : prop'[u] = prop[u]  BY <1>7, <1>d DEF Flushes
        <4>3. /\ mem[f] = 0 /\ unindexed[f] = 0
              /\ \A u \in Flushes(f) : prop[u][f] = data[f] /\ Creators(f) = {}
              /\ \A u, v \in Flushes(f) : u = v
              /\ \A d, e \in Creators(f) : d = e
          BY <4>1 DEF Origin
        <4>4. mem'[f] = 0 /\ unindexed'[f] = 0  BY <1>1, <4>3
        <4> QED  BY <4>1, <4>2, <4>3, <4>4
      <3> QED  BY <3>1, <3>2
    <2> QED  BY <2>1, <2>2 DEF Origin
  <1>25. Reported'
    <2> SUFFICES ASSUME NEW f \in sorted'
                 PROVE  \E e \in 0..data'[f] :
                          /\ e + InSsts(f)' + Unreported(f)' <= data'[f]
                          /\ \/ discardable'[f] = e
                             \/ Flushes(f)' = {} /\ discardable'[f] = (e - data'[f]) % Word
      BY DEF Reported
    <2>0. f \in BlobFile  BY <1>13
    <2>1. CASE made[f] > 0
      <3>1. 0 \in 0..data'[f] /\ 0 + InSsts(f)' + Unreported(f)' <= data'[f] /\ discardable'[f] = 0
        BY <1>3, <1>11, <2>0, <2>1
      <3> QED  BY <3>1
    <2>2. CASE ~(made[f] > 0)
      <3>1. /\ f \in sorted /\ data'[f] = data[f] /\ discardable'[f] = discardable[f]
            /\ Flushes(f)' = Flushes(f)
            /\ InSsts(f)' + Unreported(f)' = InSsts(f) + Unreported(f)
            /\ InSsts(f)' \in Nat /\ Unreported(f)' \in Nat
            /\ InSsts(f) \in Nat /\ Unreported(f) \in Nat /\ data[f] \in Nat
        <4>1. /\ f \in sorted /\ data'[f] = data[f]
              /\ InSsts(f)' + Unreported(f)' = InSsts(f) + Unreported(f)
              /\ InSsts(f)' \in Nat /\ Unreported(f)' \in Nat
          BY <1>12, <2>0, <2>2
        <4>2. Flushes(f)' = Flushes(f)  BY <1>10, <2>0
        <4>3. InSsts(f) \in Nat /\ Unreported(f) \in Nat /\ data[f] \in Nat
          BY <2>0, <1>t, Types
        <4> QED  BY <1>1, <4>1, <4>2, <4>3
      <3>2. PICK e \in 0..data[f] :
              /\ e + InSsts(f) + Unreported(f) <= data[f]
              /\ \/ discardable[f] = e
                 \/ Flushes(f) = {} /\ discardable[f] = (e - data[f]) % Word
        BY <3>1 DEF Reported
      <3>3. e \in 0..data'[f] /\ e + InSsts(f)' + Unreported(f)' <= data'[f]
        BY <3>1, <3>2
      <3> QED  BY <3>1, <3>2, <3>3
    <2> QED  BY <2>1, <2>2
  <1>26. Dead'
    <2> SUFFICES ASSUME NEW f \in sorted', ~IsLive(meta'[f])
                 PROVE  InSsts(f)' = 0 /\ Unreported(f)' = 0
      BY DEF Dead
    <2>0. f \in BlobFile  BY <1>13
    <2>1. ~(made[f] > 0)  BY <1>11, <2>0 DEF IsLive
    <2>2. f \in sorted /\ meta'[f] = meta[f]  BY <1>12, <2>0, <2>1
    <2>3. InSsts(f) = 0 /\ Unreported(f) = 0  BY <2>2 DEF Dead
    <2> QED  BY <1>12, <2>0, <2>1, <2>3
  <1>27. ASSUME ~disordered' PROVE Ordered' /\ Exact'
    <2>0. Ordered /\ Exact  BY <1>1, <1>27
    <2>1. Awaited' = Awaited \cup outs  BY <1>1, <1>o DEF Awaited
    <2>2. ASSUME NEW f \in BlobFile, data'[f] > 0, New(f)'
          PROVE  /\ IsLive(meta'[f]) /\ discardable'[f] = 0
                 /\ \A u \in ssts' \cup UNION {d[1] : d \in compacted'} :
                      prop'[u][f] > 0 => u \in Awaited'
      <3>a. \A u \in ssts' \cup UNION {d[1] : d \in compacted'} :
              \/ u \in outs
              \/ u \in ssts \cup UNION {d[1] : d \in compacted} /\ u \in Sst \ outs
        BY <1>1, <1>d, <1>e, <1>i, <1>o
      <3>1. CASE made[f] > 0
        <4>3. \A u \in ssts' \cup UNION {d[1] : d \in compacted'} :
                prop'[u][f] > 0 => u \in Awaited'
          BY <1>7, <1>11, <2>1, <3>a, <3>1
        <4> QED  BY <1>11, <3>1, <4>3 DEF IsLive
      <3>2. CASE ~(made[f] > 0)
        <4>1. data[f] > 0 /\ meta'[f] = meta[f] /\ discardable'[f] = discardable[f]
          BY <1>1, <1>12, <2>2, <3>2
        <4>2. New(f)
          <5>1. CASE f \in sorted  BY <1>10, <1>12, <2>2, <3>2, <5>1 DEF New
          <5>2. CASE f \notin sorted  BY <1>1, <1>12, <2>2, <3>2, <5>2 DEF New
          <5> QED  BY <5>1, <5>2
        <4>3. /\ IsLive(meta[f]) /\ discardable[f] = 0
              /\ \A u \in ssts \cup UNION {d[1] : d \in compacted} : prop[u][f] > 0 => u \in Awaited
          BY <2>0, <4>1, <4>2 DEF Ordered
        <4>4. \A u \in ssts' \cup UNION {d[1] : d \in compacted'} :
                prop'[u][f] > 0 => u \in Awaited'
          BY <1>7, <2>1, <3>a, <4>3
        <4> QED  BY <4>1, <4>3, <4>4
      <3> QED  BY <3>1, <3>2
    <2>3. ASSUME NEW f \in sorted', IsLive(meta'[f])
          PROVE  /\ InSsts(f)' + Unreported(f)' > 0
                 /\ discardable'[f] = data'[f] - InSsts(f)' - Unreported(f)'
      <3>0. f \in BlobFile  BY <1>13
      <3>1. CASE made[f] > 0  BY <1>3, <1>11, <3>0, <3>1
      <3>2. CASE ~(made[f] > 0)
        <4>1. /\ f \in sorted /\ meta'[f] = meta[f] /\ data'[f] = data[f]
              /\ discardable'[f] = discardable[f]
              /\ InSsts(f)' + Unreported(f)' = InSsts(f) + Unreported(f)
              /\ InSsts(f)' \in Nat /\ Unreported(f)' \in Nat
              /\ InSsts(f) \in Nat /\ Unreported(f) \in Nat /\ data[f] \in Nat
          BY <1>1, <1>12, <3>0, <3>2, <1>t, Types
        <4>2. /\ InSsts(f) + Unreported(f) > 0
              /\ discardable[f] = data[f] - InSsts(f) - Unreported(f)
          BY <2>0, <2>3, <4>1 DEF Exact
        <4> QED  BY <4>1, <4>2
      <3> QED  BY <3>1, <3>2
    <2>4. ASSUME NEW f \in BlobFile \ sorted'
          PROVE  IF f \in counted'
                 THEN discardable'[f] =
                        (data'[f] - InSsts(f)' - Unreported(f)' + InFlushed(f)') % Word
                 ELSE InSsts(f)' + Unreported(f)' = InFlushed(f)'
      <3>1. ~(made[f] > 0)  BY <1>11, <2>4
      <3>2. /\ f \in BlobFile \ sorted /\ data'[f] = data[f] /\ discardable'[f] = discardable[f]
            /\ InSsts(f)' + Unreported(f)' = InSsts(f) + Unreported(f)
            /\ InSsts(f)' \in Nat /\ Unreported(f)' \in Nat /\ InFlushed(f)' = InFlushed(f)
            /\ InSsts(f) \in Nat /\ Unreported(f) \in Nat /\ data[f] \in Nat /\ InFlushed(f) \in Nat
            /\ (f \in counted' <=> f \in counted)
        <4>1. /\ f \in BlobFile \ sorted /\ data'[f] = data[f]
              /\ InSsts(f)' + Unreported(f)' = InSsts(f) + Unreported(f)
              /\ InSsts(f)' \in Nat /\ Unreported(f)' \in Nat
          BY <1>12, <2>4, <3>1
        <4>2. InFlushed(f)' = InFlushed(f)  BY <1>10
        <4>3. /\ InSsts(f) \in Nat /\ Unreported(f) \in Nat /\ data[f] \in Nat
              /\ InFlushed(f) \in Nat
          BY <1>t, Types
        <4> QED  BY <1>1, <4>1, <4>2, <4>3
      <3>3. data'[f] - InSsts(f)' - Unreported(f)' + InFlushed(f)' =
              data[f] - InSsts(f) - Unreported(f) + InFlushed(f)
        BY <3>2
      <3>4. IF f \in counted
            THEN discardable[f] = (data[f] - InSsts(f) - Unreported(f) + InFlushed(f)) % Word
            ELSE InSsts(f) + Unreported(f) = InFlushed(f)
        BY <2>0, <3>2 DEF Exact
      <3> QED  BY <3>2, <3>3, <3>4
    <2>5. Ordered'  BY <2>2 DEF Ordered
    <2>6. Exact'  BY <2>3, <2>4 DEF Exact
    <2> QED  BY <2>5, <2>6
  <1>28. Listed'
    <2> SUFFICES ASSUME NEW f \in obsolete
                 PROVE  /\ f \in sorted' /\ InSsts(f)' = 0 /\ Unreported(f)' = 0
                        /\ ~disordered => ~IsLive(meta'[f])
      BY <1>1 DEF Listed
    <2>1. f \in sorted /\ f \in BlobFile  BY <1>t DEF Listed, TypeOK
    <2>2. ~(made[f] > 0)  BY <1>4, <2>1 DEF Fresh
    <2>3. f \in sorted' /\ meta'[f] = meta[f]  BY <1>12, <2>1, <2>2
    <2>4. InSsts(f) = 0 /\ Unreported(f) = 0 /\ (~disordered => ~IsLive(meta[f]))
      BY DEF Listed
    <2>5. InSsts(f)' = 0 /\ Unreported(f)' = 0  BY <1>12, <2>1, <2>2, <2>4
    <2> QED  BY <2>3, <2>4, <2>5
  <1> QED  BY <1>20, <1>21, <1>22, <1>23, <1>24, <1>25, <1>26, <1>27, <1>28

----------------------------------------------------------------------------
(* OnCompactionCompleted                                                    *)

LEMMA WordWrap ==
  /\ \A a \in Int : (0 - Word <= a /\ a < 0) => a % Word = a + Word
  /\ \A a \in Int : (0 - Word <= a /\ a < 0) => (a + Word) % Word = a % Word
  <1>1. Word \in Nat /\ Word > 0  BY AccountingAssumption
  <1>2. ASSUME NEW a \in Int, 0 - Word <= a, a < 0 PROVE a % Word = a + Word
    <2>1. PICK q \in Int, r \in 0..(Word - 1) : a = Word * q + r /\ r = a % Word
      <3>1. a = Word * (a \div Word) + (a % Word) /\ a \div Word \in Int /\ a % Word \in 0..(Word - 1)
        BY <1>1
      <3> QED  BY <3>1
    <2>2. r \in Int /\ 0 <= r /\ r < Word  BY <1>1, <2>1
    <2>3. q < 0
      <3>1. ASSUME q >= 0 PROVE FALSE
        <4>1. PICK p \in Nat : p = Word * q  BY <1>1, <3>1
        <4>2. a = p + r  BY <2>1, <4>1
        <4> QED  BY <1>2, <2>2, <4>2
      <3> QED  BY <3>1
    <2>4. q > 0 - 2
      <3>1. ASSUME q <= 0 - 2 PROVE FALSE
        <4>1. Word * q <= Word * (0 - 2)  BY <1>1, <3>1
        <4>2. Word * (0 - 2) = 0 - Word - Word  BY <1>1
        <4>3. a < 0 - Word  BY <1>1, <2>1, <2>2, <4>1, <4>2
        <4> QED  BY <1>1, <1>2, <4>3
      <3> QED  BY <3>1
    <2>5. q = 0 - 1  BY <2>3, <2>4
    <2>6. Word * q = 0 - Word  BY <1>1, <2>5
    <2> QED  BY <1>1, <2>1, <2>2, <2>6
  <1>3. ASSUME NEW a \in Int, 0 - Word <= a, a < 0 PROVE (a + Word) % Word = a % Word
    <2>1. a + Word \in 0..(Word - 1)  BY <1>1, <1>3
    <2>2. (a + Word) % Word = a + Word  BY <2>1, WordMod
    <2> QED  BY <1>2, <1>3, <2>2
  <1> QED  BY <1>2, <1>3

\* the callback's sets
NewIn(c)    == {f \in BlobFile : Creates(prop, f, c)}
ShrunkIn(c) == {f \in BlobFile : Ref(prop, f, c[2]) < Ref(prop, f, c[1]) /\ Known(f)}
DiscIn(c, f) == IF f \in ShrunkIn(c) THEN (discardable[f] + DroppedBy(prop, f, c)) % Word
                                     ELSE discardable[f]
DeadIn(c)   == {f \in ShrunkIn(c) \cap sorted : DiscIn(c, f) = data[f]}
AllFound(c) == \A f \in NewIn(c) : Known(f)

\* what the callback does to the files
Effects(c) ==
  \A f \in BlobFile :
    /\ discardable'[f] = IF AllFound(c) THEN DiscIn(c, f) ELSE discardable[f]
    /\ meta'[f] \in MetaState
    /\ IsLive(meta[f]) /\ ~IsLive(meta'[f]) => AllFound(c) /\ f \in DeadIn(c)
    /\ ~IsLive(meta[f]) /\ IsLive(meta'[f]) => f \in NewIn(c)
    /\ meta[f] = "kAbsent" /\ f \notin NewIn(c) => meta'[f] = "kAbsent"
    /\ AllFound(c) /\ Sealable(DeadIn(c)) /\ f \in DeadIn(c) => ~IsLive(meta'[f])

LEMMA CompactionEffects ==
  ASSUME Inv, NEW c \in compacted, NEW overlapping, OnCompactionCompleted(c, overlapping)
  PROVE  /\ Effects(c)
         /\ \A f \in obsolete' \ obsolete : AllFound(c) /\ Sealable(DeadIn(c)) /\ f \in DeadIn(c)
         /\ obsolete \subseteq obsolete'
         /\ meta' = [f \in BlobFile |-> meta'[f]]
         /\ discardable' = [f \in BlobFile |-> discardable'[f]]
  <1>t. TypeOK  BY DEF Inv
  <1> DEFINE new     == {f \in BlobFile : Referred(f, c[2]) > 0 /\ Referred(f, c[1]) = 0}
             shrunk  == {f \in BlobFile : SizeDiff(f, c) < 0 /\ Known(f)}
             disc    == [f \in BlobFile |->
                           IF f \in shrunk THEN (discardable[f] - SizeDiff(f, c)) % Word
                                           ELSE discardable[f]]
             dead    == {f \in shrunk \cap sorted : NoLiveData(f, disc[f])}
             toGC    == {f \in (shrunk \cap sorted) \ dead : RatioReached(f, disc[f])}
             gone    == IF Sealable(dead) THEN dead ELSE {}
             started == [f \in BlobFile |->
                           IF f \in new
                             THEN FileStateTransit("kCompactionCompleted", meta[f])
                           ELSE meta[f]]
             marked  == [f \in BlobFile |->
                           IF f \in toGC THEN FileStateTransit("kNeedGC", started[f])
                           ELSE IF f \in gone THEN FileStateTransit("kDelete", started[f])
                           ELSE started[f]]
  <1>1. /\ \/ /\ \E f \in new : ~Known(f)
              /\ meta' = [f \in BlobFile |->
                            IF \A g \in new : g <= f => Known(g) THEN started[f]
                                                                ELSE meta[f]]
              /\ UNCHANGED <<discardable, obsolete>>
           \/ /\ ~(\E f \in new : ~Known(f))
              /\ overlapping \subseteq
                   {f \in sorted \ dead :
                      Known(f) /\ Referred(f, c[1] \cup c[2]) > 0}
              /\ discardable' = disc
              /\ obsolete' = obsolete \cup gone
              /\ meta' = [f \in BlobFile |->
                            IF f \in overlapping
                              THEN FileStateTransit("kNeedMerge", marked[f])
                              ELSE marked[f]]
    BY DEF OnCompactionCompleted
  <1>2. \A f \in BlobFile : /\ Referred(f, c[1]) = Ref(prop, f, c[1]) /\ Ref(prop, f, c[1]) \in Nat
                            /\ Referred(f, c[2]) = Ref(prop, f, c[2]) /\ Ref(prop, f, c[2]) \in Nat
    BY <1>t, Types, RefType DEF Referred, Ref
  <1>3. new = NewIn(c)  BY <1>2 DEF NewIn, Creates
  <1>4. shrunk = ShrunkIn(c)
    <2>1. \A f \in BlobFile : SizeDiff(f, c) < 0 <=> Ref(prop, f, c[2]) < Ref(prop, f, c[1])
      BY <1>2 DEF SizeDiff
    <2> QED  BY <2>1 DEF ShrunkIn
  <1>5. \A f \in BlobFile : disc[f] = DiscIn(c, f)
    <2> SUFFICES ASSUME NEW f \in BlobFile PROVE disc[f] = DiscIn(c, f)  OBVIOUS
    <2>1. CASE f \in shrunk
      <3>1. discardable[f] - SizeDiff(f, c) = discardable[f] + DroppedBy(prop, f, c)
        <4>1. Ref(prop, f, c[2]) < Ref(prop, f, c[1])  BY <1>4, <2>1 DEF ShrunkIn
        <4>2. DroppedBy(prop, f, c) = Ref(prop, f, c[1]) - Ref(prop, f, c[2])
          BY <1>2, <4>1 DEF DroppedBy
        <4>3. discardable[f] \in Nat  BY <1>t, Types
        <4> QED  BY <1>2, <4>2, <4>3 DEF SizeDiff
      <3> QED  BY <1>4, <2>1, <3>1 DEF DiscIn
    <2>2. CASE f \notin shrunk  BY <1>4, <2>2 DEF DiscIn
    <2> QED  BY <2>1, <2>2
  <1>6. dead = DeadIn(c)  BY <1>4, <1>5 DEF DeadIn, NoLiveData, ShrunkIn
  <1>7. AllFound(c) <=> ~(\E f \in new : ~Known(f))  BY <1>3 DEF AllFound
  <1> HIDE DEF new, shrunk, disc, dead
  <1>g. /\ \A f \in obsolete' \ obsolete : AllFound(c) /\ Sealable(DeadIn(c)) /\ f \in DeadIn(c)
        /\ obsolete \subseteq obsolete'
    <2>1. \A f \in gone : Sealable(DeadIn(c)) /\ f \in DeadIn(c)  BY <1>6
    <2>2. \/ AllFound(c) /\ obsolete' = obsolete \cup gone
          \/ obsolete' = obsolete
      BY <1>1, <1>7
    <2> QED  BY <2>1, <2>2
  <1>8. meta' = [f \in BlobFile |-> meta'[f]] /\ discardable' = [f \in BlobFile |-> discardable'[f]]
    <2>1. discardable = [f \in BlobFile |-> discardable[f]]  BY <1>t DEF TypeOK
    <2>2. disc = [f \in BlobFile |-> disc[f]]  BY DEF disc
    <2>3. discardable' = [f \in BlobFile |-> discardable'[f]]  BY <1>1, <2>1, <2>2
    <2>4. meta' = [f \in BlobFile |-> meta'[f]]  BY <1>1
    <2> QED  BY <2>3, <2>4
  <1>9. ASSUME NEW f \in BlobFile
        PROVE  /\ discardable'[f] = IF AllFound(c) THEN DiscIn(c, f) ELSE discardable[f]
               /\ meta'[f] \in MetaState
               /\ IsLive(meta[f]) /\ ~IsLive(meta'[f]) => AllFound(c) /\ f \in DeadIn(c)
               /\ ~IsLive(meta[f]) /\ IsLive(meta'[f]) => f \in NewIn(c)
               /\ meta[f] = "kAbsent" /\ f \notin NewIn(c) => meta'[f] = "kAbsent"
               /\ AllFound(c) /\ Sealable(DeadIn(c)) /\ f \in DeadIn(c) => ~IsLive(meta'[f])
    <2>0. meta[f] \in MetaState /\ "kNormal" \in MetaState /\ "kObsolete" \in MetaState
      BY <1>t DEF TypeOK, MetaState, FileState
    <2>s. started[f] = IF f \in new THEN "kNormal" ELSE meta[f]  BY <2>0, TransitLive
    <2>1. CASE ~AllFound(c)
      <3>1. meta'[f] \in {started[f], meta[f]} /\ discardable'[f] = discardable[f]
        BY <1>1, <1>7, <2>1
      <3>2. meta'[f] \in {"kNormal", meta[f]} /\ (f \notin new => meta'[f] = meta[f])
        BY <2>s, <3>1
      <3> QED  BY <1>3, <2>0, <2>1, <3>1, <3>2 DEF IsLive
    <2>2. CASE AllFound(c)
      <3>1. /\ discardable'[f] = disc[f]
            /\ meta'[f] = IF f \in overlapping THEN FileStateTransit("kNeedMerge", marked[f])
                                               ELSE marked[f]
            /\ f \in overlapping => f \notin dead /\ Known(f)
        BY <1>1, <1>7, <2>2
      <3>2. marked[f] = IF f \in toGC THEN FileStateTransit("kNeedGC", started[f])
                        ELSE IF f \in gone THEN FileStateTransit("kDelete", started[f])
                        ELSE started[f]
        OBVIOUS
      <3>3. f \in new => Known(f)  BY <1>7, <2>2
      <3>4. f \in toGC => Known(f) /\ f \notin gone
        <4>1. f \in toGC => f \in ShrunkIn(c) /\ f \notin dead  BY <1>4
        <4> QED  BY <4>1 DEF ShrunkIn
      <3>5. f \in gone => f \in dead /\ Known(f)
        BY <1>6 DEF DeadIn, ShrunkIn
      <3> HIDE DEF toGC, started, marked
      <3>6. started[f] \in MetaState  BY <2>0, <2>s
      <3>7. CASE f \in toGC
        <4>1. /\ marked[f] \in MetaState /\ (IsLive(started[f]) => IsLive(marked[f]))
              /\ (started[f] = "kObsolete" => marked[f] = "kObsolete")
          BY <3>2, <3>6, <3>7, TransitLive
        <4>2. /\ meta'[f] \in MetaState /\ (IsLive(marked[f]) => IsLive(meta'[f]))
              /\ (marked[f] = "kObsolete" => meta'[f] = "kObsolete")
          BY <3>1, <4>1, TransitLive
        <4>3. f \notin dead  BY <3>7 DEF toGC
        <4>4. meta[f] # "kAbsent"  BY <3>4, <3>7 DEF Known
        <4> QED  BY <1>3, <1>5, <1>6, <2>0, <2>2, <2>s, <3>1, <4>1, <4>2, <4>3, <4>4 DEF IsLive
      <3>8. CASE f \notin toGC /\ f \in gone
        <4>1. marked[f] = "kObsolete"  BY <3>2, <3>6, <3>8, TransitLive
        <4>2. meta'[f] = "kObsolete"  BY <3>1, <3>5, <3>8, <4>1
        <4>3. f \in dead /\ meta[f] # "kAbsent"  BY <3>5, <3>8 DEF Known
        <4> QED  BY <1>5, <1>6, <2>0, <2>2, <3>1, <4>2, <4>3 DEF IsLive
      <3>9. CASE f \notin toGC /\ f \notin gone
        <4>1. marked[f] = started[f]  BY <3>2, <3>9
        <4>2. f \notin overlapping => meta'[f] = started[f]  BY <3>1, <4>1
        <4>3. f \in overlapping => /\ meta'[f] \in MetaState
                                   /\ IsLive(started[f]) => IsLive(meta'[f])
                                   /\ started[f] = "kObsolete" => meta'[f] = "kObsolete"
                                   /\ meta[f] # "kAbsent"
          BY <3>1, <3>6, <4>1, TransitLive DEF Known
        <4>4. Sealable(dead) => f \notin dead  BY <3>9
        <4> QED  BY <1>3, <1>5, <1>6, <2>0, <2>2, <2>s, <3>1, <3>6, <4>2, <4>3, <4>4 DEF IsLive
      <3> QED  BY <3>7, <3>8, <3>9
    <2> QED  BY <2>1, <2>2
  <1> QED  BY <1>8, <1>9, <1>g DEF Effects

LEMMA OnCompactionCompletedInv ==
  ASSUME Inv, NEW c \in compacted, NEW overlapping, OnCompactionCompleted(c, overlapping)
  PROVE  Inv'
  <1> USE DEF Inv
  <1>t. TypeOK  OBVIOUS
  <1> DEFINE D(f) == DroppedBy(prop, f, c)
  <1>1. /\ compacted' = compacted \ {c}
        /\ disordered' = (\/ disordered \/ c[1] \cap flushed # {}
                          \/ \E d \in compacted : d[2] \cap c[1] # {})
        /\ UNCHANGED <<sorted, data, unindexed, mem, ssts, flushed, counted, ranged>>
        /\ Forget
    BY DEF OnCompactionCompleted
  <1>2. /\ Effects(c)
        /\ \A f \in obsolete' \ obsolete : AllFound(c) /\ Sealable(DeadIn(c)) /\ f \in DeadIn(c)
        /\ meta' = [f \in BlobFile |-> meta'[f]]
        /\ discardable' = [f \in BlobFile |-> discardable'[f]]
    BY CompactionEffects
  <1>3. /\ ssts' \in SUBSET Sst /\ flushed' \in SUBSET Sst /\ compacted' \in Jobsets
        /\ c[1] \in SUBSET Sst /\ c[2] \in SUBSET Sst
    BY <1>1, <1>t, Types DEF Jobsets
  <1>4. ASSUME NEW f \in BlobFile
        PROVE  /\ InSsts(f)' = InSsts(f) /\ InFlushed(f)' = InFlushed(f)
               /\ Flushes(f)' = Flushes(f) /\ Creators(f)' = Creators(f) \ {c}
               /\ Unreported(f) = Unreported(f)' + D(f) /\ Unreported(f)' \in Nat /\ D(f) \in Nat
    <2>1. /\ InSsts(f)' = Ref(prop, f, ssts') /\ InFlushed(f)' = Ref(prop, f, flushed')
          /\ Unreported(f)' = Outstanding(prop, f, compacted')
          /\ Flushes(f)' = {u \in flushed' : prop[u][f] > 0}
          /\ Creators(f)' = {d \in compacted' : Creates(prop, f, d)}
      BY <1>1, <1>3, <1>t, ForgetKeeps
    <2>2. /\ Outstanding(prop, f, compacted) = Outstanding(prop, f, compacted \ {c}) + D(f)
          /\ Outstanding(prop, f, compacted \ {c}) \in Nat /\ D(f) \in Nat
      BY <1>t, Types, OutstandingRemove
    <2>3. Creators(f)' = Creators(f) \ {c} /\ Flushes(f)' = Flushes(f)
      BY <1>1, <2>1 DEF Creators, Flushes
    <2> QED  BY <1>1, <2>1, <2>2, <2>3 DEF InSsts, InFlushed, Unreported
  <1>5. ASSUME NEW f \in BlobFile
        PROVE  /\ Ref(prop, f, c[1]) \in Nat /\ Ref(prop, f, c[2]) \in Nat
               /\ f \in ShrunkIn(c) <=> D(f) > 0 /\ Known(f)
               /\ f \in NewIn(c) <=> c \in Creators(f)
    <2>1. Ref(prop, f, c[1]) \in Nat /\ Ref(prop, f, c[2]) \in Nat
      BY <1>3, <1>t, Types, RefType
    <2>2. D(f) > 0 <=> Ref(prop, f, c[2]) < Ref(prop, f, c[1])  BY <2>1 DEF DroppedBy
    <2> QED  BY <2>1, <2>2 DEF ShrunkIn, NewIn, Creators
  <1> HIDE DEF D
  <1>6. \A f \in BlobFile :
          /\ discardable'[f] = IF AllFound(c) THEN DiscIn(c, f) ELSE discardable[f]
          /\ meta'[f] \in MetaState
          /\ IsLive(meta[f]) /\ ~IsLive(meta'[f]) => AllFound(c) /\ f \in DeadIn(c)
          /\ ~IsLive(meta[f]) /\ IsLive(meta'[f]) => f \in NewIn(c)
          /\ meta[f] = "kAbsent" /\ f \notin NewIn(c) => meta'[f] = "kAbsent"
          /\ AllFound(c) /\ Sealable(DeadIn(c)) /\ f \in DeadIn(c) => ~IsLive(meta'[f])
    BY <1>2 DEF Effects
  <1>7. \A f \in BlobFile :
          DiscIn(c, f) = IF f \in ShrunkIn(c) THEN (discardable[f] + D(f)) % Word
                                              ELSE discardable[f]
    BY DEF DiscIn, D
  <1>8. \A f \in BlobFile : f \in DeadIn(c) <=> /\ f \in ShrunkIn(c) /\ f \in sorted
                                                /\ DiscIn(c, f) = data[f]
    BY DEF DeadIn
  <1>9. \A f \in sorted : f \in BlobFile  BY <1>t DEF TypeOK
  <1>10. \A f \in BlobFile : DiscIn(c, f) \in 0..(Word - 1)
    <2> SUFFICES ASSUME NEW f \in BlobFile PROVE DiscIn(c, f) \in 0..(Word - 1)  OBVIOUS
    <2>1. discardable[f] \in 0..(Word - 1) /\ discardable[f] \in Nat /\ D(f) \in Nat
      BY <1>4, <1>t, Types
    <2>2. discardable[f] + D(f) \in Int  BY <2>1
    <2> QED  BY <1>7, <2>1, <2>2, WordMod
  <1>20. TypeOK'
    <2>1. discardable' \in [BlobFile -> 0..(Word - 1)]
      <3>1. \A f \in BlobFile : discardable'[f] \in 0..(Word - 1)
        BY <1>6, <1>10, <1>t, Types
      <3> QED  BY <1>2, <3>1
    <2>2. meta' \in [BlobFile -> MetaState]  BY <1>2, <1>6
    <2>3. prop' \in [Sst -> Count]  BY <1>1, <1>3, <1>t, ForgetFacts
    <2>4. compacted' \in SUBSET ((SUBSET Sst) \X (SUBSET Sst)) /\ disordered' \in BOOLEAN
      BY <1>1, <1>t DEF TypeOK
    <2>5. obsolete' \in SUBSET BlobFile
      BY <1>2, <1>t DEF TypeOK, DeadIn, ShrunkIn
    <2> QED  BY <1>1, <1>3, <2>1, <2>2, <2>3, <2>4, <2>5, <1>t DEF TypeOK
  <1>21. Fresh'
    <2> SUFFICES ASSUME NEW f \in BlobFile, data'[f] = 0
                 PROVE  /\ f \notin sorted' /\ f \notin counted' /\ meta'[f] = "kAbsent"
                        /\ mem'[f] = 0 /\ unindexed'[f] = 0 /\ discardable'[f] = 0
                        /\ \A u \in Sst : prop'[u][f] = 0
      BY DEF Fresh
    <2>1. /\ f \notin sorted /\ f \notin counted /\ meta[f] = "kAbsent"
          /\ mem[f] = 0 /\ unindexed[f] = 0 /\ discardable[f] = 0
          /\ \A u \in Sst : prop[u][f] = 0
          /\ Creators(f) = {}
      BY <1>1, FreshFacts
    <2>2. f \notin NewIn(c) /\ f \notin ShrunkIn(c)  BY <1>5, <2>1 DEF Known
    <2>3. \A u \in Sst : prop'[u][f] \in {0, prop[u][f]}  BY <1>1, <1>3, <1>t, ForgetFacts
    <2> QED  BY <1>1, <1>6, <1>7, <2>1, <2>2, <2>3
  <1>22. Jobs'  BY <1>1 DEF Jobs
  <1>23. Budget'
    <2> SUFFICES ASSUME NEW f \in BlobFile
                 PROVE  /\ InSsts(f)' + Unreported(f)' + mem'[f] + unindexed'[f] <= data'[f]
                        /\ InFlushed(f)' + mem'[f] + unindexed'[f] <= data'[f]
      BY DEF Budget
    <2>1. /\ InSsts(f) + Unreported(f) + mem[f] + unindexed[f] <= data[f]
          /\ InFlushed(f) + mem[f] + unindexed[f] <= data[f]
      BY DEF Budget
    <2>2. Unreported(f)' <= Unreported(f)  BY <1>4
    <2> QED  BY <1>1, <1>4, <2>1, <2>2, <1>t, Types
  <1>24. Origin'
    <2>1. ASSUME NEW f \in BlobFile \ sorted'
          PROVE  (data'[f] > 0 => IsLive(meta'[f])) /\ Creators(f)' = {}
      <3>1. f \notin sorted  BY <1>1, <2>1
      <3>2. f \notin DeadIn(c)  BY <1>8, <3>1
      <3> QED  BY <1>1, <1>4, <1>6, <3>1, <3>2 DEF Origin
    <2>2. ASSUME NEW f \in sorted'
          PROVE  /\ mem'[f] = 0 /\ unindexed'[f] = 0
                 /\ \A u \in Flushes(f)' : prop'[u][f] = data'[f] /\ Creators(f)' = {}
                 /\ \A u, v \in Flushes(f)' : u = v
                 /\ \A d, e \in Creators(f)' : d = e
      <3>1. f \in sorted /\ f \in BlobFile  BY <1>1, <1>9
      <3>2. \A u \in Flushes(f) : prop'[u] = prop[u]
        <4>1. \A u \in flushed' : prop'[u] = prop[u]  BY <1>1, <1>3, <1>t, ForgetFacts
        <4> QED  BY <1>1, <4>1 DEF Flushes
      <3> QED  BY <1>1, <1>4, <3>1, <3>2 DEF Origin
    <2> QED  BY <2>1, <2>2 DEF Origin
  \* what the counts of a sorted file are after the callback
  <1>25. ASSUME NEW f \in sorted
         PROVE  \E e \in 0..data[f] :
                  /\ e + InSsts(f) + Unreported(f)' <= data[f]
                  /\ \/ discardable'[f] = e
                     \/ Flushes(f) = {} /\ discardable'[f] = (e - data[f]) % Word
    <2>0. f \in BlobFile  BY <1>9
    <2>t. /\ data[f] \in Nat /\ data[f] <= MaxRec /\ InSsts(f) \in Nat /\ Unreported(f)' \in Nat
          /\ D(f) \in Nat /\ Unreported(f) = Unreported(f)' + D(f)
          /\ MaxRec \in Nat /\ Word \in Nat /\ Word > 2 * MaxRec
      <3>1. /\ data[f] \in 0..MaxRec /\ InSsts(f) \in Nat /\ MaxRec \in Nat /\ Word \in Nat
            /\ Word > 2 * MaxRec + HeaderSize /\ HeaderSize \in Nat
        BY <2>0, <1>t, Types
      <3> QED  BY <1>4, <2>0, <3>1
    <2>1. PICK e \in 0..data[f] :
            /\ e + InSsts(f) + Unreported(f) <= data[f]
            /\ \/ discardable[f] = e
               \/ Flushes(f) = {} /\ discardable[f] = (e - data[f]) % Word
      BY DEF Reported
    <2>2. CASE discardable'[f] = discardable[f]
      <3>1. e + InSsts(f) + Unreported(f)' <= data[f]  BY <2>1, <2>t
      <3> QED  BY <2>1, <2>2, <3>1
    <2>3. CASE discardable'[f] # discardable[f]
      <3>1. discardable'[f] = (discardable[f] + D(f)) % Word  BY <1>6, <1>7, <2>0, <2>3
      <3>2. /\ e + D(f) \in 0..data[f] /\ e \in Nat
            /\ (e + D(f)) + InSsts(f) + Unreported(f)' <= data[f]
        BY <2>1, <2>t
      <3>3. CASE discardable[f] = e
        <4>1. e + D(f) \in 0..(Word - 1)  BY <2>t, <3>2
        <4>2. discardable'[f] = e + D(f)  BY <3>1, <3>3, <4>1, WordMod
        <4> QED  BY <3>2, <4>2
      <3>4. CASE Flushes(f) = {} /\ discardable[f] = (e - data[f]) % Word
        <4>1. discardable'[f] = ((e + D(f)) - data[f]) % Word
          <5>1. CASE e = data[f]
            <6>1. e - data[f] = 0 /\ (e + D(f)) - data[f] = D(f) /\ 0 + D(f) = D(f)
              BY <2>t, <3>2, <5>1
            <6> QED  BY <3>1, <3>4, <6>1, WordMod
          <5>2. CASE e # data[f]
            <6>1. e - data[f] \in Int /\ 0 - Word <= e - data[f] /\ e - data[f] < 0
              BY <2>1, <2>t, <3>2, <5>2
            <6>2. discardable[f] = (e - data[f]) + Word  BY <3>4, <6>1, WordWrap
            <6>3. discardable[f] + D(f) = ((e + D(f)) - data[f]) + Word
              BY <2>t, <3>2, <6>2
            <6>4. CASE e + D(f) = data[f]
              <7>1. /\ discardable[f] + D(f) = Word /\ (e + D(f)) - data[f] = 0
                BY <2>t, <3>2, <6>3, <6>4
              <7>2. Word % Word = 0  BY <2>t
              <7> QED  BY <3>1, <7>1, <7>2, WordMod
            <6>5. CASE e + D(f) # data[f]
              <7>1. /\ (e + D(f)) - data[f] \in Int /\ 0 - Word <= (e + D(f)) - data[f]
                    /\ (e + D(f)) - data[f] < 0
                BY <2>t, <3>2, <6>5
              <7> QED  BY <3>1, <6>3, <7>1, WordWrap
            <6> QED  BY <6>4, <6>5
          <5> QED  BY <5>1, <5>2
        <4> QED  BY <3>2, <3>4, <4>1
      <3> QED  BY <2>1, <3>3, <3>4
    <2> QED  BY <2>2, <2>3
  <1>26. Reported'
    <2> SUFFICES ASSUME NEW f \in sorted'
                 PROVE  \E e \in 0..data'[f] :
                          /\ e + InSsts(f)' + Unreported(f)' <= data'[f]
                          /\ \/ discardable'[f] = e
                             \/ Flushes(f)' = {} /\ discardable'[f] = (e - data'[f]) % Word
      BY DEF Reported
    <2>1. f \in sorted /\ f \in BlobFile  BY <1>1, <1>9
    <2> QED  BY <1>1, <1>4, <1>25, <2>1
  <1>27. ASSUME NEW f \in sorted, discardable'[f] = data[f]
         PROVE  InSsts(f) = 0 /\ Unreported(f)' = 0
    <2>0. f \in BlobFile  BY <1>9
    <2>t. /\ data[f] \in Nat /\ data[f] <= MaxRec /\ InSsts(f) \in Nat /\ Unreported(f)' \in Nat
          /\ MaxRec \in Nat /\ Word \in Nat /\ Word > 2 * MaxRec
      <3>1. /\ data[f] \in 0..MaxRec /\ InSsts(f) \in Nat /\ MaxRec \in Nat /\ Word \in Nat
            /\ Word > 2 * MaxRec + HeaderSize /\ HeaderSize \in Nat
        BY <2>0, <1>t, Types
      <3> QED  BY <1>4, <2>0, <3>1
    <2>1. PICK e \in 0..data[f] :
            /\ e + InSsts(f) + Unreported(f)' <= data[f]
            /\ \/ discardable'[f] = e
               \/ Flushes(f) = {} /\ discardable'[f] = (e - data[f]) % Word
      BY <1>25
    <2>2. e = data[f]
      <3> SUFFICES ASSUME e # data[f] PROVE FALSE  OBVIOUS
      <3>1. discardable'[f] = (e - data[f]) % Word  BY <1>27, <2>1
      <3>a. e \in Nat /\ e <= data[f] /\ e # data[f]  BY <2>1, <2>t
      <3>2. e \in Nat /\ e - data[f] \in Int /\ 0 - Word <= e - data[f] /\ e - data[f] < 0
        BY <3>a, <2>t
      <3>3. data[f] = (e - data[f]) + Word  BY <1>27, <3>1, <3>2, WordWrap
      <3> QED  BY <2>t, <3>2, <3>3
    <2> QED  BY <2>1, <2>2, <2>t
  <1>28. Dead'
    <2> SUFFICES ASSUME NEW f \in sorted', ~IsLive(meta'[f])
                 PROVE  InSsts(f)' = 0 /\ Unreported(f)' = 0
      BY DEF Dead
    <2>1. f \in sorted /\ f \in BlobFile  BY <1>1, <1>9
    <2>2. CASE IsLive(meta[f])
      <3>1. AllFound(c) /\ f \in DeadIn(c)  BY <1>6, <2>1, <2>2
      <3>2. discardable'[f] = data[f]  BY <1>6, <1>8, <2>1, <3>1
      <3> QED  BY <1>4, <1>27, <2>1, <3>2
    <2>3. CASE ~IsLive(meta[f])
      <3>1. InSsts(f) = 0 /\ Unreported(f) = 0  BY <2>1, <2>3 DEF Dead
      <3> QED  BY <1>4, <2>1, <3>1
    <2> QED  BY <2>2, <2>3
  <1>29. ASSUME ~disordered' PROVE Ordered' /\ Exact'
    <2>0. Ordered /\ Exact  BY <1>1, <1>29
    <2>1. c[1] \cap Awaited = {}  BY <1>1, <1>29 DEF Awaited
    <2>2. ASSUME NEW f \in BlobFile, data[f] > 0, New(f)
          PROVE  /\ IsLive(meta[f]) /\ discardable[f] = 0
                 /\ \A u \in ssts \cup UNION {d[1] : d \in compacted} : prop[u][f] > 0 => u \in Awaited
                 /\ Ref(prop, f, c[1]) = 0 /\ D(f) = 0 /\ f \notin ShrunkIn(c)
      <3>1. /\ IsLive(meta[f]) /\ discardable[f] = 0
            /\ \A u \in ssts \cup UNION {d[1] : d \in compacted} : prop[u][f] > 0 => u \in Awaited
        BY <2>0, <2>2 DEF Ordered
      <3>2. \A u \in c[1] : prop[u][f] = 0
        <4>1. \A u \in c[1] : ~(prop[u][f] > 0)  BY <2>1, <3>1
        <4>2. \A u \in c[1] : prop[u][f] \in 0..MaxRec /\ MaxRec \in Nat  BY <1>3, <1>t, Types
        <4> QED  BY <4>1, <4>2
      <3>3. Ref(prop, f, c[1]) = 0  BY <1>3, <3>2, RefZero
      <3>4. D(f) = 0  BY <1>5, <3>3 DEF D, DroppedBy
      <3> QED  BY <1>5, <3>1, <3>3, <3>4
    <2>3. AllFound(c)
      <3> SUFFICES ASSUME NEW g \in NewIn(c) PROVE Known(g)  BY DEF AllFound
      <3>1. g \in BlobFile /\ c \in Creators(g)  BY <1>5 DEF NewIn
      <3>2. g \in sorted  BY <3>1 DEF Origin
      <3>3. data[g] > 0
        <4>1. data[g] # 0  BY <3>1, FreshFacts
        <4> QED  BY <3>1, <4>1, <1>t, Types
      <3>4. New(g)  BY <3>1, <3>2 DEF New
      <3> QED  BY <2>2, <3>1, <3>3, <3>4 DEF IsLive, Known
    <2>4. \A g \in BlobFile : c \in Creators(g) => g \in sorted /\ New(g) /\ data[g] > 0
      <3> SUFFICES ASSUME NEW g \in BlobFile, c \in Creators(g)
                   PROVE  g \in sorted /\ New(g) /\ data[g] > 0
        OBVIOUS
      <3>1. g \in sorted  BY DEF Origin
      <3>2. data[g] # 0  BY FreshFacts
      <3> QED  BY <3>1, <3>2, <1>t, Types DEF New
    <2>5. ASSUME NEW f \in BlobFile, data'[f] > 0, New(f)'
          PROVE  /\ IsLive(meta'[f]) /\ discardable'[f] = 0
                 /\ \A u \in ssts' \cup UNION {d[1] : d \in compacted'} :
                      prop'[u][f] > 0 => u \in Awaited'
      <3>1. New(f) /\ data[f] > 0
        <4>1. CASE f \in sorted  BY <1>1, <1>4, <2>5, <4>1 DEF New
        <4>2. CASE f \notin sorted  BY <1>1, <2>5, <4>2 DEF New
        <4> QED  BY <4>1, <4>2
      <3>2. c \notin Creators(f)
        <4> SUFFICES ASSUME c \in Creators(f) PROVE FALSE  OBVIOUS
        <4>1. f \in sorted  BY <2>4
        <4>2. Creators(f) = {c} /\ Flushes(f) = {}  BY <4>1 DEF Origin
        <4>3. Creators(f)' = {} /\ Flushes(f)' = {}  BY <1>4, <4>2
        <4> QED  BY <1>1, <2>5, <4>1, <4>3 DEF New
      <3>3. Ref(prop, f, c[2]) = 0  BY <1>5, <2>2, <3>1, <3>2 DEF Creators, Creates
      <3>4. \A u \in c[2] : ~(prop[u][f] > 0)
        <4>1. \A u \in c[2] : prop[u][f] <= 0 /\ prop[u][f] \in Nat
          BY <1>3, <3>3, <1>t, Types, RefElement
        <4> QED  BY <4>1
      <3>5. \A u \in ssts' \cup UNION {d[1] : d \in compacted'} :
              u \in Sst /\ u \in ssts \cup UNION {d[1] : d \in compacted}
        BY <1>1, <1>t, Types
      <3>6. \A u \in Sst : prop'[u][f] \in {0, prop[u][f]}  BY <1>1, <1>3, <1>t, ForgetFacts
      <3>7. \A u \in Awaited : u \notin c[2] => u \in Awaited'  BY <1>1 DEF Awaited
      <3>8. \A u \in ssts' \cup UNION {d[1] : d \in compacted'} :
              prop'[u][f] > 0 => u \in Awaited'
        BY <2>2, <3>1, <3>4, <3>5, <3>6, <3>7
      <3>9. IsLive(meta'[f]) /\ discardable'[f] = 0
        BY <1>6, <1>7, <1>8, <2>2, <3>1
      <3> QED  BY <3>8, <3>9
    <2>6. ASSUME NEW f \in sorted', IsLive(meta'[f])
          PROVE  /\ InSsts(f)' + Unreported(f)' > 0
                 /\ discardable'[f] = data'[f] - InSsts(f)' - Unreported(f)'
      <3>0. f \in sorted /\ f \in BlobFile  BY <1>1, <1>9
      <3>t. /\ data[f] \in Nat /\ data[f] <= MaxRec /\ InSsts(f) \in Nat /\ Unreported(f)' \in Nat
            /\ D(f) \in Nat /\ Unreported(f) = Unreported(f)' + D(f) /\ Unreported(f) \in Nat
            /\ MaxRec \in Nat /\ Word \in Nat /\ Word > 2 * MaxRec
        <4>1. /\ data[f] \in 0..MaxRec /\ InSsts(f) \in Nat /\ MaxRec \in Nat /\ Word \in Nat
              /\ Word > 2 * MaxRec + HeaderSize /\ HeaderSize \in Nat /\ Unreported(f) \in Nat
          BY <3>0, <1>t, Types
        <4> QED  BY <1>4, <3>0, <4>1
      <3>1. IsLive(meta[f])
        <4>1. f \in NewIn(c) => IsLive(meta[f])  BY <1>5, <2>2, <2>4, <3>0
        <4> QED  BY <1>6, <2>6, <3>0, <4>1
      <3>2. InSsts(f) + Unreported(f) > 0 /\ discardable[f] = data[f] - InSsts(f) - Unreported(f)
        BY <2>0, <3>0, <3>1 DEF Exact
      <3>3. discardable'[f] = DiscIn(c, f)  BY <1>6, <2>3, <3>0
      <3>4. CASE f \notin ShrunkIn(c)
        <4>1. D(f) = 0
          <5>1. Known(f)  BY <3>1 DEF IsLive, Known
          <5> QED  BY <1>5, <3>0, <3>4, <3>t, <5>1
        <4>2. Unreported(f)' = Unreported(f)  BY <3>t, <4>1
        <4> QED  BY <1>1, <1>4, <1>7, <3>0, <3>2, <3>3, <3>4, <4>2
      <3>5. CASE f \in ShrunkIn(c)
        <4>0. D(f) > 0  BY <1>5, <3>0, <3>5
        <4>b. InSsts(f) + Unreported(f) <= data[f]
          <5>1. InSsts(f) + Unreported(f) + mem[f] + unindexed[f] <= data[f]
            BY <3>0 DEF Budget
          <5>2. mem[f] \in Nat /\ unindexed[f] \in Nat  BY <3>0, <1>t, Types
          <5> QED  BY <3>t, <5>1, <5>2
        <4>1. /\ discardable[f] + D(f) = data[f] - InSsts(f) - Unreported(f)'
              /\ data[f] - InSsts(f) - Unreported(f)' \in 0..(Word - 1)
          BY <3>2, <3>t, <4>b
        <4>2. discardable'[f] = data[f] - InSsts(f) - Unreported(f)'
          BY <1>7, <3>0, <3>3, <3>5, <4>1, WordMod
        <4>3. InSsts(f) + Unreported(f)' > 0
          <5> SUFFICES ASSUME ~(InSsts(f) + Unreported(f)' > 0) PROVE FALSE  OBVIOUS
          <5>1. InSsts(f) = 0 /\ Unreported(f)' = 0  BY <3>t
          <5>2. DiscIn(c, f) = data[f]  BY <3>3, <3>t, <4>2, <5>1
          <5>3. f \in DeadIn(c)  BY <1>8, <3>0, <3>5, <5>2
          <5>4. Sealable(DeadIn(c))
            <6> SUFFICES ASSUME NEW g \in DeadIn(c), ~IsLive(meta[g]) PROVE FALSE
              BY DEF Sealable
            <6>1. g \in sorted /\ g \in ShrunkIn(c) /\ g \in BlobFile
              BY <1>9 DEF DeadIn
            <6>2. Unreported(g) = 0  BY <6>1 DEF Dead
            <6>3. D(g) > 0 /\ D(g) \in Nat /\ Unreported(g)' \in Nat
                  /\ Unreported(g) = Unreported(g)' + D(g)
              BY <1>4, <1>5, <6>1
            <6> QED  BY <6>2, <6>3
          <5> QED  BY <1>6, <2>3, <2>6, <3>0, <5>3, <5>4
        <4> QED  BY <1>1, <1>4, <3>0, <4>2, <4>3
      <3> QED  BY <3>4, <3>5
    <2>7. ASSUME NEW f \in BlobFile \ sorted'
          PROVE  IF f \in counted'
                 THEN discardable'[f] =
                        (data'[f] - InSsts(f)' - Unreported(f)' + InFlushed(f)') % Word
                 ELSE InSsts(f)' + Unreported(f)' = InFlushed(f)'
      <3>0. f \in BlobFile \ sorted  BY <1>1
      <3>t. /\ data[f] \in Nat /\ data[f] <= MaxRec /\ InSsts(f) \in Nat /\ Unreported(f)' \in Nat
            /\ D(f) \in Nat /\ Unreported(f) = Unreported(f)' + D(f) /\ Unreported(f) \in Nat
            /\ InFlushed(f) \in Nat /\ MaxRec \in Nat /\ Word \in Nat /\ Word > 2 * MaxRec
        <4>1. /\ data[f] \in 0..MaxRec /\ InSsts(f) \in Nat /\ MaxRec \in Nat /\ Word \in Nat
              /\ Word > 2 * MaxRec + HeaderSize /\ HeaderSize \in Nat /\ Unreported(f) \in Nat
              /\ InFlushed(f) \in Nat
          BY <3>0, <1>t, Types
        <4> QED  BY <1>4, <3>0, <4>1
      <3>b. InSsts(f) + Unreported(f) <= data[f] /\ InFlushed(f) <= data[f]
        <4>1. /\ InSsts(f) + Unreported(f) + mem[f] + unindexed[f] <= data[f]
              /\ InFlushed(f) + mem[f] + unindexed[f] <= data[f]
          BY DEF Budget
        <4>2. mem[f] \in Nat /\ unindexed[f] \in Nat  BY <1>t, Types
        <4> QED  BY <3>t, <4>1, <4>2
      <3>1. discardable'[f] = DiscIn(c, f)  BY <1>6, <2>3
      <3>2. IF f \in counted
            THEN discardable[f] = (data[f] - InSsts(f) - Unreported(f) + InFlushed(f)) % Word
            ELSE InSsts(f) + Unreported(f) = InFlushed(f)
        BY <2>0, <3>0 DEF Exact
      <3>3. CASE D(f) = 0
        <4>1. Unreported(f)' = Unreported(f)  BY <3>t, <3>3
        <4>2. f \notin ShrunkIn(c)  BY <1>5, <3>3
        <4> QED  BY <1>1, <1>4, <1>7, <3>1, <3>2, <4>1, <4>2
      <3>4. CASE D(f) # 0
        <4>0. data[f] > 0 /\ D(f) > 0  BY <3>b, <3>t, <3>4
        <4>1. f \in counted  BY <2>2, <3>0, <3>4, <4>0 DEF New
        <4>2. f \in ShrunkIn(c)
          <5>1. IsLive(meta[f])  BY <3>0, <4>0 DEF Origin
          <5> QED  BY <1>5, <4>0, <5>1 DEF IsLive, Known
        <4>3. data[f] - InSsts(f) - Unreported(f) + InFlushed(f) \in 0..(Word - 1)
          BY <3>b, <3>t
        <4>4. discardable[f] = data[f] - InSsts(f) - Unreported(f) + InFlushed(f)
          BY <3>2, <4>1, <4>3, WordMod
        <4>5. discardable[f] + D(f) = data[f] - InSsts(f) - Unreported(f)' + InFlushed(f)
          BY <3>t, <4>4
        <4> QED  BY <1>1, <1>4, <1>7, <3>1, <4>1, <4>2, <4>5
      <3> QED  BY <3>3, <3>4
    <2>8. Ordered'  BY <2>5 DEF Ordered
    <2>9. Exact'  BY <2>6, <2>7 DEF Exact
    <2> QED  BY <2>8, <2>9
  <1>30. Listed'
    <2> SUFFICES ASSUME NEW f \in obsolete'
                 PROVE  /\ f \in sorted /\ InSsts(f)' = 0 /\ Unreported(f)' = 0
                        /\ ~disordered' => ~IsLive(meta'[f])
      BY <1>1 DEF Listed
    <2>1. CASE f \in obsolete
      <3>1. f \in sorted /\ f \in BlobFile /\ InSsts(f) = 0 /\ Unreported(f) = 0
        BY <2>1, <1>t DEF Listed, TypeOK
      <3>2. InSsts(f)' = 0 /\ Unreported(f)' = 0  BY <1>4, <3>1
      <3>3. ASSUME ~disordered' PROVE ~IsLive(meta'[f])
        <4>1. ~disordered /\ Ordered  BY <1>1, <3>3
        <4>2. ~IsLive(meta[f])  BY <2>1, <4>1 DEF Listed
        <4>3. c \in Creators(f) => New(f) /\ data[f] > 0
          <5>1. c \in Creators(f) => New(f)  BY <3>1 DEF New
          <5>2. data[f] # 0  BY <3>1 DEF Fresh
          <5> QED  BY <3>1, <5>1, <5>2, <1>t, Types
        <4>4. f \notin NewIn(c)  BY <1>5, <3>1, <4>1, <4>2, <4>3 DEF Ordered
        <4> QED  BY <1>6, <3>1, <4>2, <4>4
      <3> QED  BY <3>1, <3>2, <3>3
    <2>2. CASE f \notin obsolete
      <3>1. AllFound(c) /\ Sealable(DeadIn(c)) /\ f \in DeadIn(c)  BY <1>2, <2>2
      <3>2. f \in sorted /\ f \in BlobFile  BY <1>9, <3>1 DEF DeadIn
      <3>3. discardable'[f] = data[f]  BY <1>6, <1>8, <3>1, <3>2
      <3>4. InSsts(f)' = 0 /\ Unreported(f)' = 0  BY <1>4, <1>27, <3>2, <3>3
      <3> QED  BY <1>6, <3>1, <3>2, <3>4
    <2> QED  BY <2>1, <2>2
  <1> QED  BY <1>20, <1>21, <1>22, <1>23, <1>24, <1>26, <1>28, <1>29, <1>30

----------------------------------------------------------------------------
(* The theorems                                                             *)

LEMMA NextInv == Inv /\ [Next]_vars => Inv'
  <1> SUFFICES ASSUME Inv, [Next]_vars PROVE Inv'  OBVIOUS
  <1>1. CASE \E f \in BlobFile, n, m \in 0..MaxRec : FinishUnsorted(f, n, m)
    BY <1>1, FinishUnsortedInv
  <1>2. CASE \E f \in BlobFile, accepted \in BOOLEAN : WriteIndex(f, accepted)
    BY <1>2, WriteIndexInv
  <1>3. CASE \E s \in Sst, kept \in UpTo(mem), made \in Made : Flush(s, kept, made)
    BY <1>3, FlushInv
  <1>4. CASE \E s \in flushed : OnFlushCompleted(s)  BY <1>4, OnFlushCompletedInv
  <1>5. CASE \E ins \in (SUBSET ssts) \ {{}}, s, t \in Sst, made \in Made :
               \E kept \in UpTo([f \in BlobFile |-> Referred(f, ins)]) :
                 \E rest \in UpTo([f \in BlobFile |->
                                     [g \in BlobFile |-> Referred(g, ins)][f] - kept[f]]) :
                   Compact(ins, s, t, kept, rest, made)
    BY <1>5, CompactInv
  <1>6. CASE \E c \in compacted, overlapping \in SUBSET BlobFile :
               OnCompactionCompleted(c, overlapping)
    BY <1>6, OnCompactionCompletedInv
  <1>7. CASE \E f \in BlobFile : Purge(f)  BY <1>7, PurgeInv
  <1>8. CASE UNCHANGED vars
    <2>1. /\ Unmoved
          /\ UNCHANGED <<meta, data, mem, unindexed, sorted, discardable, obsolete, counted,
                       disordered, ranged>>
      BY <1>8 DEF vars, Unmoved
    <2>2. \A g : /\ InSsts(g)' = InSsts(g) /\ InFlushed(g)' = InFlushed(g)
                 /\ Unreported(g)' = Unreported(g)
                 /\ Flushes(g)' = Flushes(g) /\ Creators(g)' = Creators(g)
      BY <2>1, UnmovedKeeps
    <2>3. \A g : New(g)' = New(g)  BY <2>1, <2>2 DEF New
    <2>4. Awaited' = Awaited  BY <2>1 DEF Awaited, Unmoved
    <2>5. TypeOK' /\ Fresh' /\ Jobs'  BY <2>1 DEF Inv, TypeOK, Fresh, Jobs, Unmoved
    <2>6. Budget' /\ Origin'  BY <2>1, <2>2 DEF Inv, Budget, Origin, Unmoved
    <2>7. Reported' /\ Dead'  BY <2>1, <2>2 DEF Inv, Reported, Dead, Unmoved
    <2>a. Listed'  BY <2>1, <2>2 DEF Inv, Listed
    <2>8. ~disordered' => Ordered'  BY <2>1, <2>3, <2>4 DEF Inv, Ordered, Unmoved
    <2>9. ~disordered' => Exact'  BY <2>1, <2>2 DEF Inv, Exact, Unmoved
    <2> QED  BY <2>5, <2>6, <2>7, <2>8, <2>9, <2>a DEF Inv
  <1> QED  BY <1>1, <1>2, <1>3, <1>4, <1>5, <1>6, <1>7, <1>8 DEF Next

LEMMA InvInvariant == Spec => []Inv
  BY InitInv, NextInv, PTL DEF Spec

LEMMA QuietFacts ==
  ASSUME Inv, Quiet, NEW f \in BlobFile
  PROVE  Unreported(f) = 0 /\ InFlushed(f) = 0 /\ InSsts(f) \in Nat /\ InSsts(f) <= data[f]
         /\ data[f] \in 0..MaxRec
  <1>t. TypeOK  BY DEF Inv
  <1>1. Unreported(f) = 0 /\ InFlushed(f) = 0
    BY SumEmpty, RefEmpty DEF Quiet, Unreported, InFlushed, Outstanding
  <1>2. InSsts(f) + Unreported(f) + mem[f] + unindexed[f] <= data[f]  BY DEF Inv, Budget
  <1> QED  BY <1>1, <1>2, <1>t, Types

\* Every count of the model stays a count: in particular what the SSTs of one
\* compaction or flush say about a file never exceeds the file.
THEOREM TypeCorrect == Spec => []TypeOK
  <1>1. Inv => TypeOK  BY DEF Inv
  <1> QED  BY <1>1, InvInvariant, PTL

\* With callbacks in order, OnFlushCompleted and OnCompactionCompleted leave in
\* discardable_size_ exactly what no SST refers to any more, for any number of
\* blob files, SSTs and records and through the additions that wrap around.
THEOREM AccountingStaysExact == Spec => []AccountingExact
  <1>1. Inv => AccountingExact
    <2> SUFFICES ASSUME Inv, Quiet, ~disordered, NEW f \in counted \cup sorted, IsLive(meta[f])
                 PROVE  discardable[f] = data[f] - Referred(f, ssts)
      BY DEF AccountingExact
    <2>t. TypeOK /\ f \in BlobFile  BY DEF Inv, TypeOK
    <2>1. /\ Unreported(f) = 0 /\ InFlushed(f) = 0 /\ InSsts(f) \in Nat /\ InSsts(f) <= data[f]
          /\ data[f] \in 0..MaxRec
      BY <2>t, QuietFacts
    <2>2. Referred(f, ssts) = InSsts(f)  BY DEF Referred, InSsts, Ref
    <2>3. Exact  BY DEF Inv
    <2>4. CASE f \in sorted  BY <2>1, <2>2, <2>3, <2>4 DEF Exact
    <2>5. CASE f \notin sorted
      <3>1. discardable[f] = (data[f] - InSsts(f) - Unreported(f) + InFlushed(f)) % Word
        BY <2>3, <2>5, <2>t DEF Exact
      <3>2. /\ data[f] - InSsts(f) - Unreported(f) + InFlushed(f) = data[f] - InSsts(f)
            /\ data[f] - InSsts(f) \in 0..(Word - 1)
        BY <2>1, AccountingAssumption
      <3> QED  BY <2>2, <3>1, <3>2, WordMod
    <2> QED  BY <2>4, <2>5
  <1> QED  BY <1>1, InvInvariant, PTL

\* OnCompactionCompleted of level_merge deletes a sorted file by its count
\* alone; whatever the order of the callbacks, it never deletes one to which an
\* SST of the current version still refers.
THEOREM OnlyDeadDeleted == Spec => []DeadWhenDeleted
  <1>1. Inv => DeadWhenDeleted
    <2> SUFFICES ASSUME Inv, NEW f \in sorted, ~IsLive(meta[f]) PROVE Referred(f, ssts) = 0
      BY DEF DeadWhenDeleted
    <2>1. InSsts(f) = 0  BY DEF Inv, Dead
    <2> QED  BY <2>1 DEF Referred, InSsts, Ref
  <1> QED  BY <1>1, InvInvariant, PTL

\* With callbacks in order, OnCompactionCompleted deletes a sorted file in the
\* very callback that drops its last reference: level_merge keeps no garbage.
THEOREM GarbageDeleted == Spec => []DeadIsDeleted
  <1>1. Inv => DeadIsDeleted
    <2> SUFFICES ASSUME Inv, Quiet, ~disordered, NEW f \in sorted, Referred(f, ssts) = 0,
                        IsLive(meta[f])
                 PROVE  FALSE
      BY DEF DeadIsDeleted
    <2>1. f \in BlobFile  BY DEF Inv, TypeOK
    <2>2. Unreported(f) = 0 /\ InSsts(f) \in Nat  BY <2>1, QuietFacts
    <2>3. InSsts(f) = 0  BY DEF Referred, InSsts, Ref
    <2>4. InSsts(f) + Unreported(f) > 0  BY DEF Inv, Exact
    <2> QED  BY <2>2, <2>3, <2>4
  <1> QED  BY <1>1, InvInvariant, PTL
=============================================================================
