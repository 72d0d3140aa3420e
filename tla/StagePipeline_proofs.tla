------------------------- MODULE StagePipeline_proofs -------------------------
(***************************************************************************)
(* Proofs about a request: for any requests, counts and estimates, and for *)
(* callers that use the library as SafeUse says, no stage runs on buffers  *)
(* too small for it, nothing is decoded that was not parsed, what fits is  *)
(* not refused, and the buffers of the stages do not meet.                 *)
(*                                                                         *)
(* First the types, which hold for every caller; then what is pending, in  *)
(* the order in which the GPU will take it, and what has run; last the     *)
(* places of the buffers.                                                  *)
(***************************************************************************)
EXTENDS StagePipeline, GroupSearch_proofs, SequenceTheorems

------------------------------------------------------------------------------
\* Kinds and counts.

LEMMA KindsAre ==
  /\ Stages = {0, 1, 2}
  /\ Kinds(0) = {"frame"} /\ Kinds(1) = {"raw", "rle", "cmp"} /\ Kinds(2) = {"lit", "seq"}
  /\ Counted = Kinds(1) \cup Kinds(2) /\ Kind = Kinds(0) \cup Counted
  /\ Kinds(1) \cap Kinds(2) = {}
<1>1. Stages = {0, 1, 2}
  BY DEF Stages
<1>2. Kinds(0) = {"frame"} /\ Kinds(1) = {"raw", "rle", "cmp"} /\ Kinds(2) = {"lit", "seq"}
  BY DEF Kinds
<1>3. Kind = Kinds(0) \cup Counted
  BY <1>1 DEF Kind, Counted
<1> QED BY <1>1, <1>2, <1>3 DEF Counted

\* Only one stage has a kind.
LEMMA StageOfKind ==
  ASSUME NEW t \in 1 .. 2, NEW u \in 1 .. 2, NEW k \in Kinds(t), k \in Kinds(u)
  PROVE  t = u
BY KindsAre

LEMMA FlagsAre == Flag[1] = "frameInfo" /\ Flag[2] = "blockInfo" /\ Range(Flag) = {Flag[1], Flag[2]}
<1>1. Flag[1] = "frameInfo" /\ Flag[2] = "blockInfo" /\ DOMAIN Flag = {1, 2}
  BY DEF Flag
<1> QED BY <1>1 DEF Range

LEMMA RequestFacts ==
  ASSUME request \in Requests
  PROVE  /\ request.count \in [Kind -> Nat] /\ request.output \in Nat
         /\ \A k \in Counted : request.count[k] \in Nat
         /\ request.count["frame"] \in Nat
BY CountAssumption, KindsAre

\* Sizes by which a stage's buffers may be made.
Sizes(s) == {c \in CapsOf(s) : s > 0 => \A k \in Kinds(s) : c[k] >= MinCount[k]}

\* What the sizes are made from.
Measured ==
  /\ request \in Requests
  /\ maxCount \in [Counted -> Nat] /\ cpuCounters \in [Counted -> Nat]
  /\ \A s \in 1 .. 2 : Flag[s] \in setup => \A k \in Kinds(s) : maxCount[k] >= MinCount[k]

LEMMA EstimateIs ==
  ASSUME request \in Requests, NEW k \in Counted
  PROVE  Estimate(k) \in Nat
<1>1. request.output \in Nat /\ BlockBytes \in Nat \ {0} /\ SeqBytes \in Nat \ {0}
  BY RequestFacts, CountAssumption
<1>2. request.output + BlockBytes - 1 \in Nat
  BY <1>1
<1>3. /\ (request.output + BlockBytes - 1) \div BlockBytes \in Nat
      /\ request.output \div SeqBytes \in Nat
  BY <1>1, <1>2, Quotient
<1> QED BY <1>1, <1>3, KindsAre DEF Estimate

LEMMA RecomputedIs ==
  ASSUME Measured, NEW s \in 1 .. 2
  PROVE  Recomputed(s) \in Sizes(s)
<1>1. ASSUME NEW k \in Kinds(s)
      PROVE  Recomputed(s)[k] \in Nat /\ Recomputed(s)[k] >= MinCount[k]
  <2>1. k \in Counted
    BY KindsAre
  <2>2. /\ maxCount[k] \in Nat /\ cpuCounters[k] \in Nat /\ Estimate(k) \in Nat
        /\ MinCount[k] \in Nat
    BY <2>1, EstimateIs, CountAssumption DEF Measured
  <2>3. CASE Flag[s] \in setup
    BY <2>2, <2>3 DEF Measured, Recomputed
  <2>4. CASE Flag[s] \notin setup
    BY <2>2, <2>4 DEF Recomputed, AtLeast
  <2> QED BY <2>3, <2>4
<1>2. Recomputed(s) = [k \in Kinds(s) |-> Recomputed(s)[k]]
  BY DEF Recomputed
<1> QED BY <1>1, <1>2 DEF Sizes, CapsOf

LEMMA NeedIs ==
  ASSUME Measured, NEW s \in Stages
  PROVE  Need(s) \in Sizes(s)
<1>1. CASE s = 0
  BY <1>1, KindsAre, RequestFacts DEF Measured, Need, Sizes, CapsOf
<1>2. CASE s \in 1 .. 2
  BY <1>2, RecomputedIs DEF Need
<1> QED BY <1>1, <1>2, KindsAre

\* The maxima after the sizes of the stages ss were made.
LEMMA MaxAfterIs ==
  ASSUME Measured, NEW ss \in SUBSET Stages
  PROVE  /\ MaxAfter(ss) \in [Counted -> Nat]
         /\ \A t \in 1 .. 2 : \A k \in Kinds(t) :
              MaxAfter(ss)[k] = IF t \in ss THEN Recomputed(t)[k] ELSE maxCount[k]
         /\ \A t \in 1 .. 2 : \A k \in Kinds(t) :
              Flag[t] \in setup => MaxAfter(ss)[k] = maxCount[k]
<1>1. ASSUME NEW t \in 1 .. 2, NEW k \in Kinds(t)
      PROVE  /\ k \in Counted
             /\ MaxAfter(ss)[k] = IF t \in ss THEN Recomputed(t)[k] ELSE maxCount[k]
             /\ MaxAfter(ss)[k] \in Nat
             /\ Flag[t] \in setup => MaxAfter(ss)[k] = maxCount[k]
  <2>1. k \in Counted
    BY KindsAre
  <2>2. CASE t \in ss
    <3> DEFINE u == CHOOSE s \in ss \ {0} : k \in Kinds(s)
    <3>1. u \in ss \ {0} /\ k \in Kinds(u)
      <4>1. t # 0 /\ t \in ss \ {0}
        BY <2>2
      <4>2. \E s : s \in ss \ {0} /\ k \in Kinds(s)
        BY <4>1
      <4> QED BY <4>2
    <3> HIDE DEF u
    <3>2. u = t
      <4>1. u \in 1 .. 2
        BY <3>1, KindsAre
      <4> QED BY <3>1, <4>1, StageOfKind
    <3>3. MaxAfter(ss)[k] = Recomputed(t)[k]
      BY <2>1, <3>1, <3>2 DEF MaxAfter, u
    <3>4. Recomputed(t)[k] \in Nat
      BY RecomputedIs DEF Sizes, CapsOf
    <3>5. Flag[t] \in setup => Recomputed(t)[k] = maxCount[k]
      BY DEF Recomputed
    <3> QED BY <2>1, <2>2, <3>3, <3>4, <3>5
  <2>3. CASE t \notin ss
    <3>1. ~ \E s \in ss \ {0} : k \in Kinds(s)
      BY <2>3, StageOfKind, KindsAre
    <3>2. MaxAfter(ss)[k] = maxCount[k]
      BY <2>1, <3>1 DEF MaxAfter
    <3> QED BY <2>1, <2>3, <3>2 DEF Measured
  <2> QED BY <2>2, <2>3
<1>2. MaxAfter(ss) = [k \in Counted |-> MaxAfter(ss)[k]]
  BY DEF MaxAfter
<1>3. MaxAfter(ss) \in [Counted -> Nat]
  BY <1>1, <1>2, KindsAre
<1> QED BY <1>1, <1>3

------------------------------------------------------------------------------
\* Heaps and buffers.

LEMMA BytesIs ==
  ASSUME NEW S, IsFiniteSet(S), NEW c \in [S -> Nat]
  PROVE  Bytes(c) \in Nat
<1> DEFINE F(f) == f = [s \in SUBSET S |->
                          IF s = {} THEN 0
                          ELSE LET x == CHOOSE x \in s : TRUE IN c[x] + f[s \ {x}]]
<1>1. \A f : F(f) <=> IsSum(c, S, f)
  BY DEF IsSum, SumStep
<1>2. DOMAIN c = S
  OBVIOUS
<1>3. Bytes(c) = (CHOOSE f : F(f))[S]
  BY <1>2 DEF Bytes, SumFunction, SumFunctionOnSet, FoldFunctionOnSet, MapThenFoldSet
<1> HIDE DEF F
<1>4. (CHOOSE f : F(f)) = (CHOOSE f : IsSum(c, S, f))
  BY <1>1
<1>5. Bytes(c) = SumOver(c, S)
  BY <1>3, <1>4 DEF SumOver
<1> QED BY <1>5, SumTakes DEF Natural

LEMMA SizesBytes ==
  ASSUME NEW s \in Stages, NEW c \in Sizes(s)
  PROVE  Bytes(c) \in Nat /\ [at |-> 0, count |-> c].count = c /\ c # NoBuffers.count
<1>1. IsFiniteSet(Kinds(s)) /\ Kinds(s) # {}
  <2>1. /\ IsFiniteSet({"frame"}) /\ IsFiniteSet({"raw", "rle", "cmp"})
        /\ IsFiniteSet({"lit", "seq"})
    <3>1. IsFiniteSet({})
      BY FS_EmptySet
    <3>2. IsFiniteSet({"frame"}) /\ IsFiniteSet({"lit"}) /\ IsFiniteSet({"raw"})
      <4>1. {"frame"} = {} \cup {"frame"} /\ {"lit"} = {} \cup {"lit"} /\ {"raw"} = {} \cup {"raw"}
        OBVIOUS
      <4> QED BY <3>1, <4>1, FS_AddElement
    <3>3. IsFiniteSet({"lit"} \cup {"seq"}) /\ IsFiniteSet({"raw"} \cup {"rle"})
      BY <3>2, FS_AddElement
    <3>4. IsFiniteSet(({"raw"} \cup {"rle"}) \cup {"cmp"})
      BY <3>3, FS_AddElement
    <3>5. /\ {"lit", "seq"} = {"lit"} \cup {"seq"}
          /\ {"raw", "rle", "cmp"} = ({"raw"} \cup {"rle"}) \cup {"cmp"}
      OBVIOUS
    <3> QED BY <3>2, <3>3, <3>4, <3>5
  <2> QED BY <2>1, KindsAre
<1>2. c \in [Kinds(s) -> Nat]
  BY DEF Sizes, CapsOf
<1>3. DOMAIN c # {} /\ DOMAIN NoBuffers.count = {}
  BY <1>1, <1>2 DEF NoBuffers
<1> QED BY <1>1, <1>2, <1>3, BytesIs

Heaps == [of : {"none", "stage", "shared"}, size : Nat]

Placed(s) == [at : Nat, count : Sizes(s)]

Resource(s) == [heap : Heaps, offset : Nat, byteCount : Nat,
                buffers : Placed(s) \cup {NoBuffers}]

StageHeap(need) == [of |-> "stage", size |-> Bytes(need)]

Resources(h, o, b, u) == [heap |-> h, offset |-> o, byteCount |-> b, buffers |-> u]

SetHeap(r, x) == [r EXCEPT !.heap = x]
SetOffset(r, x) == [r EXCEPT !.offset = x]
SetBytes(r, x) == [r EXCEPT !.byteCount = x]
SetBuffers(r, x) == [r EXCEPT !.buffers = x]

\* Fields of a stage's resources, set together or one after the other.
LEMMA FieldIs ==
  ASSUME NEW h, NEW o, NEW b, NEW u, NEW x
  PROVE  /\ SetHeap(Resources(h, o, b, u), x) = Resources(x, o, b, u)
         /\ SetOffset(Resources(h, o, b, u), x) = Resources(h, x, b, u)
         /\ SetBytes(Resources(h, o, b, u), x) = Resources(h, o, x, u)
         /\ SetBuffers(Resources(h, o, b, u), x) = Resources(h, o, b, x)
<1> DEFINE r == Resources(h, o, b, u)
<1>1. r \in [heap : {h}, offset : {o}, byteCount : {b}, buffers : {u}]
  BY DEF Resources
<1>2. r.heap = h /\ r.offset = o /\ r.byteCount = b /\ r.buffers = u
  BY DEF Resources
<1> HIDE DEF r
<1>3. /\ SetHeap(r, x) = Resources(x, o, b, u) /\ SetOffset(r, x) = Resources(h, x, b, u)
      /\ SetBytes(r, x) = Resources(h, o, x, u) /\ SetBuffers(r, x) = Resources(h, o, b, x)
  BY <1>1, <1>2 DEF Resources, SetHeap, SetOffset, SetBytes, SetBuffers
<1> QED BY <1>3 DEF r

LEMMA ResourceIs ==
  ASSUME NEW s, NEW r \in Resource(s)
  PROVE  /\ r = Resources(r.heap, r.offset, r.byteCount, r.buffers)
         /\ r.heap \in Heaps /\ r.offset \in Nat /\ r.byteCount \in Nat
         /\ r.buffers \in Placed(s) \cup {NoBuffers}
BY DEF Resource, Resources

LEMMA ResourceFrom ==
  ASSUME NEW s, NEW h \in Heaps, NEW o \in Nat, NEW b \in Nat,
         NEW u \in Placed(s) \cup {NoBuffers}
  PROVE  /\ Resources(h, o, b, u) \in Resource(s)
         /\ Resources(h, o, b, u).heap = h /\ Resources(h, o, b, u).offset = o
         /\ Resources(h, o, b, u).byteCount = b /\ Resources(h, o, b, u).buffers = u
BY DEF Resource, Resources

LEMMA PlacedIs ==
  ASSUME NEW s \in Stages, NEW b \in Placed(s)
  PROVE  b # NoBuffers
<1>1. b.count \in Sizes(s)
  BY DEF Placed
<1> QED BY <1>1, SizesBytes

\* What is left of a stage when its memory is taken from it.
LEMMA TermIs ==
  ASSUME NEW s, NEW r \in Resource(s)
  PROVE  Term(r) = Resources(NoHeap, r.offset, r.byteCount, NoBuffers)
<1>1. Term(r) = SetBuffers(SetHeap(r, NoHeap), NoBuffers)
  BY DEF Term, SetHeap, SetBuffers
<1>2. r = Resources(r.heap, r.offset, r.byteCount, r.buffers)
  BY ResourceIs
<1> QED BY <1>1, <1>2, FieldIs

\* Buffers are made where there are none.
LEMMA InitBuffersIs ==
  ASSUME NEW h, NEW o, NEW b, NEW u, NEW need
  PROVE  InitBuffers(Resources(h, o, b, u), need) =
           Resources(h, o, b, IF u # NoBuffers THEN u ELSE [at |-> o, count |-> need])
<1> DEFINE r == Resources(h, o, b, u)
<1>1. r.buffers = u /\ r.offset = o
  BY DEF Resources
<1>2. [r EXCEPT !.buffers = [at |-> o, count |-> need]]
        = Resources(h, o, b, [at |-> o, count |-> need])
  <2>1. [r EXCEPT !.buffers = [at |-> o, count |-> need]]
          = SetBuffers(r, [at |-> o, count |-> need])
    BY DEF SetBuffers
  <2> QED BY <2>1, FieldIs
<1> HIDE DEF r
<1>3. InitBuffers(r, need) = IF u # NoBuffers THEN r
                             ELSE [r EXCEPT !.buffers = [at |-> o, count |-> need]]
  BY <1>1 DEF InitBuffers
<1> QED BY <1>2, <1>3 DEF r

LEMMA ExternalStageIs ==
  ASSUME NEW s, NEW r \in Resource(s), NEW need
  PROVE  ExternalStage(r, need) =
           Resources(StageHeap(need), 0, r.byteCount, [at |-> 0, count |-> need])
<1>1. [Term(r) EXCEPT !.heap = [of |-> "stage", size |-> Bytes(need)], !.offset = 0]
        = Resources(StageHeap(need), 0, r.byteCount, NoBuffers)
  <2>1. [Term(r) EXCEPT !.heap = [of |-> "stage", size |-> Bytes(need)], !.offset = 0]
          = SetOffset(SetHeap(Term(r), StageHeap(need)), 0)
    BY DEF StageHeap, SetHeap, SetOffset
  <2> QED BY <2>1, TermIs, FieldIs
<1> QED BY <1>1, InitBuffersIs DEF ExternalStage

LEMMA InternalStageIs ==
  ASSUME NEW s \in Stages, NEW r \in Resource(s), NEW need \in Sizes(s)
  PROVE  /\ InternalStage(r, need) \in Resource(s)
         /\ InternalStage(r, need).buffers \in Placed(s)
         /\ r = NoResources[s] => InternalStage(r, need) =
              Resources(StageHeap(need), 0, Bytes(need), [at |-> 0, count |-> need])
<1> DEFINE kept == IF r.byteCount < Bytes(need) THEN Term(r) ELSE r
           h == InitHeap(kept, need)
<1>1. Bytes(need) \in Nat
  BY SizesBytes
<1>2. NoHeap \in Heaps /\ StageHeap(need) \in Heaps
  BY <1>1 DEF NoHeap, Heaps, StageHeap
<1>3. kept = Resources(kept.heap, kept.offset, kept.byteCount, kept.buffers)
      /\ kept \in Resource(s)
  <2>1. Term(r) \in Resource(s)
    BY <1>2, TermIs, ResourceIs, ResourceFrom
  <2>2. kept \in Resource(s)
    BY <2>1
  <2> HIDE DEF kept
  <2> QED BY <2>2, ResourceIs
<1>4. r = NoResources[s] =>
        kept.heap = NoHeap /\ kept.offset = 0 /\ kept.buffers = NoBuffers
  <2>1. HAVE r = NoResources[s]
  <2>2. r.heap = NoHeap /\ r.offset = 0 /\ r.buffers = NoBuffers
    BY <2>1 DEF NoResources
  <2>3. Term(r).heap = NoHeap /\ Term(r).offset = 0 /\ Term(r).buffers = NoBuffers
    BY <2>2, TermIs DEF Resources
  <2> QED BY <2>2, <2>3
<1> HIDE DEF kept
<1>5. h = IF kept.heap # NoHeap THEN kept
          ELSE Resources(StageHeap(need), kept.offset, Bytes(need), kept.buffers)
  <2>1. h = IF kept.heap # NoHeap THEN kept
            ELSE SetBytes(SetHeap(kept, StageHeap(need)), Bytes(need))
    BY DEF InitHeap, StageHeap, SetHeap, SetBytes
  <2> QED BY <1>3, <2>1, FieldIs
<1>6. h \in Resource(s)
  <2>1. Resources(StageHeap(need), kept.offset, Bytes(need), kept.buffers) \in Resource(s)
    <3>1. /\ kept.offset \in Nat /\ kept.buffers \in Placed(s) \cup {NoBuffers}
      BY <1>3, ResourceIs
    <3> QED BY <1>1, <1>2, <3>1, ResourceFrom
  <2> QED BY <1>3, <1>5, <2>1
<1> HIDE DEF h
<1>7. InternalStage(r, need) = InitBuffers(h, need)
  BY DEF InternalStage, h, kept
<1> DEFINE u == IF h.buffers # NoBuffers THEN h.buffers
                ELSE [at |-> h.offset, count |-> need]
<1>8. InternalStage(r, need) = Resources(h.heap, h.offset, h.byteCount, u)
  BY <1>6, <1>7, ResourceIs, InitBuffersIs
<1>9. u \in Placed(s)
  BY <1>6, ResourceIs DEF Placed
<1>10. ASSUME r = NoResources[s]
       PROVE  InternalStage(r, need) =
                Resources(StageHeap(need), 0, Bytes(need), [at |-> 0, count |-> need])
  <2>1. h = Resources(StageHeap(need), 0, Bytes(need), NoBuffers)
    BY <1>4, <1>5, <1>10
  <2>2. /\ h.heap = StageHeap(need) /\ h.offset = 0 /\ h.byteCount = Bytes(need)
        /\ h.buffers = NoBuffers
    BY <2>1 DEF Resources
  <2> QED BY <1>8, <2>2
<1> HIDE DEF u
<1>11. InternalStage(r, need) \in Resource(s) /\ InternalStage(r, need).buffers \in Placed(s)
  BY <1>6, <1>8, <1>9, ResourceIs, ResourceFrom
<1> QED BY <1>10, <1>11

LEMMA SharedIs ==
  ASSUME Measured
  PROVE  /\ \A s \in Stages : OffsetOf(s) \in Nat /\ Bytes(Need(s)) \in Nat
         /\ OffsetOf(0) = 0 /\ OffsetOf(1) = Bytes(Need(0))
         /\ OffsetOf(2) = Bytes(Need(0)) + Bytes(Need(1))
         /\ SharedHeap \in Heaps /\ SharedHeap # NoHeap
         /\ SharedHeap.of = "shared" /\ SharedHeap.size = OffsetOf(2) + Bytes(Need(2))
<1>1. \A s \in Stages : Bytes(Need(s)) \in Nat
  BY NeedIs, SizesBytes
<1>2. /\ OffsetOf(0) = 0 /\ OffsetOf(1) = Bytes(Need(0))
      /\ OffsetOf(2) = Bytes(Need(0)) + Bytes(Need(1))
  BY DEF OffsetOf
<1>3. Bytes(Need(0)) \in Nat /\ Bytes(Need(1)) \in Nat /\ Bytes(Need(2)) \in Nat
  BY <1>1, KindsAre
<1>4. \A s \in Stages : OffsetOf(s) \in Nat
  BY <1>2, <1>3, KindsAre
<1>5. OffsetOf(2) + Bytes(Need(2)) \in Nat
  BY <1>2, <1>3
<1> QED BY <1>1, <1>2, <1>4, <1>5 DEF SharedHeap, Heaps, NoHeap

\* The part of the shared heap that stage s gets when heaps are made for all.
Part(s, bytes) ==
  Resources(SharedHeap, OffsetOf(s), bytes, [at |-> OffsetOf(s), count |-> Need(s)])

LEMMA ExternalAllIs ==
  ASSUME NEW s \in Stages, res[s] \in Resource(s)
  PROVE  ExternalAll[s] = Part(s, res[s].byteCount)
<1>1. [Term(res[s]) EXCEPT !.heap = SharedHeap, !.offset = OffsetOf(s)]
        = Resources(SharedHeap, OffsetOf(s), res[s].byteCount, NoBuffers)
  <2>1. [Term(res[s]) EXCEPT !.heap = SharedHeap, !.offset = OffsetOf(s)]
          = SetOffset(SetHeap(Term(res[s]), SharedHeap), OffsetOf(s))
    BY DEF SetHeap, SetOffset
  <2>2. Term(res[s]) = Resources(NoHeap, res[s].offset, res[s].byteCount, NoBuffers)
    BY TermIs
  <2> QED BY <2>1, <2>2, FieldIs
<1> QED BY <1>1, InitBuffersIs DEF ExternalAll, Part

LEMMA InternalAllIs ==
  ASSUME Measured, NEW s \in Stages, \A t \in Stages : res[t] \in Resource(t)
  PROVE  /\ InternalAll[s] \in Resource(s) /\ InternalAll[s].buffers \in Placed(s)
         /\ InternalAll[s].buffers.count = Need(s)
         /\ res[0] = NoResources[0] => InternalAll[s] = Part(s, Bytes(Need(s)))
<1> DEFINE small == Bytes([t \in Stages |-> res[t].byteCount]) < SharedHeap.size
           fresh == small \/ res[0].heap = NoHeap
           b == IF fresh
                THEN Resources(SharedHeap, OffsetOf(s), Bytes(Need(s)), NoBuffers)
                ELSE [res[s] EXCEPT !.buffers = NoBuffers]
<1>1. InternalAll[s] = InitBuffers(b, Need(s))
  BY DEF InternalAll, Resources
<1>2. SharedHeap \in Heaps /\ OffsetOf(s) \in Nat /\ Bytes(Need(s)) \in Nat
  BY SharedIs
<1>3. res[0] = NoResources[0] => fresh
  <2>1. NoResources[0].heap = NoHeap
    BY KindsAre DEF NoResources
  <2> HIDE DEF small
  <2> QED BY <2>1
<1> HIDE DEF small, fresh
<1>4. b = Resources(b.heap, b.offset, b.byteCount, NoBuffers)
      /\ b.heap \in Heaps /\ b.offset \in Nat /\ b.byteCount \in Nat
  <2>1. CASE fresh
    <3>1. b = Resources(SharedHeap, OffsetOf(s), Bytes(Need(s)), NoBuffers)
      BY <2>1
    <3> HIDE DEF b
    <3>2. b.heap = SharedHeap /\ b.offset = OffsetOf(s) /\ b.byteCount = Bytes(Need(s))
      BY <3>1 DEF Resources
    <3> QED BY <1>2, <3>1, <3>2
  <2>2. CASE ~fresh
    <3>1. b = Resources(res[s].heap, res[s].offset, res[s].byteCount, NoBuffers)
      <4>1. b = SetBuffers(res[s], NoBuffers)
        BY <2>2 DEF SetBuffers
      <4>2. res[s] = Resources(res[s].heap, res[s].offset, res[s].byteCount, res[s].buffers)
        BY ResourceIs
      <4> QED BY <4>1, <4>2, FieldIs
    <3> HIDE DEF b
    <3>2. b.heap = res[s].heap /\ b.offset = res[s].offset /\ b.byteCount = res[s].byteCount
      BY <3>1 DEF Resources
    <3> QED BY <3>1, <3>2, ResourceIs
  <2> QED BY <2>1, <2>2
<1>5. fresh => b = Resources(SharedHeap, OffsetOf(s), Bytes(Need(s)), NoBuffers)
  OBVIOUS
<1> HIDE DEF b
<1> DEFINE u == [at |-> b.offset, count |-> Need(s)]
<1>6. InternalAll[s] = Resources(b.heap, b.offset, b.byteCount, u)
  BY <1>1, <1>4, InitBuffersIs
<1>7. u \in Placed(s) /\ u.count = Need(s)
  BY <1>4, NeedIs DEF Placed
<1>8. ASSUME fresh PROVE InternalAll[s] = Part(s, Bytes(Need(s)))
  <2>1. b.heap = SharedHeap /\ b.offset = OffsetOf(s) /\ b.byteCount = Bytes(Need(s))
    BY <1>5, <1>8 DEF Resources
  <2> QED BY <1>6, <2>1 DEF Part
<1> HIDE DEF u
<1>9. /\ InternalAll[s] \in Resource(s) /\ InternalAll[s].buffers = u
  BY <1>4, <1>6, <1>7, ResourceFrom
<1> QED BY <1>3, <1>7, <1>8, <1>9

------------------------------------------------------------------------------
\* Types.

Asked ==
  /\ caller \in Callers /\ request \in Requests /\ served \in 0 .. MaxRequests - 1
  /\ setup \subseteq caller.flags /\ next \in 0 .. 3

Kept ==
  /\ res = [s \in Stages |-> res[s]]
  /\ \A s \in Stages : res[s] \in Resource(s)
  /\ \A s \in Stages : s < next => res[s].buffers \in Placed(s)

Counting ==
  /\ counters \in [Counted -> Nat]
  /\ predicate = [s \in 1 .. 2 |-> predicate[s]]
  /\ \A s \in 1 .. 2 : predicate[s] \subseteq Counted

TypeInv == Asked /\ Measured /\ Kept /\ Counting

LEMMA NoResourcesAre ==
  /\ NoResources = [s \in Stages |-> NoResources[s]]
  /\ \A s \in Stages : NoResources[s] = Resources(NoHeap, 0, 0, NoBuffers)
  /\ \A s \in Stages : NoResources[s] \in Resource(s)
<1>1. /\ NoResources = [s \in Stages |-> NoResources[s]]
      /\ \A s \in Stages : NoResources[s] = Resources(NoHeap, 0, 0, NoBuffers)
  BY DEF NoResources, Resources
<1>2. NoHeap \in Heaps
  BY DEF NoHeap, Heaps
<1>3. \A s \in Stages : Resources(NoHeap, 0, 0, NoBuffers) \in Resource(s)
  BY <1>2, ResourceFrom
<1> QED BY <1>1, <1>3

LEMMA InitTypes == Init => TypeInv
<1> SUFFICES ASSUME Init PROVE TypeInv
  OBVIOUS
<1>1. Asked
  BY BoundAssumption DEF Init, Asked
<1>2. Measured
  BY DEF Init, Measured
<1>3. Kept
  <2>1. res = NoResources /\ next = 0
    BY DEF Init
  <2> QED BY <2>1, NoResourcesAre, KindsAre DEF Kept
<1>4. Counting
  BY DEF Init, Counting
<1> QED BY <1>1, <1>2, <1>3, <1>4 DEF TypeInv

\* Constants that are set are at least the least of their kind.
LEMMA SetupConstantsTypes ==
  ASSUME TypeInv, NEW s \in 1 .. 2, SetupConstants(s)
  PROVE  TypeInv'
<1>1. Asked'
  BY DEF TypeInv, SetupConstants, Asked
<1>2. Measured'
  <2>1. PICK given \in GivenCounts[s] :
          maxCount' = [k \in Counted |-> IF k \in Kinds(s) THEN AtLeast(given[k], MinCount[k])
                                         ELSE maxCount[k]]
    BY DEF SetupConstants
  <2>2. given \in [Kinds(s) -> Nat]
    BY CountAssumption
  <2>3. ASSUME NEW k \in Kinds(s)
        PROVE  AtLeast(given[k], MinCount[k]) \in Nat /\ AtLeast(given[k], MinCount[k]) >= MinCount[k]
    <3>1. given[k] \in Nat /\ MinCount[k] \in Nat
      BY <2>2, KindsAre, CountAssumption
    <3> QED BY <3>1 DEF AtLeast
  <2>4. maxCount' \in [Counted -> Nat]
    BY <2>1, <2>3 DEF TypeInv, Measured
  <2>5. ASSUME NEW t \in 1 .. 2, (Flag[t] \in setup)', NEW k \in Kinds(t)
        PROVE  maxCount'[k] >= MinCount[k]
    <3>1. k \in Counted
      BY KindsAre
    <3>2. CASE t = s
      BY <2>1, <2>3, <3>1, <3>2
    <3>3. CASE t # s
      <4>1. Flag[t] \in setup
        BY <2>5, <3>3, FlagsAre DEF SetupConstants
      <4>2. k \notin Kinds(s)
        BY <3>3, StageOfKind
      <4> QED BY <2>1, <3>1, <4>1, <4>2 DEF TypeInv, Measured
    <3> QED BY <3>2, <3>3
  <2> QED BY <2>4, <2>5 DEF TypeInv, Measured, SetupConstants, gpuVars
<1>3. Kept' /\ Counting'
  BY DEF TypeInv, SetupConstants, Kept, Counting, gpuVars
<1> QED BY <1>1, <1>2, <1>3 DEF TypeInv

LEMMA SetupAllTypes ==
  ASSUME TypeInv, SetupAllStageSubmission
  PROVE  TypeInv'
<1>1. Asked'
  BY DEF TypeInv, SetupAllStageSubmission, Asked
<1>2. Measured'
  BY FlagsAre DEF TypeInv, SetupAllStageSubmission, Measured, gpuVars
<1>3. Kept' /\ Counting'
  BY DEF TypeInv, SetupAllStageSubmission, Kept, Counting, gpuVars
<1> QED BY <1>1, <1>2, <1>3 DEF TypeInv

\* The sizes made for the stages ss keep what was given.
LEMMA MaxAfterTypes ==
  ASSUME Measured, NEW ss \in SUBSET Stages, maxCount' = MaxAfter(ss),
         UNCHANGED <<request, setup, cpuCounters>>
  PROVE  Measured'
<1>1. maxCount' \in [Counted -> Nat]
  BY MaxAfterIs
<1>2. ASSUME NEW s \in 1 .. 2, Flag[s] \in setup, NEW k \in Kinds(s)
      PROVE  maxCount'[k] >= MinCount[k]
  <2>1. maxCount'[k] = maxCount[k]
    BY <1>2, MaxAfterIs
  <2> QED BY <1>2, <2>1 DEF Measured
<1> QED BY <1>1, <1>2 DEF Measured

LEMMA SubmitStageTypes ==
  ASSUME TypeInv, NEW s \in Stages, SubmitStage(s)
  PROVE  /\ TypeInv'
         /\ res'[s] = IF caller.memory = "external" THEN ExternalStage(res[s], Need(s))
                      ELSE InternalStage(res[s], Need(s))
         /\ \A t \in Stages \ {s} : res'[t] = res[t]
<1>1. Asked'
  BY KindsAre DEF TypeInv, SubmitStage, Asked
<1>2. Measured'
  <2>1. {s} \in SUBSET Stages
    OBVIOUS
  <2> QED BY <2>1, MaxAfterTypes DEF TypeInv, SubmitStage, gpuVars
<1> DEFINE new == IF caller.memory = "external" THEN ExternalStage(res[s], Need(s))
                  ELSE InternalStage(res[s], Need(s))
<1>3. res' = [res EXCEPT ![s] = new]
  BY DEF SubmitStage
<1>4. res'[s] = new /\ (\A t \in Stages \ {s} : res'[t] = res[t]) /\ res' = [t \in Stages |-> res'[t]]
  <2> HIDE DEF new
  <2> QED BY <1>3 DEF TypeInv, Kept
<1>5. new \in Resource(s) /\ new.buffers \in Placed(s)
  <2>1. res[s] \in Resource(s) /\ Need(s) \in Sizes(s)
    BY NeedIs DEF TypeInv, Kept
  <2>2. CASE caller.memory = "external"
    <3>1. new = Resources(StageHeap(Need(s)), 0, res[s].byteCount, [at |-> 0, count |-> Need(s)])
      BY <2>1, <2>2, ExternalStageIs
    <3>2. StageHeap(Need(s)) \in Heaps
      BY <2>1, SizesBytes DEF StageHeap, Heaps
    <3>3. [at |-> 0, count |-> Need(s)] \in Placed(s) /\ res[s].byteCount \in Nat
      BY <2>1, ResourceIs DEF Placed
    <3> QED BY <3>1, <3>2, <3>3, ResourceFrom
  <2>3. CASE caller.memory # "external"
    BY <2>1, <2>3, InternalStageIs
  <2> QED BY <2>2, <2>3
<1> HIDE DEF new
<1>6. next = s /\ next' = s + 1
  BY DEF SubmitStage
<1>7. Kept'
  BY <1>4, <1>5, <1>6, KindsAre DEF TypeInv, Kept
<1>8. Counting'
  BY DEF TypeInv, SubmitStage, Counting, gpuVars
<1> QED BY <1>1, <1>2, <1>4, <1>7, <1>8 DEF TypeInv, new

LEMMA SubmitAllTypes ==
  ASSUME TypeInv, SubmitAllStages
  PROVE  TypeInv'
<1>1. Asked'
  BY DEF TypeInv, SubmitAllStages, Asked
<1>2. Measured'
  <2>1. Stages \in SUBSET Stages
    OBVIOUS
  <2> QED BY <2>1, MaxAfterTypes DEF TypeInv, SubmitAllStages, gpuVars
<1>3. Kept'
  <2>1. \A t \in Stages : res[t] \in Resource(t)
    BY DEF TypeInv, Kept
  <2>2. ASSUME NEW s \in Stages
        PROVE  /\ ExternalAll[s] \in Resource(s) /\ ExternalAll[s].buffers \in Placed(s)
               /\ InternalAll[s] \in Resource(s) /\ InternalAll[s].buffers \in Placed(s)
    <3>1. SharedHeap \in Heaps /\ OffsetOf(s) \in Nat /\ res[s].byteCount \in Nat
      BY <2>1, ResourceIs, SharedIs DEF TypeInv
    <3>2. [at |-> OffsetOf(s), count |-> Need(s)] \in Placed(s)
      BY <3>1, NeedIs DEF TypeInv, Placed
    <3>3. ExternalAll[s] = Part(s, res[s].byteCount)
      BY <2>1, ExternalAllIs
    <3>4. ExternalAll[s] \in Resource(s) /\ ExternalAll[s].buffers \in Placed(s)
      BY <3>1, <3>2, <3>3, ResourceFrom DEF Part
    <3> QED BY <2>1, <3>4, InternalAllIs DEF TypeInv
  <2>3. /\ ExternalAll = [s \in Stages |-> ExternalAll[s]]
        /\ InternalAll = [s \in Stages |-> InternalAll[s]]
    BY DEF ExternalAll, InternalAll
  <2>4. res' = ExternalAll \/ res' = InternalAll
    BY DEF SubmitAllStages
  <2> QED BY <2>2, <2>3, <2>4 DEF Kept
<1>4. Counting'
  BY DEF TypeInv, SubmitAllStages, Counting, gpuVars
<1> QED BY <1>1, <1>2, <1>3, <1>4 DEF TypeInv

LEMMA NextRequestTypes ==
  ASSUME TypeInv, NextRequest
  PROVE  TypeInv'
<1>1. Asked'
  <2>1. served' \in 0 .. MaxRequests - 1
    BY BoundAssumption DEF TypeInv, Asked, NextRequest
  <2> QED BY <2>1 DEF NextRequest, Asked, TypeInv, ctxVars
<1>2. Measured'
  BY DEF TypeInv, Measured, NextRequest, ctxVars
<1>3. Kept'
  <2>1. res' = NoResources \/ res' = res
    BY DEF NextRequest, ctxVars
  <2>2. next' = 0
    BY DEF NextRequest
  <2> QED BY <2>1, <2>2, NoResourcesAre, KindsAre DEF TypeInv, Kept
<1>4. Counting'
  BY DEF TypeInv, NextRequest, Counting
<1> QED BY <1>1, <1>2, <1>3, <1>4 DEF TypeInv

LEMMA GPUTypes ==
  ASSUME TypeInv, GPU
  PROVE  TypeInv'
<1>1. Asked' /\ Kept'
  BY DEF TypeInv, GPU, RunStage0, RunStage1, RunStage2, SkipStage, Readback, Runs,
         Asked, Kept, ctxVars
<1>2. counters' \in [Counted -> Nat] /\ cpuCounters' \in [Counted -> Nat]
  <2>1. \A k \in Counted : request.count[k] \in Nat
    BY RequestFacts DEF TypeInv, Asked
  <2>2. counters \in [Counted -> Nat] /\ cpuCounters \in [Counted -> Nat]
    BY DEF TypeInv, Measured, Counting
  <2>3. CASE RunStage0
    BY <2>1, <2>2, <2>3 DEF RunStage0
  <2>4. CASE RunStage1
    BY <2>1, <2>2, <2>4 DEF RunStage1
  <2>5. CASE RunStage2 \/ SkipStage \/ Readback
    BY <2>2, <2>5 DEF RunStage2, SkipStage, Readback, gpuVars
  <2> QED BY <2>3, <2>4, <2>5 DEF GPU
<1>3. Measured'
  BY <1>2 DEF TypeInv, Measured, GPU, RunStage0, RunStage1, RunStage2, SkipStage, Readback, ctxVars
<1>4. Counting'
  <2>1. \A s, max, count : Over(Kinds(s), max, count) \subseteq Kinds(s)
    BY DEF Over
  <2>2. CASE RunStage0
    <3>1. predicate' = [s \in 1 .. 2 |-> Over(Kinds(1), Head(queue).max, counters')]
      BY <2>2 DEF RunStage0, Stage0Predicate
    <3> QED BY <1>2, <2>1, <3>1, KindsAre DEF Counting
  <2>3. CASE RunStage1
    <3>1. predicate' = [predicate EXCEPT ![2] =
                          predicate[2] \cup Over(Kinds(2), Head(queue).max, counters')]
      BY <2>3 DEF RunStage1
    <3> QED BY <1>2, <2>1, <3>1, KindsAre DEF TypeInv, Counting
  <2>4. CASE RunStage2 \/ SkipStage \/ Readback
    BY <2>4 DEF TypeInv, RunStage2, SkipStage, Readback, gpuVars, Counting
  <2> QED BY <2>2, <2>3, <2>4 DEF GPU
<1> QED BY <1>1, <1>3, <1>4 DEF TypeInv

LEMMA StepTypes ==
  ASSUME TypeInv, [Next]_vars
  PROVE  TypeInv'
<1>1. ASSUME NEW s \in 1 .. 2, SetupConstants(s) PROVE TypeInv'
  BY <1>1, SetupConstantsTypes
<1>2. CASE SetupAllStageSubmission
  BY <1>2, SetupAllTypes
<1>3. ASSUME NEW s \in Stages, SubmitStage(s) PROVE TypeInv'
  BY <1>3, SubmitStageTypes
<1>4. CASE SubmitAllStages
  BY <1>4, SubmitAllTypes
<1>5. CASE ExecuteCmdList
  BY <1>5 DEF TypeInv, ExecuteCmdList, Asked, Measured, Kept, Counting, ctxVars, gpuVars
<1>6. CASE NextRequest
  BY <1>6, NextRequestTypes
<1>7. CASE GPU
  BY <1>7, GPUTypes
<1>8. CASE Done \/ UNCHANGED vars
  BY <1>8 DEF Done, vars, TypeInv, Asked, Measured, Kept, Counting, ctxVars, gpuVars
<1> QED BY <1>1, <1>2, <1>3, <1>4, <1>5, <1>6, <1>7, <1>8 DEF Next, CPU

LEMMA TypesImply == TypeInv => TypeOK
<1> SUFFICES ASSUME TypeInv PROVE TypeOK
  OBVIOUS
<1>1. ASSUME NEW s \in Stages, s < next
      PROVE  /\ res[s].buffers.count \in CapsOf(s)
             /\ s > 0 => \A k \in Kinds(s) : res[s].buffers.count[k] >= MinCount[k]
  <2>1. res[s].buffers \in Placed(s)
    BY <1>1 DEF TypeInv, Kept
  <2>2. res[s].buffers.count \in Sizes(s)
    BY <2>1 DEF Placed
  <2> QED BY <2>2 DEF Sizes
<1> QED BY <1>1 DEF TypeOK, TypeInv, Asked, Measured, Counting

LEMMA TypesHold == Spec => []TypeInv
<1>1. TypeInv /\ [Next]_vars => TypeInv'
  BY StepTypes
<1> QED BY <1>1, InitTypes, PTL DEF Spec

\* TypeOK, for every caller: each buffer of a stage that is submitted exists and
\* has at least the least size of its kind, whatever zstdgpu_RecomputeAndRetrieve*
\* was given, so that no stage is recorded with a NULL buffer.
THEOREM TypeCorrect == Spec => []TypeOK
BY TypesHold, TypesImply, PTL

------------------------------------------------------------------------------
\* What is pending: commands recorded or submitted, in order.

todo == queue \o cmdList

\* A readback is only ever the last command.
Waits(q) == q # <<>> /\ q[Len(q)].op = "readback"
StagesIn(q) == IF Waits(q) THEN Len(q) - 1 ELSE Len(q)

\* The stages the GPU has passed.
done == next - StagesIn(todo)

RoomKinds(s) == UNION {Kinds(t) : t \in 1 .. s}
Room(s) == [k \in RoomKinds(s) |-> maxCount[k]]

Command == [op : {"stage"}, stage : Stages, max : [Counted -> Nat],
            room : UNION {[RoomKinds(s) -> Nat] : s \in Stages}, predicated : BOOLEAN]
           \cup [op : {"readback"}]

Given(t) == Flag[t] \in setup \/ "single" \in setup

\* What a command of stage s says.  Maxima that are not given are made later.
Says(c, s, max) ==
  /\ c.op = "stage" /\ c.stage = s
  /\ c.predicated <=> s > 0 /\ ~ReadbackRequired(s - 1)
  /\ c.room = [k \in RoomKinds(s) |-> max[k]]
  /\ \A t \in 1 .. 2 : t <= s \/ Given(t) => \A k \in Kinds(t) : c.max[k] = max[k]

StageCommand(c, s) == Says(c, s, maxCount)

Typed == queue \in Seq(Command) /\ cmdList \in Seq(Command)

\* The stages from done to next are pending, in order, and the CPU waits where it
\* will read back.
QueueOK ==
  /\ done \in 0 .. next
  /\ \A i \in 1 .. StagesIn(todo) : StageCommand(todo[i], done + i - 1)
  /\ Waits(todo) => ReadbackRequired(next - 1)
  /\ ReadbackRequired(next - 1) /\ ~Waits(todo) => todo = <<>> /\ cpuCounters = counters

SetupOK ==
  /\ next > 0 => Ready
  /\ next \in 1 .. 2 => caller.way = "stages"

\* The kinds of stage s of which the request has more than was made for.
Short(s) == Over(Kinds(s), maxCount, request.count)

\* What has run, and what the GPU counted and decided.
Stage0Done ==
  /\ \A k \in Kinds(1) : counters[k] = request.count[k]
  /\ ~ReadbackRequired(0) => predicate[1] = Short(1)
  /\ ~ReadbackRequired(1) =>
       predicate[2] = Short(1) \cup (IF ran[1].did THEN Short(2) ELSE {})

Stage1Done ==
  /\ ran[1].did <=> ReadbackRequired(0) \/ Short(1) = {}
  /\ ran[1].did => counters = [k \in Counted |-> request.count[k]]

Stage2Done == ran[2].did <=> ReadbackRequired(1) \/ Short(1) \cup Short(2) = {}

RanOK ==
  /\ ran = [s \in Stages |-> ran[s]]
  /\ \A s \in Stages : s >= done => ran[s] = NotRun[s]
  /\ \A s \in Stages : s < done /\ ran[s].did => ran[s].room = Room(s)
  /\ done >= 1 => Stage0Done
  /\ done >= 2 => Stage1Done
  /\ done = 3 => Stage2Done

\* The buffers are as large as the maxima say.
RoomOK ==
  \A t \in 1 .. 2 : t < next => res[t].buffers.count = [k \in Kinds(t) |-> maxCount[k]]

\* Memory of the library is that of this request.
Unused == caller.memory = "internal" => \A s \in Stages : s >= next => res[s] = NoResources[s]

PipelineInv ==
  TypeInv /\ Typed /\ QueueOK /\ SetupOK /\ RanOK /\ RoomOK /\ Unused /\ SizedByThisRequest

\* Which waits there are, for callers that are safe.
LEMMA SafeFlags ==
  ASSUME SafeUse, TypeInv, Ready
  PROVE  /\ setup = caller.flags
         /\ ReadbackRequired(0) => ReadbackRequired(1)
         /\ ReadbackRequired(1) /\ ~ReadbackRequired(0)
            => caller.exact /\ Flag[1] \in setup
         /\ caller.way = "stages" => "single" \notin setup
<1>1. setup = caller.flags /\ SafeCaller(caller) /\ caller.flags \subseteq {"frameInfo", "blockInfo", "single"}
  BY CallerAssumption DEF SafeUse, TypeInv, Asked, Ready
<1>2. caller.way = "stages" => "single" \notin setup
  BY <1>1 DEF SafeCaller
<1>3. ReadbackRequired(0) => ReadbackRequired(1)
  BY <1>1, FlagsAre DEF ReadbackRequired, SafeCaller
<1>4. ASSUME ReadbackRequired(1), ~ReadbackRequired(0)
      PROVE  caller.exact /\ Flag[1] \in setup
  <2>1. "frameInfo" \in setup /\ "blockInfo" \notin setup /\ "single" \notin setup
    BY <1>4, FlagsAre DEF ReadbackRequired
  <2>2. caller.flags = {"frameInfo"}
    BY <1>1, <2>1
  <2> QED BY <1>1, <2>1, <2>2, FlagsAre DEF SafeCaller
<1> QED BY <1>1, <1>2, <1>3, <1>4

\* Where a readback spares the constants of stage 2 only, those of stage 1 are enough.
LEMMA ExactFits ==
  ASSUME SafeUse, TypeInv, Ready, ReadbackRequired(1), ~ReadbackRequired(0)
  PROVE  Short(1) = {}
<1>1. \A k \in Kinds(1) : request.count[k] <= maxCount[k]
  BY SafeFlags DEF Ready
<1>2. \A k \in Kinds(1) : request.count[k] \in Nat /\ maxCount[k] \in Nat
  BY RequestFacts, KindsAre DEF TypeInv, Measured
<1> QED BY <1>1, <1>2 DEF Short, Over

LEMMA GivenIs ==
  ASSUME NEW t \in 1 .. 2
  PROVE  Given(t) <=> ~ReadbackRequired(t - 1)
<1>1. t - 1 \in 0 .. 1 /\ (t - 1) + 1 = t
  OBVIOUS
<1> QED BY <1>1 DEF Given, ReadbackRequired

------------------------------------------------------------------------------
\* Sequences of commands.

LEMMA AppendIs ==
  ASSUME NEW S, NEW q \in Seq(S), NEW c \in S, c.op = "stage", ~Waits(q)
  PROVE  /\ q \o <<c>> \in Seq(S) /\ ~Waits(q \o <<c>>)
         /\ StagesIn(q \o <<c>>) = StagesIn(q) + 1
         /\ \A i \in 1 .. StagesIn(q) : (q \o <<c>>)[i] = q[i]
         /\ (q \o <<c>>)[StagesIn(q) + 1] = c
<1>1. /\ <<c>> \in Seq(S) /\ Len(<<c>>) = 1 /\ <<c>>[1] = c /\ Len(q) \in Nat
  BY LenProperties
<1>2. /\ q \o <<c>> \in Seq(S) /\ Len(q \o <<c>>) = Len(q) + 1
      /\ \A i \in 1 .. Len(q) : (q \o <<c>>)[i] = q[i]
      /\ (q \o <<c>>)[Len(q) + 1] = c
  BY <1>1, ConcatProperties
<1>3. ~Waits(q \o <<c>>)
  BY <1>2 DEF Waits
<1> QED BY <1>2, <1>3 DEF StagesIn

LEMMA AppendReadback ==
  ASSUME NEW S, NEW q \in Seq(S), NEW c \in S, c.op = "readback", ~Waits(q)
  PROVE  /\ q \o <<c>> \in Seq(S) /\ Waits(q \o <<c>>)
         /\ StagesIn(q \o <<c>>) = StagesIn(q)
         /\ \A i \in 1 .. StagesIn(q) : (q \o <<c>>)[i] = q[i]
<1>1. /\ <<c>> \in Seq(S) /\ Len(<<c>>) = 1 /\ <<c>>[1] = c /\ Len(q) \in Nat
  BY LenProperties
<1>2. /\ q \o <<c>> \in Seq(S) /\ Len(q \o <<c>>) = Len(q) + 1
      /\ \A i \in 1 .. Len(q) : (q \o <<c>>)[i] = q[i]
      /\ (q \o <<c>>)[Len(q) + 1] = c
  BY <1>1, ConcatProperties
<1>3. Waits(q \o <<c>>)
  <2>1. q \o <<c>> # <<>>
    BY <1>1, <1>2
  <2> QED BY <1>2, <2>1 DEF Waits
<1> QED BY <1>1, <1>2, <1>3 DEF StagesIn

LEMMA TailIs ==
  ASSUME NEW S, NEW q \in Seq(S), q # <<>>, q[1].op # "readback"
  PROVE  /\ Tail(q) \in Seq(S) /\ StagesIn(q) \in Nat \ {0}
         /\ Waits(Tail(q)) <=> Waits(q)
         /\ StagesIn(Tail(q)) = StagesIn(q) - 1
         /\ \A i \in 1 .. StagesIn(Tail(q)) : Tail(q)[i] = q[i + 1]
<1>1. /\ Tail(q) \in Seq(S) /\ Len(Tail(q)) = Len(q) - 1 /\ Len(q) \in Nat \ {0}
      /\ \A i \in 1 .. Len(q) - 1 : Tail(q)[i] = q[i + 1]
  BY HeadTailProperties, LenProperties, EmptySeq
<1>2. CASE Len(q) = 1
  <2>0. Len(Tail(q)) = 0
    BY <1>1, <1>2
  <2>1. Tail(q) = <<>>
    BY <1>1, <2>0, EmptySeq
  <2>2. ~Waits(q) /\ ~Waits(Tail(q))
    BY <1>2, <2>1 DEF Waits
  <2> QED BY <1>1, <1>2, <2>0, <2>2 DEF StagesIn
<1>3. CASE Len(q) # 1
  <2>0. Len(Tail(q)) \in 1 .. Len(q) - 1 /\ Len(Tail(q)) + 1 = Len(q)
    BY <1>1, <1>3
  <2>1. Tail(q) # <<>> /\ Tail(q)[Len(Tail(q))] = q[Len(q)]
    <3>1. Tail(q) # <<>>
      <4>1. Len(<<>>) = 0 /\ Len(Tail(q)) # 0
        BY <2>0
      <4> QED BY <4>1, Zenon
    <3> QED BY <1>1, <2>0, <3>1
  <2>2. Waits(Tail(q)) <=> Waits(q)
    BY <2>1 DEF Waits
  <2> QED BY <1>1, <1>3, <2>2 DEF StagesIn
<1> QED BY <1>2, <1>3

LEMMA TakenFrom ==
  ASSUME NEW S, NEW q \in Seq(S), NEW l \in Seq(S), q # <<>>
  PROVE  /\ q \o l \in Seq(S) /\ q \o l # <<>> /\ (q \o l)[1] = Head(q)
         /\ Tail(q) \o l = Tail(q \o l) /\ Tail(q) \in Seq(S)
<1>1. /\ Len(q) \in Nat \ {0} /\ Len(l) \in Nat /\ Tail(q) \in Seq(S)
      /\ Len(Tail(q)) = Len(q) - 1
      /\ \A i \in 1 .. Len(q) - 1 : Tail(q)[i] = q[i + 1]
  BY HeadTailProperties, LenProperties, EmptySeq
<1>2. /\ q \o l \in Seq(S) /\ Len(q \o l) = Len(q) + Len(l)
      /\ \A i \in 1 .. Len(q) + Len(l) :
           (q \o l)[i] = IF i <= Len(q) THEN q[i] ELSE l[i - Len(q)]
  BY ConcatProperties
<1>3. q \o l # <<>> /\ (q \o l)[1] = Head(q)
  BY <1>1, <1>2, EmptySeq
<1>4. /\ Tail(q \o l) \in Seq(S) /\ Len(Tail(q \o l)) = Len(q) + Len(l) - 1
      /\ \A i \in 1 .. Len(q) + Len(l) - 1 : Tail(q \o l)[i] = (q \o l)[i + 1]
  BY <1>2, <1>3, HeadTailProperties
<1>5. /\ Tail(q) \o l \in Seq(S) /\ Len(Tail(q) \o l) = Len(q) - 1 + Len(l)
      /\ \A i \in 1 .. Len(q) - 1 + Len(l) :
           (Tail(q) \o l)[i] = IF i <= Len(q) - 1 THEN Tail(q)[i] ELSE l[i - (Len(q) - 1)]
  BY <1>1, ConcatProperties
<1>6. ASSUME NEW i \in 1 .. Len(q) + Len(l) - 1
      PROVE  (Tail(q) \o l)[i] = Tail(q \o l)[i]
  <2>1. /\ i \in 1 .. Len(q) - 1 + Len(l) /\ i + 1 \in 1 .. Len(q) + Len(l)
        /\ (i + 1) - Len(q) = i - (Len(q) - 1)
    BY <1>1
  <2>2. CASE i <= Len(q) - 1
    <3>1. i \in 1 .. Len(q) - 1 /\ i + 1 <= Len(q)
      BY <1>1, <2>1, <2>2
    <3> QED BY <1>1, <1>2, <1>4, <1>5, <2>1, <2>2, <3>1
  <2>3. CASE ~(i <= Len(q) - 1)
    <3>1. ~(i + 1 <= Len(q))
      BY <1>1, <2>1, <2>3
    <3> QED BY <1>2, <1>4, <1>5, <2>1, <2>3, <3>1
  <2> QED BY <2>2, <2>3
<1>7. Len(Tail(q) \o l) = Len(Tail(q \o l))
  BY <1>1, <1>4, <1>5
<1>8. Tail(q) \o l = Tail(q \o l)
  BY <1>1, <1>4, <1>5, <1>6, <1>7, SeqEqual
<1> QED BY <1>1, <1>2, <1>3, <1>8

------------------------------------------------------------------------------
\* Before a stage is submitted nothing is pending and nothing has run.

Start ==
  /\ TypeInv /\ Unused
  /\ next = 0 /\ queue = <<>> /\ cmdList = <<>> /\ ran = NotRun

LEMMA NothingToDo ==
  ASSUME queue = <<>>, cmdList = <<>>
  PROVE  todo = <<>> /\ ~Waits(todo) /\ StagesIn(todo) = 0
<1>1. todo = <<>>
  BY ConcatEmptySeq, EmptySeq DEF todo
<1>2. ~Waits(todo)
  BY <1>1 DEF Waits
<1>3. Len(<<>>) = 0
  OBVIOUS
<1> QED BY <1>1, <1>2, <1>3 DEF StagesIn

LEMMA StartIs == Start => PipelineInv
<1> SUFFICES ASSUME Start PROVE PipelineInv
  OBVIOUS
<1>1. todo = <<>> /\ ~Waits(todo) /\ StagesIn(todo) = 0 /\ next = 0 /\ done = 0
  BY NothingToDo DEF Start, done
<1>2. Typed
  BY EmptySeq DEF Start, Typed
<1>3. ~ReadbackRequired(next - 1)
  BY <1>1 DEF ReadbackRequired
<1>4. QueueOK
  BY <1>1, <1>3 DEF QueueOK
<1>5. SetupOK /\ RoomOK /\ SizedByThisRequest
  BY <1>1 DEF SetupOK, RoomOK, SizedByThisRequest
<1>6. RanOK
  BY <1>1, KindsAre DEF RanOK, Start, NotRun
<1> QED BY <1>2, <1>4, <1>5, <1>6 DEF Start, PipelineInv

LEMMA StartOf ==
  ASSUME PipelineInv, next = 0
  PROVE  Start
<1>1. todo \in Seq(Command) /\ Len(todo) \in Nat /\ queue \in Seq(Command) /\ cmdList \in Seq(Command)
  BY ConcatProperties, LenProperties DEF PipelineInv, Typed, todo
<1>2. ~Waits(todo)
  BY DEF PipelineInv, QueueOK, ReadbackRequired
<1>3. done = 0 /\ Len(todo) = 0
  BY <1>1, <1>2 DEF PipelineInv, QueueOK, done, StagesIn
<1>4. todo = <<>>
  BY <1>1, <1>3, EmptySeq
<1>5. queue = <<>> /\ cmdList = <<>>
  BY <1>1, <1>4, ConcatEqualIffEmpty DEF todo
<1>6. ran = NotRun
  <2>1. \A s \in Stages : ran[s] = NotRun[s]
    BY <1>3, KindsAre DEF PipelineInv, RanOK
  <2>2. ran = [s \in Stages |-> ran[s]] /\ NotRun = [s \in Stages |-> NotRun[s]]
    BY DEF PipelineInv, RanOK, NotRun
  <2> QED BY <2>1, <2>2
<1> QED BY <1>5, <1>6 DEF Start, PipelineInv

LEMMA InitStarts == Init => Start
<1> SUFFICES ASSUME Init PROVE Start
  OBVIOUS
<1>1. TypeInv
  BY InitTypes
<1> QED BY <1>1 DEF Init, Start, Unused

LEMMA SetupKeeps ==
  ASSUME PipelineInv, TypeInv',
         (\E s \in 1 .. 2 : SetupConstants(s)) \/ SetupAllStageSubmission
  PROVE  PipelineInv'
<1>1. /\ next = 0
      /\ UNCHANGED <<caller, res, next, queue, cmdList, ran>>
  BY DEF SetupConstants, SetupAllStageSubmission, gpuVars
<1>2. Start
  BY <1>1, StartOf
<1>3. Start'
  BY <1>1, <1>2 DEF Start, Unused, NotRun
<1> QED BY <1>3, StartIs, PTL

LEMMA NextRequestStarts ==
  ASSUME SafeUse, PipelineInv, TypeInv', NextRequest
  PROVE  PipelineInv'
<1>1. queue' = <<>> /\ cmdList' = <<>> /\ next' = 0 /\ ran' = NotRun'
  BY DEF NextRequest, Finished, Idle, NotRun
<1>2. Unused'
  BY DEF NextRequest, SafeUse, Unused
<1>3. Start'
  BY <1>1, <1>2 DEF Start
<1> QED BY <1>3, StartIs, PTL

LEMMA SamePending ==
  ASSUME PipelineInv, todo' = todo,
         UNCHANGED <<caller, request, setup, maxCount, res, next, gpuVars>>
  PROVE  QueueOK' /\ SetupOK' /\ RoomOK' /\ Unused' /\ SizedByThisRequest' /\ RanOK'
<1>1. done' = done /\ (Waits(todo) <=> Waits(todo)') /\ StagesIn(todo)' = StagesIn(todo)
  BY DEF done, Waits, StagesIn
<1>2. QueueOK'
  BY <1>1 DEF PipelineInv, QueueOK, StageCommand, Says, Given, ReadbackRequired, gpuVars
<1>3. SetupOK' /\ RoomOK' /\ Unused' /\ SizedByThisRequest'
  BY DEF PipelineInv, SetupOK, Ready, RoomOK, Unused, SizedByThisRequest
<1>4. RanOK'
  BY <1>1 DEF PipelineInv, RanOK, Stage0Done, Stage1Done, Stage2Done, Short, Over, Room,
     ReadbackRequired, gpuVars, NotRun
<1> QED BY <1>2, <1>3, <1>4

\* Recorded or submitted, the same is pending.
LEMMA ExecuteKeeps ==
  ASSUME PipelineInv, TypeInv', ExecuteCmdList
  PROVE  PipelineInv'
<1>1. /\ queue \in Seq(Command) /\ cmdList \in Seq(Command) /\ queue \o cmdList \in Seq(Command)
      /\ queue' = queue \o cmdList /\ cmdList' = <<>>
  BY ConcatProperties DEF PipelineInv, Typed, ExecuteCmdList
<1>2. todo' = todo
  BY <1>1, ConcatEmptySeq DEF todo
<1>3. Typed'
  BY <1>1, EmptySeq DEF Typed
<1>4. UNCHANGED <<caller, request, setup, maxCount, res, next, gpuVars>>
  BY DEF ExecuteCmdList, ctxVars
<1> QED BY <1>2, <1>3, <1>4, SamePending DEF PipelineInv

------------------------------------------------------------------------------
\* Submission.

Cmd(s, max, r) ==
  [op |-> "stage", stage |-> s, max |-> max,
   room |-> [k \in RoomKinds(s) |->
               r[CHOOSE t \in 1 .. s : k \in Kinds(t)].buffers.count[k]],
   predicated |-> s > 0 /\ ~ReadbackRequired(s - 1)]

ToRead == [op |-> "readback"]

Recorded(c, s) == <<c>> \o (IF ReadbackRequired(s) THEN <<ToRead>> ELSE <<>>)

\* What is recorded for a stage, its buffers being as large as the maxima.
LEMMA RecordIs ==
  ASSUME NEW s \in Stages, NEW max \in [Counted -> Nat], NEW r,
         \A t \in 1 .. 2 : t <= s => r[t].buffers.count = [k \in Kinds(t) |-> max[k]]
  PROVE  /\ Record(s, max, r) = Recorded(Cmd(s, max, r), s)
         /\ Cmd(s, max, r) \in Command /\ Says(Cmd(s, max, r), s, max)
<1>1. Record(s, max, r) = Recorded(Cmd(s, max, r), s)
  BY DEF Record, Recorded, Cmd, ToRead, RoomKinds
<1>2. ASSUME NEW k \in RoomKinds(s)
      PROVE  /\ r[CHOOSE t \in 1 .. s : k \in Kinds(t)].buffers.count[k] = max[k]
             /\ max[k] \in Nat
  <2> DEFINE u == CHOOSE t \in 1 .. s : k \in Kinds(t)
  <2>1. \E t : t \in 1 .. s /\ k \in Kinds(t)
    BY DEF RoomKinds
  <2>2. u \in 1 .. s /\ k \in Kinds(u)
    BY <2>1
  <2> HIDE DEF u
  <2>3. u \in 1 .. 2 /\ u <= s /\ k \in Counted
    BY <2>2, KindsAre
  <2>4. r[u].buffers.count[k] = max[k]
    BY <2>2, <2>3
  <2> QED BY <2>3, <2>4 DEF u
<1>3. Cmd(s, max, r).room = [k \in RoomKinds(s) |-> max[k]]
  BY <1>2 DEF Cmd
<1>4. Cmd(s, max, r).room \in UNION {[RoomKinds(t) -> Nat] : t \in Stages}
  BY <1>2, <1>3
<1>5. /\ Cmd(s, max, r).op = "stage" /\ Cmd(s, max, r).stage = s /\ Cmd(s, max, r).max = max
      /\ Cmd(s, max, r).predicated <=> s > 0 /\ ~ReadbackRequired(s - 1)
  BY DEF Cmd
<1>6. Cmd(s, max, r) \in Command
  BY <1>4 DEF Cmd, Command
<1> QED BY <1>1, <1>3, <1>5, <1>6 DEF Says

\* The queue l is q with the record of a stage at its end.
Appended(l, q, c, s) ==
  /\ l \in Seq(Command) /\ (Waits(l) <=> ReadbackRequired(s))
  /\ StagesIn(l) = StagesIn(q) + 1
  /\ \A i \in 1 .. StagesIn(q) : l[i] = q[i]
  /\ l[StagesIn(q) + 1] = c

LEMMA RecordAppended ==
  ASSUME NEW q \in Seq(Command), ~Waits(q), NEW s \in Stages, NEW c \in Command,
         c.op = "stage", NEW l, l = q \o Recorded(c, s)
  PROVE  Appended(l, q, c, s)
<1>1. ToRead \in Command /\ ToRead.op = "readback"
  BY DEF ToRead, Command
<1>2. <<c>> \in Seq(Command) /\ <<ToRead>> \in Seq(Command) /\ Len(q) \in Nat
  BY <1>1, LenProperties
<1>3. StagesIn(q) \in Nat
  BY <1>2 DEF StagesIn
<1> DEFINE m == q \o <<c>>
<1>4. /\ m \in Seq(Command) /\ ~Waits(m) /\ StagesIn(m) = StagesIn(q) + 1
      /\ \A i \in 1 .. StagesIn(q) : m[i] = q[i]
      /\ m[StagesIn(q) + 1] = c
  BY AppendIs
<1>5. CASE ReadbackRequired(s)
  <2>1. l = m \o <<ToRead>>
    BY <1>2, <1>5, ConcatAssociative DEF Recorded
  <2> HIDE DEF m
  <2>2. /\ l \in Seq(Command) /\ Waits(l) /\ StagesIn(l) = StagesIn(m)
        /\ \A i \in 1 .. StagesIn(m) : l[i] = m[i]
    <3>1. /\ m \o <<ToRead>> \in Seq(Command) /\ Waits(m \o <<ToRead>>)
          /\ StagesIn(m \o <<ToRead>>) = StagesIn(m)
          /\ \A i \in 1 .. StagesIn(m) : (m \o <<ToRead>>)[i] = m[i]
      BY <1>1, <1>4, AppendReadback
    <3> QED BY <2>1, <3>1, Zenon
  <2>3. StagesIn(q) + 1 \in 1 .. StagesIn(m)
    BY <1>3, <1>4
  <2>4. \A i \in 1 .. StagesIn(q) : i \in 1 .. StagesIn(m)
    BY <1>3, <1>4
  <2>5. l[StagesIn(q) + 1] = c
    BY <1>4, <2>2, <2>3, Zenon
  <2>6. \A i \in 1 .. StagesIn(q) : l[i] = q[i]
    BY <1>4, <2>2, <2>4, Zenon
  <2> QED BY <1>4, <1>5, <2>2, <2>5, <2>6 DEF Appended
<1>6. CASE ~ReadbackRequired(s)
  <2>1. l = m
    BY <1>2, <1>6, ConcatEmptySeq DEF Recorded
  <2> HIDE DEF m
  <2> QED BY <1>4, <1>6, <2>1 DEF Appended
<1> QED BY <1>5, <1>6

\* The sizes a stage is submitted with: new ones only where the CPU has waited.
LEMMA SubmitSizes ==
  ASSUME SafeUse, PipelineInv, TypeInv', NEW s \in Stages, SubmitStage(s)
  PROVE  /\ todo \in Seq(Command) /\ ~Waits(todo)
         /\ s > 0 /\ ReadbackRequired(s - 1)
            => todo = <<>> /\ done = s /\ cpuCounters = counters
         /\ \A t \in 1 .. 2 : t # s \/ ~ReadbackRequired(s - 1) =>
              \A k \in Kinds(t) : maxCount'[k] = maxCount[k]
         /\ \A k \in Kinds(s) : s > 0 /\ ReadbackRequired(s - 1) =>
              maxCount'[k] = AtLeast(cpuCounters[k], MinCount[k])
         /\ \A t \in 1 .. 2 : Flag[t] \in setup =>
              \A k \in Kinds(t) : maxCount'[k] = maxCount[k]
         /\ RoomOK' /\ Unused'
<1>1. /\ caller.way = "stages" /\ Ready /\ next = s /\ next' = s + 1
      /\ maxCount' = MaxAfter({s}) /\ UNCHANGED <<caller, setup>>
      /\ s > 0 /\ ReadbackRequired(s - 1) => cmdList = <<>> /\ queue = <<>>
  BY DEF SubmitStage
<1>2. "single" \notin setup
  BY <1>1, SafeFlags DEF PipelineInv
<1>3. todo \in Seq(Command) /\ ~Waits(todo)
  <2>1. todo \in Seq(Command)
    BY ConcatProperties DEF PipelineInv, Typed, todo
  <2>2. CASE s > 0 /\ ReadbackRequired(s - 1)
    BY <1>1, <2>1, <2>2, NothingToDo
  <2>3. CASE ~(s > 0 /\ ReadbackRequired(s - 1))
    <3>1. ~ReadbackRequired(next - 1)
      BY <1>1, <2>3, KindsAre DEF ReadbackRequired
    <3> QED BY <2>1, <3>1 DEF PipelineInv, QueueOK
  <2> QED BY <2>2, <2>3
<1>4. ASSUME s > 0, ReadbackRequired(s - 1)
      PROVE  todo = <<>> /\ done = s /\ cpuCounters = counters
  <2>1. todo = <<>> /\ ~Waits(todo) /\ StagesIn(todo) = 0
    BY <1>1, <1>4, NothingToDo
  <2>2. done = s
    BY <1>1, <2>1, KindsAre DEF done
  <2> QED BY <1>1, <1>4, <2>1, <2>2 DEF PipelineInv, QueueOK
<1>5. {s} \in SUBSET Stages /\ Measured
  BY DEF PipelineInv, TypeInv
<1>6. /\ \A t \in 1 .. 2 : \A k \in Kinds(t) :
           maxCount'[k] = IF t = s THEN Recomputed(t)[k] ELSE maxCount[k]
      /\ \A t \in 1 .. 2 : \A k \in Kinds(t) :
           Flag[t] \in setup => maxCount'[k] = maxCount[k]
  BY <1>1, <1>5, MaxAfterIs
<1>7. ASSUME NEW t \in 1 .. 2, t # s \/ ~ReadbackRequired(s - 1), NEW k \in Kinds(t)
      PROVE  maxCount'[k] = maxCount[k]
  <2>1. CASE t # s
    BY <1>6, <2>1
  <2>2. CASE t = s
    <3>1. Flag[t] \in setup
      BY <1>2, <1>7, <2>2, GivenIs DEF Given
    <3> QED BY <1>6, <3>1
  <2> QED BY <2>1, <2>2
<1>8. ASSUME NEW k \in Kinds(s), s > 0, ReadbackRequired(s - 1)
      PROVE  maxCount'[k] = AtLeast(cpuCounters[k], MinCount[k])
  <2>1. s \in 1 .. 2 /\ Flag[s] \notin setup
    BY <1>8, KindsAre DEF ReadbackRequired
  <2>2. maxCount'[k] = Recomputed(s)[k]
    BY <1>6, <2>1
  <2> QED BY <1>2, <2>1, <2>2 DEF Recomputed
<1>9. /\ \A t \in Stages \ {s} : res'[t] = res[t]
      /\ res'[s] = IF caller.memory = "external" THEN ExternalStage(res[s], Need(s))
                   ELSE InternalStage(res[s], Need(s))
  BY SubmitStageTypes DEF PipelineInv
<1>10. res'[s].buffers = [at |-> 0, count |-> Need(s)]
  <2>1. res[s] \in Resource(s) /\ Need(s) \in Sizes(s)
    BY <1>5, NeedIs DEF PipelineInv, TypeInv, Kept
  <2>2. CASE caller.memory = "external"
    BY <1>9, <2>1, <2>2, ExternalStageIs DEF Resources
  <2>3. CASE caller.memory # "external"
    <3>1. caller.memory = "internal"
      BY <2>3, CallerAssumption DEF PipelineInv, TypeInv, Asked
    <3>2. res[s] = NoResources[s]
      BY <1>1, <3>1, KindsAre DEF PipelineInv, Unused
    <3> QED BY <1>9, <2>1, <2>3, <3>2, InternalStageIs DEF Resources
  <2> QED BY <2>2, <2>3
<1>11. RoomOK'
  <2> SUFFICES ASSUME NEW t \in 1 .. 2, t < next'
               PROVE  res'[t].buffers.count = [k \in Kinds(t) |-> maxCount'[k]]
    BY DEF RoomOK
  <2>1. CASE t = s
    <3>1. Need(s) = Recomputed(s) /\ Recomputed(s) = [k \in Kinds(s) |-> Recomputed(s)[k]]
      BY <2>1 DEF Need, Recomputed
    <3>2. \A k \in Kinds(s) : maxCount'[k] = Recomputed(s)[k]
      BY <1>6, <2>1
    <3> QED BY <1>10, <2>1, <3>1, <3>2
  <2>2. CASE t # s
    <3>1. t < next /\ t \in Stages \ {s}
      BY <1>1, <2>2, KindsAre
    <3>2. res'[t].buffers.count = [k \in Kinds(t) |-> maxCount[k]]
      BY <1>9, <3>1 DEF PipelineInv, RoomOK
    <3> QED BY <1>6, <2>2, <3>2
  <2> QED BY <2>1, <2>2
<1>12. Unused'
  BY <1>1, <1>9, KindsAre DEF PipelineInv, Unused, NoResources
<1> QED BY <1>3, <1>4, <1>6, <1>7, <1>8, <1>11, <1>12

\* What was decided of earlier stages does not change with the sizes of this one.
LEMMA SubmitKeepsRan ==
  ASSUME SafeUse, PipelineInv, TypeInv', NEW s \in Stages, Ready, next = s, done \in 0 .. s,
         \A t \in 1 .. 2 : t # s \/ ~ReadbackRequired(s - 1) =>
           \A k \in Kinds(t) : maxCount'[k] = maxCount[k],
         done' = done, UNCHANGED <<request, setup, gpuVars>>
  PROVE  RanOK'
<1>1. UNCHANGED <<counters, predicate, ran>> /\ (\A t \in Stages : NotRun'[t] = NotRun[t])
  BY DEF gpuVars, NotRun
<1>2. (ReadbackRequired(0) <=> ReadbackRequired(0)') /\ (ReadbackRequired(1) <=> ReadbackRequired(1)')
  BY DEF ReadbackRequired
<1>3. ASSUME NEW t \in 1 .. 2, t # s \/ ~ReadbackRequired(s - 1)
      PROVE  Short(t)' = Short(t)
  BY <1>3 DEF Short, Over
<1>4. ReadbackRequired(0) => ReadbackRequired(1)
  BY SafeFlags DEF PipelineInv
<1>5. ASSUME NEW t \in Stages, t < done, ran[t].did
      PROVE  ran[t].room = Room(t)'
  <2>1. \A k \in RoomKinds(t) : maxCount'[k] = maxCount[k]
    <3> SUFFICES ASSUME NEW k \in RoomKinds(t) PROVE maxCount'[k] = maxCount[k]
      OBVIOUS
    <3>1. PICK u \in 1 .. t : k \in Kinds(u)
      BY DEF RoomKinds
    <3>2. u \in 1 .. 2 /\ u # s
      BY <1>5, <3>1, KindsAre
    <3> QED BY <3>1, <3>2
  <2>2. ran[t].room = Room(t)
    BY <1>5 DEF PipelineInv, RanOK
  <2> QED BY <2>1, <2>2 DEF Room
<1>6. done >= 1 => Stage0Done'
  <2>1. HAVE done >= 1
  <2>2. Stage0Done
    BY <2>1 DEF PipelineInv, RanOK
  <2>3. \A k \in Kinds(1) : counters'[k] = request'.count[k]
    BY <1>1, <2>2 DEF Stage0Done
  <2>4. ~ReadbackRequired(0) => Short(1)' = Short(1)
    <3>1. CASE s = 1
      BY <1>3, <3>1
    <3>2. CASE s # 1
      BY <1>3, <3>2
    <3> QED BY <3>1, <3>2
  <2>5. ~ReadbackRequired(1) => Short(1)' = Short(1) /\ Short(2)' = Short(2)
    <3>1. CASE s = 2
      BY <1>3, <1>4, <2>4, <3>1
    <3>2. CASE s # 2
      BY <1>3, <1>4, <2>4, <3>2
    <3> QED BY <3>1, <3>2
  <2>6. ~ReadbackRequired(0)' => predicate'[1] = Short(1)'
    BY <1>1, <1>2, <2>2, <2>4 DEF Stage0Done
  <2>7. ~ReadbackRequired(1)' =>
          predicate'[2] = Short(1)' \cup (IF ran'[1].did THEN Short(2)' ELSE {})
    BY <1>1, <1>2, <2>2, <2>5 DEF Stage0Done
  <2> QED BY <2>3, <2>6, <2>7 DEF Stage0Done
<1>7. done >= 2 => Stage1Done'
  <2>1. HAVE done >= 2
  <2>2. Stage1Done /\ s # 1
    BY <2>1, KindsAre DEF PipelineInv, RanOK
  <2>3. Short(1)' = Short(1)
    BY <1>3, <2>2
  <2> QED BY <1>1, <1>2, <2>2, <2>3 DEF Stage1Done
<1>8. done # 3
  BY KindsAre
<1>9. done' # 3 /\ done' = done
  BY <1>8
<1>10. \A t \in Stages : t >= done' => ran'[t] = NotRun'[t]
  BY <1>1 DEF PipelineInv, RanOK
<1>11. ran' = [t \in Stages |-> ran'[t]]
  BY <1>1 DEF PipelineInv, RanOK
<1>12. \A t \in Stages : t < done' /\ ran'[t].did => ran'[t].room = Room(t)'
  BY <1>1, <1>5
<1> QED BY <1>6, <1>7, <1>9, <1>10, <1>11, <1>12 DEF RanOK

LEMMA SubmitStageKeeps ==
  ASSUME SafeUse, PipelineInv, TypeInv', NEW s \in Stages, SubmitStage(s)
  PROVE  PipelineInv'
<1>1. /\ caller.way = "stages" /\ Ready /\ next = s /\ next' = s + 1
      /\ UNCHANGED <<caller, request, setup, queue, gpuVars>>
      /\ cmdList' = cmdList \o Record(s, maxCount', res')
  BY DEF SubmitStage
<1>2. /\ todo \in Seq(Command) /\ ~Waits(todo) /\ RoomOK' /\ Unused'
      /\ s > 0 /\ ReadbackRequired(s - 1)
            => todo = <<>> /\ done = s /\ cpuCounters = counters
  BY SubmitSizes
<1>3. /\ \A t \in 1 .. 2 : t # s \/ ~ReadbackRequired(s - 1) =>
           \A k \in Kinds(t) : maxCount'[k] = maxCount[k]
      /\ \A t \in 1 .. 2 : Flag[t] \in setup => \A k \in Kinds(t) : maxCount'[k] = maxCount[k]
  BY SubmitSizes
<1>4. Len(todo) \in Nat /\ StagesIn(todo) = Len(todo) /\ done = s - Len(todo) /\ done \in 0 .. s
  BY <1>1, <1>2, LenProperties DEF StagesIn, done, PipelineInv, QueueOK
<1>5. maxCount' \in [Counted -> Nat]
  BY DEF TypeInv, Measured
<1>6. \A t \in 1 .. 2 : t <= s => res'[t].buffers.count = [k \in Kinds(t) |-> maxCount'[k]]
  BY <1>1, <1>2, KindsAre DEF RoomOK
<1>7. PICK c \in Command : /\ Record(s, maxCount', res') = Recorded(c, s)
                           /\ Says(c, s, maxCount')
  BY <1>5, <1>6, RecordIs
<1> DEFINE rec == Recorded(c, s)
<1>8. rec \in Seq(Command)
  <2>1. ToRead \in Command
    BY DEF ToRead, Command
  <2>2. <<c>> \in Seq(Command) /\ <<ToRead>> \in Seq(Command) /\ <<>> \in Seq(Command)
    BY <1>7, <2>1
  <2> QED BY <2>2, ConcatProperties DEF Recorded
<1>9. Typed' /\ todo' = todo \o rec
  <2>1. queue \in Seq(Command) /\ cmdList \in Seq(Command)
    BY DEF PipelineInv, Typed
  <2>2. todo' = queue \o (cmdList \o rec)
    BY <1>1, <1>7 DEF todo
  <2> HIDE DEF rec
  <2>3. todo' = todo \o rec
    BY <1>8, <2>1, <2>2, ConcatAssociative DEF todo
  <2>4. cmdList' \in Seq(Command)
    BY <1>1, <1>7, <1>8, <2>1, ConcatProperties DEF rec
  <2> QED BY <1>1, <2>1, <2>3, <2>4 DEF Typed
<1>10. /\ Waits(todo') <=> ReadbackRequired(s)
       /\ StagesIn(todo') = Len(todo) + 1
       /\ \A i \in 1 .. Len(todo) : todo'[i] = todo[i]
       /\ todo'[Len(todo) + 1] = c
  <2>1. c.op = "stage"
    BY <1>7 DEF Says
  <2>2. todo' = todo \o Recorded(c, s)
    BY <1>9
  <2>3. Appended(todo', todo, c, s)
    BY <1>2, <2>1, <2>2, RecordAppended
  <2> QED BY <1>4, <2>3 DEF Appended
<1>11. done' = done
  <2>1. StagesIn(todo)' = Len(todo) + 1
    BY <1>10 DEF StagesIn, Waits
  <2> QED BY <1>1, <1>4, <2>1, KindsAre DEF done
<1>12. \A t : (ReadbackRequired(t) <=> ReadbackRequired(t)') /\ (Given(t) <=> Given(t)')
  BY <1>1 DEF ReadbackRequired, Given
<1>13. ASSUME NEW i \in 1 .. Len(todo) + 1
       PROVE  Says(todo'[i], done + i - 1, maxCount')
  <2>1. CASE i = Len(todo) + 1
    <3>1. done + i - 1 = s
      BY <1>4, <2>1, KindsAre
    <3> QED BY <1>7, <1>10, <2>1, <3>1
  <2>2. CASE i # Len(todo) + 1
    <3>1. i \in 1 .. Len(todo) /\ done + i - 1 \in Stages /\ done + i - 1 < s
      BY <1>4, <2>2, KindsAre
    <3>2. Says(todo'[i], done + i - 1, maxCount)
      BY <1>4, <1>10, <3>1 DEF PipelineInv, QueueOK, StageCommand
    <3>3. todo # <<>>
      BY <1>4, <3>1
    <3>4. ~(s > 0 /\ ReadbackRequired(s - 1)) /\ s \in 1 .. 2
      BY <1>2, <1>4, <3>1, <3>3, KindsAre
    <3>5. \A t \in 1 .. 2 : \A k \in Kinds(t) : maxCount'[k] = maxCount[k]
      BY <1>3, <3>4
    <3>6. \A k \in RoomKinds(done + i - 1) : maxCount'[k] = maxCount[k]
      BY <3>1, <3>5, KindsAre DEF RoomKinds
    <3> QED BY <3>2, <3>5, <3>6 DEF Says
  <2> QED BY <2>1, <2>2
<1>14. QueueOK'
  <2>1. \A i \in 1 .. StagesIn(todo)' : StageCommand(todo[i], done + i - 1)'
    <3> SUFFICES ASSUME NEW i \in 1 .. Len(todo) + 1
                 PROVE  StageCommand(todo[i], done + i - 1)'
      BY <1>10 DEF StagesIn, Waits
    <3>1. Says(todo'[i], done + i - 1, maxCount')
      BY <1>13
    <3> QED BY <1>11, <1>12, <3>1 DEF StageCommand, Says
  <2>2. Waits(todo)' <=> ReadbackRequired(s)
    BY <1>10 DEF Waits
  <2>3. ReadbackRequired(next - 1)' <=> ReadbackRequired(s)
    <3>1. next' - 1 = s
      BY <1>1, KindsAre
    <3> QED BY <1>1, <3>1 DEF ReadbackRequired
  <2>4. done' \in 0 .. next'
    BY <1>1, <1>4, <1>11, KindsAre
  <2> QED BY <2>1, <2>2, <2>3, <2>4 DEF QueueOK
<1>15. SetupOK'
  <2>1. Ready'
    <3>1. ASSUME caller.exact, NEW t \in 1 .. 2, Flag[t] \in setup, NEW k \in Kinds(t)
          PROVE  request.count[k] <= maxCount'[k]
      BY <1>1, <1>3, <3>1 DEF Ready
    <3> QED BY <1>1, <3>1 DEF Ready
  <2> QED BY <1>1, <2>1 DEF SetupOK
<1>16. RanOK'
  BY <1>1, <1>3, <1>4, <1>11, SubmitKeepsRan
<1>17. SizedByThisRequest'
  <2> SUFFICES ASSUME NEW t \in 1 .. 2, t < next', Flag[t] \notin setup, "single" \notin setup,
                      NEW k \in Kinds(t)
               PROVE  maxCount'[k] = AtLeast(request.count[k], MinCount[k])
    BY <1>1 DEF SizedByThisRequest, AtLeast
  <2>1. CASE t # s
    <3>1. t < next
      BY <1>1, <2>1, KindsAre
    <3>2. maxCount[k] = AtLeast(request.count[k], MinCount[k])
      BY <3>1 DEF PipelineInv, SizedByThisRequest
    <3> QED BY <1>3, <2>1, <3>2
  <2>2. CASE t = s
    <3>1. ReadbackRequired(s - 1)
      BY <2>2, GivenIs DEF Given
    <3>2. done = s /\ cpuCounters = counters
      BY <1>2, <2>2, <3>1
    <3>3. maxCount'[k] = AtLeast(cpuCounters[k], MinCount[k])
      BY <2>2, <3>1, SubmitSizes
    <3>4. counters[k] = request.count[k]
      <4>1. CASE t = 1
        BY <2>2, <3>2, <4>1 DEF PipelineInv, RanOK, Stage0Done
      <4>2. CASE t = 2
        <5>1. ReadbackRequired(1)
          BY <2>2, <3>1, <4>2
        <5>2. ReadbackRequired(0) \/ Short(1) = {}
          BY <1>1, <5>1, ExactFits DEF PipelineInv
        <5>3. counters = [j \in Counted |-> request.count[j]]
          BY <2>2, <3>2, <4>2, <5>2 DEF PipelineInv, RanOK, Stage1Done
        <5> QED BY <5>3, KindsAre
      <4> QED BY <4>1, <4>2
    <3> QED BY <3>2, <3>3, <3>4
  <2> QED BY <2>1, <2>2
<1> QED BY <1>2, <1>9, <1>14, <1>15, <1>16, <1>17 DEF PipelineInv

LEMMA ThreeOf ==
  ASSUME NEW S, NEW a \in S, NEW b \in S, NEW c \in S
  PROVE  (<<a>> \o <<b>>) \o <<c>> = <<a, b, c>> /\ <<a, b, c>> \in Seq(S)
<1>1. /\ <<a>> \in Seq(S) /\ <<b>> \in Seq(S) /\ <<c>> \in Seq(S)
      /\ <<a, b>> \in Seq(S) /\ <<a, b, c>> \in Seq(S)
  OBVIOUS
<1>2. <<a>> \o <<b>> = <<a, b>>
  <2>1. /\ <<a>> \o <<b>> \in Seq(S) /\ Len(<<a>> \o <<b>>) = 2
        /\ \A i \in 1 .. 2 : (<<a>> \o <<b>>)[i] = <<a, b>>[i]
    BY <1>1, ConcatProperties
  <2> QED BY <1>1, <2>1, SeqEqual
<1>3. <<a, b>> \o <<c>> = <<a, b, c>>
  <2>1. /\ <<a, b>> \o <<c>> \in Seq(S) /\ Len(<<a, b>> \o <<c>>) = 3
        /\ \A i \in 1 .. 3 : (<<a, b>> \o <<c>>)[i] = <<a, b, c>>[i]
    BY <1>1, ConcatProperties
  <2> QED BY <1>1, <2>1, SeqEqual
<1> QED BY <1>1, <1>2, <1>3

\* All stages at once: nothing is read back between them.
LEMMA SubmitAllKeeps ==
  ASSUME SafeUse, PipelineInv, TypeInv', SubmitAllStages
  PROVE  PipelineInv'
<1>1. /\ caller.way = "all" /\ Ready /\ next = 0 /\ next' = 3 /\ ~AnyReadbackRequired
      /\ UNCHANGED <<caller, request, setup, queue, gpuVars>>
      /\ maxCount' = MaxAfter(Stages)
      /\ res' = IF caller.memory = "external" THEN ExternalAll ELSE InternalAll
      /\ cmdList' = Record(0, maxCount', res') \o Record(1, maxCount', res')
                                               \o Record(2, maxCount', res')
  BY DEF SubmitAllStages
<1>2. Start
  BY <1>1, StartOf
<1>3. \A t : ~ReadbackRequired(t)
  BY <1>1, FlagsAre DEF AnyReadbackRequired, ReadbackRequired
<1>4. Measured /\ Stages \in SUBSET Stages /\ \A t \in Stages : res[t] \in Resource(t)
  BY DEF PipelineInv, TypeInv, Kept
<1>5. /\ \A t \in 1 .. 2 : \A k \in Kinds(t) : maxCount'[k] = Recomputed(t)[k]
      /\ \A t \in 1 .. 2 : \A k \in Kinds(t) :
           Flag[t] \in setup => maxCount'[k] = maxCount[k]
  <2>1. \A t \in 1 .. 2 : t \in Stages
    BY KindsAre
  <2> QED BY <1>1, <1>4, <2>1, MaxAfterIs
<1>6. \A t \in Stages : res'[t].buffers.count = Need(t)
  <2> SUFFICES ASSUME NEW t \in Stages PROVE res'[t].buffers.count = Need(t)
    OBVIOUS
  <2>1. ExternalAll[t].buffers.count = Need(t)
    <3>1. ExternalAll[t] = Part(t, res[t].byteCount)
      BY <1>4, ExternalAllIs
    <3> QED BY <3>1 DEF Part, Resources
  <2>2. InternalAll[t].buffers.count = Need(t)
    BY <1>4, InternalAllIs
  <2> QED BY <1>1, <2>1, <2>2
<1>7. \A t \in 1 .. 2 : res'[t].buffers.count = [k \in Kinds(t) |-> maxCount'[k]]
  <2> SUFFICES ASSUME NEW t \in 1 .. 2
               PROVE  res'[t].buffers.count = [k \in Kinds(t) |-> maxCount'[k]]
    OBVIOUS
  <2>1. Need(t) = Recomputed(t) /\ Recomputed(t) = [k \in Kinds(t) |-> Recomputed(t)[k]]
    BY DEF Need, Recomputed
  <2> QED BY <1>5, <1>6, <2>1, KindsAre
<1>8. maxCount' \in [Counted -> Nat]
  BY DEF TypeInv, Measured
<1> DEFINE c(s) == Cmd(s, maxCount', res')
<1>9. ASSUME NEW s \in Stages
      PROVE  /\ Record(s, maxCount', res') = <<c(s)>> \o <<>>
             /\ c(s) \in Command /\ Says(c(s), s, maxCount')
  BY <1>3, <1>7, <1>8, RecordIs DEF Recorded
<1> HIDE DEF c
<1>10. /\ cmdList' = <<c(0), c(1), c(2)>> /\ cmdList' \in Seq(Command)
       /\ c(0) \in Command /\ c(1) \in Command /\ c(2) \in Command
  <2>1. c(0) \in Command /\ c(1) \in Command /\ c(2) \in Command
    BY <1>9, KindsAre
  <2>2. \A s \in Stages : Record(s, maxCount', res') = <<c(s)>>
    BY <1>9, <2>1, KindsAre
  <2>3. cmdList' = (<<c(0)>> \o <<c(1)>>) \o <<c(2)>>
    BY <1>1, <2>2, KindsAre
  <2> QED BY <2>1, <2>3, ThreeOf
<1>11. Typed' /\ todo' = <<c(0), c(1), c(2)>>
  <2>1. queue' = <<>> /\ <<>> \in Seq(Command)
    BY <1>1, <1>2 DEF Start
  <2>2. todo' = <<>> \o cmdList'
    BY <2>1 DEF todo
  <2>3. todo' = cmdList'
    BY <1>10, <2>2, ConcatEmptySeq
  <2> QED BY <1>10, <2>1, <2>3 DEF Typed
<1>12. /\ ~Waits(todo') /\ StagesIn(todo') = 3
       /\ \A i \in 1 .. 3 : todo'[i] = c(i - 1)
  <2>1. Len(todo') = 3 /\ todo'[1] = c(0) /\ todo'[2] = c(1) /\ todo'[3] = c(2)
    BY <1>11
  <2>2. c(2).op = "stage"
    BY <1>9, KindsAre DEF Says
  <2>3. ~Waits(todo')
    BY <2>1, <2>2 DEF Waits
  <2>4. \A i \in 1 .. 3 : todo'[i] = c(i - 1)
    BY <2>1
  <2> QED BY <2>1, <2>3, <2>4 DEF StagesIn
<1>13. done' = 0
  <2>1. StagesIn(todo)' = 3
    BY <1>12 DEF StagesIn, Waits
  <2> QED BY <1>1, <2>1 DEF done
<1>14. \A t : ~ReadbackRequired(t)' /\ (Given(t) <=> Given(t)')
  BY <1>1, <1>3 DEF ReadbackRequired, Given
<1>15. QueueOK'
  <2>1. \A i \in 1 .. StagesIn(todo)' : StageCommand(todo[i], done + i - 1)'
    <3> SUFFICES ASSUME NEW i \in 1 .. 3 PROVE StageCommand(todo[i], done + i - 1)'
      BY <1>12 DEF StagesIn, Waits
    <3>1. Says(todo'[i], i - 1, maxCount')
      BY <1>9, <1>12, KindsAre
    <3>2. done' + i - 1 = i - 1
      BY <1>13
    <3> QED BY <1>3, <1>14, <3>1, <3>2 DEF StageCommand, Says
  <2>2. ~Waits(todo)'
    BY <1>12 DEF Waits
  <2>3. ~ReadbackRequired(next - 1)'
    BY <1>1, <1>3 DEF ReadbackRequired
  <2> QED BY <1>1, <1>13, <2>1, <2>2, <2>3 DEF QueueOK
<1>16. SetupOK'
  <2>1. Ready'
    <3>1. ASSUME caller.exact, NEW t \in 1 .. 2, Flag[t] \in setup, NEW k \in Kinds(t)
          PROVE  request.count[k] <= maxCount'[k]
      BY <1>1, <1>5, <3>1 DEF Ready
    <3> QED BY <1>1, <3>1 DEF Ready
  <2> QED BY <1>1, <2>1 DEF SetupOK
<1>17. RanOK'
  BY <1>1, <1>2, <1>13, KindsAre DEF RanOK, Start, NotRun, gpuVars
<1>18. RoomOK' /\ Unused'
  BY <1>1, <1>7, KindsAre DEF RoomOK, Unused
<1>19. SizedByThisRequest'
  <2>1. \A t \in 1 .. 2 : Flag[t] \in setup \/ "single" \in setup
    BY <1>3, GivenIs DEF Given
  <2> QED BY <1>1, <2>1 DEF SizedByThisRequest
<1> QED BY <1>11, <1>15, <1>16, <1>17, <1>18, <1>19 DEF PipelineInv

------------------------------------------------------------------------------
\* The GPU.

LEMMA TakeIs ==
  ASSUME Typed, NEW op, Take(op), cmdList' = cmdList
  PROVE  /\ todo \in Seq(Command) /\ todo # <<>> /\ todo[1] = Head(queue) /\ todo[1].op = op
         /\ todo' = Tail(todo) /\ Typed'
<1>1. queue \in Seq(Command) /\ cmdList \in Seq(Command) /\ queue # <<>>
      /\ queue' = Tail(queue) /\ Head(queue).op = op
  BY DEF Typed, Take
<1>2. /\ queue \o cmdList \in Seq(Command) /\ queue \o cmdList # <<>>
      /\ (queue \o cmdList)[1] = Head(queue)
      /\ Tail(queue) \o cmdList = Tail(queue \o cmdList) /\ Tail(queue) \in Seq(Command)
  BY <1>1, TakenFrom
<1>3. todo' = queue' \o cmdList'
  BY DEF todo
<1> QED BY <1>1, <1>2, <1>3 DEF todo, Typed

LEMMA StageTaken ==
  ASSUME PipelineInv, Take("stage"),
         UNCHANGED <<caller, request, ctxVars, next, cmdList>>
  PROVE  /\ Typed' /\ QueueOK' /\ done' = done + 1 /\ done < next /\ done \in Stages
         /\ StageCommand(Head(queue), done)
<1>1. /\ todo \in Seq(Command) /\ todo # <<>> /\ todo[1] = Head(queue) /\ todo[1].op = "stage"
      /\ todo' = Tail(todo) /\ Typed'
  BY TakeIs DEF PipelineInv
<1>2. /\ StagesIn(todo) \in Nat \ {0}
      /\ Waits(Tail(todo)) <=> Waits(todo)
      /\ StagesIn(Tail(todo)) = StagesIn(todo) - 1
      /\ \A i \in 1 .. StagesIn(Tail(todo)) : Tail(todo)[i] = todo[i + 1]
  BY <1>1, TailIs
<1>3. (Waits(todo)' <=> Waits(todo)) /\ StagesIn(todo)' = StagesIn(todo) - 1
  BY <1>1, <1>2 DEF Waits, StagesIn
<1>4. next \in 0 .. 3 /\ next' = next /\ done \in 0 .. next /\ done = next - StagesIn(todo)
  BY DEF PipelineInv, TypeInv, Asked, QueueOK, done
<1>5. done' = done + 1 /\ done < next /\ done \in Stages /\ done' \in 0 .. next'
  <2>1. done' = next - (StagesIn(todo) - 1)
    BY <1>3, <1>4 DEF done
  <2>2. StagesIn(todo) \in Nat \ {0}
    BY <1>2
  <2> QED BY <1>4, <2>1, <2>2 DEF Stages
<1>6. \A i \in 1 .. StagesIn(todo) : StageCommand(todo[i], done + i - 1)
  BY DEF PipelineInv, QueueOK
<1>7. StageCommand(Head(queue), done)
  <2>1. 1 \in 1 .. StagesIn(todo) /\ done + 1 - 1 = done
    BY <1>2, <1>5, KindsAre
  <2> QED BY <1>1, <1>6, <2>1
<1>8. UNCHANGED <<setup, maxCount>>
  BY DEF ctxVars
<1>9. \A t : (ReadbackRequired(t) <=> ReadbackRequired(t)') /\ (Given(t) <=> Given(t)')
  BY <1>8 DEF ReadbackRequired, Given
<1>10. \A i \in 1 .. StagesIn(todo)' : StageCommand(todo[i], done + i - 1)'
  <2> SUFFICES ASSUME NEW i \in 1 .. StagesIn(todo) - 1
               PROVE  StageCommand(todo[i], done + i - 1)'
    BY <1>3
  <2>1. /\ i + 1 \in 1 .. StagesIn(todo) /\ done + (i + 1) - 1 = done' + i - 1
        /\ i \in 1 .. StagesIn(Tail(todo))
    BY <1>2, <1>5, KindsAre
  <2>2. StageCommand(todo[i + 1], done + (i + 1) - 1)
    BY <1>6, <2>1
  <2>3. todo'[i] = todo[i + 1]
    BY <1>1, <1>2, <2>1
  <2>4. Says(todo'[i], done' + i - 1, maxCount)
    BY <2>1, <2>2, <2>3 DEF StageCommand
  <2> QED BY <1>8, <1>9, <2>4 DEF StageCommand, Says
<1>11. Waits(todo) \/ ~ReadbackRequired(next - 1)
  BY <1>1 DEF PipelineInv, QueueOK
<1>12. (ReadbackRequired(next - 1) <=> ReadbackRequired(next - 1)')
  BY <1>4, <1>8 DEF ReadbackRequired
<1>13. QueueOK'
  BY <1>3, <1>5, <1>10, <1>11, <1>12 DEF QueueOK, PipelineInv
<1> QED BY <1>1, <1>5, <1>7, <1>13

\* What the GPU does not touch.
LEMMA GPUKeepsRest ==
  ASSUME PipelineInv, UNCHANGED <<caller, request, ctxVars, next>>
  PROVE  /\ SetupOK' /\ RoomOK' /\ Unused' /\ SizedByThisRequest'
         /\ \A t \in 0 .. 1 : ReadbackRequired(t)' <=> ReadbackRequired(t)
         /\ \A t \in Stages : Short(t)' = Short(t) /\ Room(t)' = Room(t) /\ NotRun'[t] = NotRun[t]
<1>1. UNCHANGED <<setup, maxCount, res>>
  BY DEF ctxVars
<1> QED BY <1>1 DEF PipelineInv, SetupOK, Ready, RoomOK, Unused, NoResources, SizedByThisRequest,
               ReadbackRequired, Short, Over, Room, NotRun

\* The GPU finds too large what is, where the maxima were given.
LEMMA Decided ==
  ASSUME NEW c, NEW s \in Stages, NEW t \in 1 .. 2, StageCommand(c, s), t <= s \/ Given(t), NEW count,
         \A k \in Kinds(t) : count[k] = request.count[k]
  PROVE  Over(Kinds(t), c.max, count) = Short(t)
<1>1. \A k \in Kinds(t) : c.max[k] = maxCount[k]
  BY DEF StageCommand, Says
<1> QED BY <1>1 DEF Over, Short

\* A command that runs is entered in the history.
LEMMA RunIs ==
  ASSUME PipelineInv, NEW c, NEW s \in Stages, StageCommand(c, s), Runs(c)
  PROVE  /\ ran' = [t \in Stages |-> ran'[t]]
         /\ ran'[s].did /\ ran'[s].room = Room(s)
         /\ \A t \in Stages \ {s} : ran'[t] = ran[t]
         /\ s = 0 \/ ReadbackRequired(s - 1) \/ predicate[s] = {}
<1>1. c.stage = s /\ c.room = Room(s) /\ (c.predicated <=> s > 0 /\ ~ReadbackRequired(s - 1))
  BY DEF StageCommand, Says, Room
<1>2. ran' = [ran EXCEPT ![s] = [did |-> TRUE, room |-> Room(s)]]
  BY <1>1 DEF Runs
<1>3. ran = [t \in Stages |-> ran[t]]
  BY DEF PipelineInv, RanOK
<1>4. /\ ran' = [t \in Stages |-> ran'[t]]
      /\ ran'[s] = [did |-> TRUE, room |-> Room(s)]
      /\ \A t \in Stages \ {s} : ran'[t] = ran[t]
  BY <1>2, <1>3
<1>5. s > 0 => ReadbackRequired(s - 1) \/ predicate[s] = {}
  BY <1>1 DEF Runs, Skipped
<1> QED BY <1>4, <1>5, KindsAre

LEMMA NotRunYet ==
  ASSUME PipelineInv, NEW s \in Stages, s >= done
  PROVE  ran[s] = NotRun[s] /\ ~ran[s].did
BY DEF PipelineInv, RanOK, NotRun

LEMMA Stage0Keeps ==
  ASSUME SafeUse, PipelineInv, TypeInv', RunStage0
  PROVE  PipelineInv'
<1> DEFINE c == Head(queue)
<1>1. /\ Take("stage") /\ c.stage = 0 /\ Runs(c)
      /\ UNCHANGED <<caller, request, ctxVars, next, cmdList>>
  BY DEF RunStage0
<1>2. /\ Typed' /\ QueueOK' /\ done' = done + 1 /\ done < next /\ done \in Stages
      /\ StageCommand(c, done)
  BY <1>1, StageTaken
<1>3. done = 0 /\ StageCommand(c, 0)
  BY <1>1, <1>2 DEF StageCommand, Says
<1>4. /\ SetupOK' /\ RoomOK' /\ Unused' /\ SizedByThisRequest'
      /\ \A t \in 0 .. 1 : ReadbackRequired(t)' <=> ReadbackRequired(t)
      /\ \A t \in Stages : Short(t)' = Short(t) /\ Room(t)' = Room(t) /\ NotRun'[t] = NotRun[t]
  BY <1>1, GPUKeepsRest
<1>5. counters' = [k \in Counted |-> IF k \in Kinds(1) THEN request.count[k] ELSE 0]
  BY DEF RunStage0
<1>6. \A k \in Kinds(1) : counters'[k] = request.count[k]
  BY <1>5, KindsAre
<1>7. predicate' = [s \in 1 .. 2 |-> Over(Kinds(1), c.max, counters')]
  BY DEF RunStage0, Stage0Predicate
<1> HIDE DEF c
<1>8. ReadbackRequired(0) => ReadbackRequired(1)
  <2>1. Ready
    BY <1>2, <1>3 DEF PipelineInv, SetupOK, TypeInv, Asked
  <2> QED BY <2>1, SafeFlags DEF PipelineInv
<1>9. ASSUME ~ReadbackRequired(0)
      PROVE  predicate'[1] = Short(1) /\ predicate'[2] = Short(1)
  <2>1. Given(1)
    BY <1>9, GivenIs
  <2>2. Over(Kinds(1), c.max, counters') = Short(1)
    BY <1>3, <1>6, <2>1, KindsAre, Decided
  <2> QED BY <1>7, <2>2
<1>10. /\ ran' = [t \in Stages |-> ran'[t]] /\ ran'[0].room = Room(0)
       /\ \A t \in Stages \ {0} : ran'[t] = NotRun[t] /\ ~ran'[t].did
  <2>1. /\ ran' = [t \in Stages |-> ran'[t]] /\ ran'[0].room = Room(0)
        /\ \A t \in Stages \ {0} : ran'[t] = ran[t]
    BY <1>1, <1>3, RunIs, KindsAre DEF c
  <2>2. \A t \in Stages \ {0} : ran[t] = NotRun[t] /\ ~ran[t].did
    BY <1>3, NotRunYet, KindsAre
  <2> QED BY <2>1, <2>2
<1>11. Stage0Done'
  <2>1. ~ReadbackRequired(0)' => predicate'[1] = Short(1)'
    BY <1>4, <1>9, KindsAre
  <2>2. ~ReadbackRequired(1)' =>
          predicate'[2] = Short(1)' \cup (IF ran'[1].did THEN Short(2)' ELSE {})
    BY <1>4, <1>8, <1>9, <1>10, KindsAre
  <2>3. \A k \in Kinds(1) : counters'[k] = request'.count[k]
    BY <1>1, <1>6
  <2> QED BY <2>1, <2>2, <2>3 DEF Stage0Done
<1>12. RanOK'
  <2>1. done' = 1
    BY <1>2, <1>3
  <2>2. \A t \in Stages : t >= done' => ran'[t] = NotRun'[t]
    BY <1>4, <1>10, <2>1, KindsAre
  <2>3. \A t \in Stages : t < done' /\ ran'[t].did => ran'[t].room = Room(t)'
    BY <1>4, <1>10, <2>1, KindsAre
  <2> QED BY <1>10, <1>11, <2>1, <2>2, <2>3 DEF RanOK
<1> QED BY <1>2, <1>4, <1>12 DEF PipelineInv

LEMMA Stage1Keeps ==
  ASSUME SafeUse, PipelineInv, TypeInv', RunStage1
  PROVE  PipelineInv'
<1> DEFINE c == Head(queue)
<1>1. /\ Take("stage") /\ c.stage = 1 /\ Runs(c)
      /\ UNCHANGED <<caller, request, ctxVars, next, cmdList>>
  BY DEF RunStage1
<1>2. /\ Typed' /\ QueueOK' /\ done' = done + 1 /\ done < next /\ done \in Stages
      /\ StageCommand(c, done)
  BY <1>1, StageTaken
<1>3. done = 1 /\ StageCommand(c, 1)
  BY <1>1, <1>2 DEF StageCommand, Says
<1>4. /\ SetupOK' /\ RoomOK' /\ Unused' /\ SizedByThisRequest'
      /\ \A t \in 0 .. 1 : ReadbackRequired(t)' <=> ReadbackRequired(t)
      /\ \A t \in Stages : Short(t)' = Short(t) /\ Room(t)' = Room(t) /\ NotRun'[t] = NotRun[t]
  BY <1>1, GPUKeepsRest
<1>5. counters' = [k \in Counted |-> request.count[k]]
  BY DEF RunStage1
<1>6. predicate' = [predicate EXCEPT ![2] = predicate[2] \cup Over(Kinds(2), c.max, counters')]
  BY DEF RunStage1
<1>7. /\ predicate'[1] = predicate[1]
      /\ predicate'[2] = predicate[2] \cup Over(Kinds(2), c.max, counters')
  BY <1>6 DEF PipelineInv, TypeInv, Counting
<1> HIDE DEF c
<1>8. Stage0Done
  BY <1>3 DEF PipelineInv, RanOK
<1>9. /\ ran' = [t \in Stages |-> ran'[t]] /\ ran'[1].did /\ ran'[1].room = Room(1)
      /\ \A t \in Stages \ {1} : ran'[t] = ran[t]
      /\ ReadbackRequired(0) \/ predicate[1] = {}
  BY <1>1, <1>3, RunIs, KindsAre DEF c
<1>10. ReadbackRequired(0) \/ Short(1) = {}
  BY <1>8, <1>9 DEF Stage0Done
<1>11. ASSUME ~ReadbackRequired(1)
       PROVE  predicate'[2] = Short(1) \cup Short(2)
  <2>1. Given(2)
    BY <1>11, GivenIs
  <2>2. Over(Kinds(2), c.max, counters') = Short(2)
    BY <1>3, <1>5, <2>1, KindsAre, Decided
  <2>3. ~ran[1].did
    BY <1>3, NotRunYet, KindsAre
  <2>4. predicate[2] = Short(1)
    BY <1>8, <1>11, <2>3 DEF Stage0Done
  <2> QED BY <1>7, <2>2, <2>4
<1>12. Stage0Done'
  <2>1. ~ReadbackRequired(0)' => predicate'[1] = Short(1)'
    BY <1>4, <1>7, <1>8, KindsAre DEF Stage0Done
  <2>2. ~ReadbackRequired(1)' =>
          predicate'[2] = Short(1)' \cup (IF ran'[1].did THEN Short(2)' ELSE {})
    BY <1>4, <1>9, <1>11, KindsAre
  <2>3. \A k \in Kinds(1) : counters'[k] = request'.count[k]
    BY <1>1, <1>5, KindsAre
  <2> QED BY <2>1, <2>2, <2>3 DEF Stage0Done
<1>13. Stage1Done'
  <2>1. ReadbackRequired(0)' \/ Short(1)' = {}
    BY <1>4, <1>10, KindsAre
  <2> QED BY <1>1, <1>5, <1>9, <2>1 DEF Stage1Done
<1>14. RanOK'
  <2>1. done' = 2
    BY <1>2, <1>3
  <2>2. \A t \in Stages : t >= done' => ran'[t] = NotRun'[t]
    BY <1>3, <1>4, <1>9, <2>1, NotRunYet, KindsAre
  <2>3. \A t \in Stages : t < done' /\ ran'[t].did => ran'[t].room = Room(t)'
    BY <1>3, <1>4, <1>9, <2>1, KindsAre DEF PipelineInv, RanOK
  <2> QED BY <1>9, <1>12, <1>13, <2>1, <2>2, <2>3 DEF RanOK
<1> QED BY <1>2, <1>4, <1>14 DEF PipelineInv

LEMMA Stage2Keeps ==
  ASSUME SafeUse, PipelineInv, TypeInv', RunStage2
  PROVE  PipelineInv'
<1> DEFINE c == Head(queue)
<1>1. /\ Take("stage") /\ c.stage = 2 /\ Runs(c)
      /\ UNCHANGED <<caller, request, ctxVars, next, cmdList, counters, predicate>>
  BY DEF RunStage2
<1>2. /\ Typed' /\ QueueOK' /\ done' = done + 1 /\ done < next /\ done \in Stages
      /\ StageCommand(c, done)
  BY <1>1, StageTaken
<1>3. done = 2 /\ StageCommand(c, 2)
  BY <1>1, <1>2 DEF StageCommand, Says
<1>4. /\ SetupOK' /\ RoomOK' /\ Unused' /\ SizedByThisRequest'
      /\ \A t \in 0 .. 1 : ReadbackRequired(t)' <=> ReadbackRequired(t)
      /\ \A t \in Stages : Short(t)' = Short(t) /\ Room(t)' = Room(t) /\ NotRun'[t] = NotRun[t]
  BY <1>1, GPUKeepsRest
<1> HIDE DEF c
<1>5. Stage0Done /\ Stage1Done
  BY <1>3 DEF PipelineInv, RanOK
<1>6. /\ ran' = [t \in Stages |-> ran'[t]] /\ ran'[2].did /\ ran'[2].room = Room(2)
      /\ \A t \in Stages \ {2} : ran'[t] = ran[t]
      /\ ReadbackRequired(1) \/ predicate[2] = {}
  BY <1>1, <1>3, RunIs, KindsAre DEF c
<1>7. ReadbackRequired(1) \/ Short(1) \cup Short(2) = {}
  <2>1. ASSUME ~ReadbackRequired(1) PROVE Short(1) \cup Short(2) = {}
    <3>1. Short(1) \cup (IF ran[1].did THEN Short(2) ELSE {}) = {}
      BY <1>5, <1>6, <2>1 DEF Stage0Done
    <3>2. Short(1) = {} /\ ran[1].did
      BY <1>5, <3>1 DEF Stage1Done
    <3> QED BY <3>1, <3>2
  <2> QED BY <2>1
<1>8. ran'[1] = ran[1]
  BY <1>6, KindsAre
<1>9. Stage0Done'
  <2>1. ~ReadbackRequired(0)' => predicate'[1] = Short(1)'
    BY <1>1, <1>4, <1>5, KindsAre DEF Stage0Done
  <2>2. ~ReadbackRequired(1)' =>
          predicate'[2] = Short(1)' \cup (IF ran'[1].did THEN Short(2)' ELSE {})
    BY <1>1, <1>4, <1>5, <1>8, KindsAre DEF Stage0Done
  <2>3. \A k \in Kinds(1) : counters'[k] = request'.count[k]
    BY <1>1, <1>5 DEF Stage0Done
  <2> QED BY <2>1, <2>2, <2>3 DEF Stage0Done
<1>10. Stage1Done'
  <2>1. ran'[1].did <=> ReadbackRequired(0)' \/ Short(1)' = {}
    BY <1>4, <1>5, <1>8, KindsAre DEF Stage1Done
  <2> QED BY <1>1, <1>5, <1>8, <2>1 DEF Stage1Done
<1>11. Stage2Done'
  <2>1. ReadbackRequired(1)' \/ Short(1)' \cup Short(2)' = {}
    BY <1>4, <1>7, KindsAre
  <2> QED BY <1>6, <2>1 DEF Stage2Done
<1>12. RanOK'
  <2>1. done' = 3
    BY <1>2, <1>3
  <2>2. \A t \in Stages : ~(t >= done')
    BY <2>1, KindsAre
  <2>3. \A t \in Stages : ran'[t].did => ran'[t].room = Room(t)'
    BY <1>3, <1>4, <1>6, KindsAre DEF PipelineInv, RanOK
  <2> QED BY <1>6, <1>9, <1>10, <1>11, <2>2, <2>3 DEF RanOK
<1> QED BY <1>2, <1>4, <1>12 DEF PipelineInv

\* A stage that is turned off is passed as well.
LEMMA SkipKeeps ==
  ASSUME SafeUse, PipelineInv, TypeInv', SkipStage
  PROVE  PipelineInv'
<1> DEFINE c == Head(queue)
<1>1. /\ Take("stage") /\ c.stage > 0 /\ c.predicated /\ predicate[c.stage] # {}
      /\ UNCHANGED <<caller, request, ctxVars, next, cmdList>>
      /\ UNCHANGED <<counters, predicate, ran>>
  BY DEF SkipStage, Skipped, gpuVars
<1>2. /\ Typed' /\ QueueOK' /\ done' = done + 1 /\ done < next /\ done \in Stages
      /\ StageCommand(c, done)
  BY <1>1, StageTaken
<1>3. done \in 1 .. 2 /\ ~ReadbackRequired(done - 1) /\ predicate[done] # {}
  BY <1>1, <1>2, KindsAre DEF StageCommand, Says
<1>4. /\ SetupOK' /\ RoomOK' /\ Unused' /\ SizedByThisRequest'
      /\ \A t \in 0 .. 1 : ReadbackRequired(t)' <=> ReadbackRequired(t)
      /\ \A t \in Stages : Short(t)' = Short(t) /\ Room(t)' = Room(t) /\ NotRun'[t] = NotRun[t]
  BY <1>1, GPUKeepsRest
<1> HIDE DEF c
<1>5. Stage0Done /\ (done = 2 => Stage1Done)
  BY <1>3 DEF PipelineInv, RanOK
<1>6. Stage0Done'
  <2>1. ~ReadbackRequired(0)' => predicate'[1] = Short(1)'
    BY <1>1, <1>4, <1>5, KindsAre DEF Stage0Done
  <2>2. ~ReadbackRequired(1)' =>
          predicate'[2] = Short(1)' \cup (IF ran'[1].did THEN Short(2)' ELSE {})
    BY <1>1, <1>4, <1>5, KindsAre DEF Stage0Done
  <2>3. \A k \in Kinds(1) : counters'[k] = request'.count[k]
    BY <1>1, <1>5 DEF Stage0Done
  <2> QED BY <2>1, <2>2, <2>3 DEF Stage0Done
<1>7. Stage1Done'
  <2>1. ran[1].did <=> ReadbackRequired(0) \/ Short(1) = {}
    <3>1. CASE done = 1
      <4>1. ~ran[1].did
        BY <3>1, NotRunYet, KindsAre
      <4>2. ~ReadbackRequired(0) /\ Short(1) # {}
        BY <1>3, <1>5, <3>1 DEF Stage0Done
      <4> QED BY <4>1, <4>2
    <3>2. CASE done = 2
      BY <1>5, <3>2 DEF Stage1Done
    <3> QED BY <1>3, <3>1, <3>2
  <2>2. ran[1].did => counters = [k \in Counted |-> request.count[k]]
    <3>1. CASE done = 1
      BY <3>1, NotRunYet, KindsAre
    <3>2. CASE done = 2
      BY <1>5, <3>2 DEF Stage1Done
    <3> QED BY <1>3, <3>1, <3>2
  <2>3. ran'[1].did <=> ReadbackRequired(0)' \/ Short(1)' = {}
    BY <1>1, <1>4, <2>1, KindsAre
  <2> QED BY <1>1, <2>2, <2>3 DEF Stage1Done
<1>8. done = 2 => Stage2Done'
  <2>1. HAVE done = 2
  <2>2. ~ran[2].did
    BY <2>1, NotRunYet, KindsAre
  <2>3. ~ReadbackRequired(1) /\ Short(1) \cup (IF ran[1].did THEN Short(2) ELSE {}) # {}
    BY <1>3, <1>5, <2>1 DEF Stage0Done
  <2>4. Short(1) \cup Short(2) # {}
    BY <2>3
  <2>5. ~ReadbackRequired(1)' /\ Short(1)' \cup Short(2)' # {} /\ ~ran'[2].did
    BY <1>1, <1>4, <2>2, <2>3, <2>4, KindsAre
  <2> QED BY <2>5 DEF Stage2Done
<1>9. RanOK'
  <2>1. \A t \in Stages : t >= done' => ran'[t] = NotRun'[t]
    <3>1. \A t \in Stages : t >= done' => t >= done
      BY <1>2, <1>3, KindsAre
    <3> QED BY <1>1, <1>4, <3>1, NotRunYet
  <2>2. \A t \in Stages : t < done' /\ ran'[t].did => ran'[t].room = Room(t)'
    <3> SUFFICES ASSUME NEW t \in Stages, t < done + 1, ran[t].did
                 PROVE  ran[t].room = Room(t)
      BY <1>1, <1>2, <1>4
    <3>1. ~(t >= done)
      BY NotRunYet
    <3>2. t < done
      BY <1>3, <3>1, KindsAre
    <3> QED BY <3>2 DEF PipelineInv, RanOK
  <2>3. ran' = [t \in Stages |-> ran'[t]]
    BY <1>1 DEF PipelineInv, RanOK
  <2>4. done' = 3 => done = 2
    BY <1>2, <1>3
  <2> QED BY <1>6, <1>7, <1>8, <2>1, <2>2, <2>3, <2>4 DEF RanOK
<1> QED BY <1>2, <1>4, <1>9 DEF PipelineInv

\* A readback is taken when nothing else is left.
LEMMA ReadbackKeeps ==
  ASSUME PipelineInv, TypeInv', Readback
  PROVE  PipelineInv'
<1>1. /\ Take("readback") /\ cpuCounters' = counters
      /\ UNCHANGED <<caller, request, ctxVars, next, cmdList>>
      /\ UNCHANGED <<counters, predicate, ran>>
  BY DEF Readback
<1>2. /\ todo \in Seq(Command) /\ todo # <<>> /\ todo[1].op = "readback"
      /\ todo' = Tail(todo) /\ Typed'
  BY <1>1, TakeIs DEF PipelineInv
<1>3. Len(todo) \in Nat \ {0} /\ next \in 0 .. 3
  BY <1>2, EmptySeq DEF PipelineInv, TypeInv, Asked
<1>4. StagesIn(todo) = 0 /\ Len(todo) = 1
  <2>1. ASSUME 1 \in 1 .. StagesIn(todo) PROVE FALSE
    <3>1. StageCommand(todo[1], done + 1 - 1)
      BY <2>1 DEF PipelineInv, QueueOK
    <3> QED BY <1>2, <3>1 DEF StageCommand, Says
  <2>2. StagesIn(todo) = Len(todo) \/ StagesIn(todo) = Len(todo) - 1
    BY DEF StagesIn
  <2> DEFINE n == Len(todo)
             m == StagesIn(todo)
  <2>3. n \in Nat \ {0} /\ (m = n \/ m = n - 1) /\ ~(1 \in 1 .. m)
    BY <1>3, <2>1, <2>2
  <2> HIDE DEF n, m
  <2>4. m = 0 /\ n = 1
    BY <2>3
  <2> QED BY <2>4 DEF n, m
<1>5. todo' = <<>>
  <2>1. Tail(todo) \in Seq(Command) /\ Len(Tail(todo)) = 0
    BY <1>2, <1>4, HeadTailProperties
  <2> QED BY <1>2, <2>1, EmptySeq
<1>6. ~Waits(todo)' /\ StagesIn(todo)' = 0
  <2>1. ~Waits(todo)'
    BY <1>5 DEF Waits
  <2>2. Len(<<>>) = 0
    OBVIOUS
  <2>3. StagesIn(todo)' = Len(todo')
    BY <2>1 DEF StagesIn, Waits
  <2> QED BY <1>5, <2>1, <2>2, <2>3
<1>7. done = next /\ done' = done
  BY <1>1, <1>3, <1>4, <1>6 DEF done
<1>8. QueueOK'
  BY <1>1, <1>3, <1>5, <1>6, <1>7 DEF QueueOK
<1>9. /\ SetupOK' /\ RoomOK' /\ Unused' /\ SizedByThisRequest'
  BY <1>1, GPUKeepsRest
<1>10. RanOK'
  <2>1. UNCHANGED <<setup, maxCount, request>>
    BY <1>1 DEF ctxVars
  <2> QED BY <1>1, <1>7, <2>1 DEF PipelineInv, RanOK, Stage0Done, Stage1Done, Stage2Done, Short, Over,
             Room, ReadbackRequired, NotRun
<1> QED BY <1>2, <1>8, <1>9, <1>10 DEF PipelineInv

LEMMA StepKeeps ==
  ASSUME SafeUse, PipelineInv, [Next]_vars
  PROVE  PipelineInv'
<1>1. TypeInv'
  BY StepTypes DEF PipelineInv
<1>2. CASE (\E s \in 1 .. 2 : SetupConstants(s)) \/ SetupAllStageSubmission
  BY <1>1, <1>2, SetupKeeps
<1>3. ASSUME NEW s \in Stages, SubmitStage(s) PROVE PipelineInv'
  BY <1>1, <1>3, SubmitStageKeeps
<1>4. CASE SubmitAllStages
  BY <1>1, <1>4, SubmitAllKeeps
<1>5. CASE ExecuteCmdList
  BY <1>1, <1>5, ExecuteKeeps
<1>6. CASE NextRequest
  BY <1>1, <1>6, NextRequestStarts
<1>7. CASE RunStage0
  BY <1>1, <1>7, Stage0Keeps
<1>8. CASE RunStage1
  BY <1>1, <1>8, Stage1Keeps
<1>9. CASE RunStage2
  BY <1>1, <1>9, Stage2Keeps
<1>10. CASE SkipStage
  BY <1>1, <1>10, SkipKeeps
<1>11. CASE Readback
  BY <1>1, <1>11, ReadbackKeeps
<1>12. CASE UNCHANGED vars
  <2>1. UNCHANGED <<caller, request, setup, maxCount, res, next, gpuVars>>
    BY <1>12 DEF vars, ctxVars
  <2>2. UNCHANGED <<queue, cmdList>>
    BY <1>12 DEF vars
  <2>3. todo' = todo /\ Typed'
    BY <2>2 DEF todo, PipelineInv, Typed
  <2> QED BY <1>1, <2>1, <2>3, SamePending DEF PipelineInv
<1>13. CASE Done
  BY <1>12, <1>13 DEF Done
<1> QED BY <1>2, <1>3, <1>4, <1>5, <1>6, <1>7, <1>8, <1>9, <1>10, <1>11, <1>12, <1>13
        DEF Next, CPU, GPU

\* What is pending, what has run and what its buffers hold, at every moment: what
\* the properties below follow from.
THEOREM PipelineInvariant == SafeUse => (Spec => []PipelineInv)
<1>1. Init => PipelineInv
  BY InitStarts, StartIs
<1>2. SafeUse /\ PipelineInv /\ [Next]_vars => PipelineInv'
  BY StepKeeps
<1> SUFFICES ASSUME SafeUse PROVE Spec => []PipelineInv
  OBVIOUS
<1>3. PipelineInv /\ [Next]_vars => PipelineInv'
  BY <1>2
<1> QED BY <1>1, <1>3, PTL DEF Spec

------------------------------------------------------------------------------
\* What a stage needs of an earlier kind fits what was made for it.
LEMMA RanFits ==
  ASSUME SafeUse, PipelineInv, NEW s \in 1 .. 2, ran[s].did, NEW t \in 1 .. s
  PROVE  /\ t \in 1 .. 2 /\ s < done /\ t < next /\ Ready
         /\ ReadbackRequired(t - 1) \/ Short(t) = {}
<1>1. s \in Stages /\ s < done /\ done \in 0 .. next /\ next \in 0 .. 3
  <2>1. s \in Stages /\ done \in 0 .. next /\ next \in 0 .. 3
    BY KindsAre DEF PipelineInv, QueueOK, TypeInv, Asked
  <2>2. ~(s >= done)
    BY <2>1, NotRunYet
  <2> QED BY <2>1, <2>2
<1>2. t \in 1 .. 2 /\ t < next /\ next > 0
  BY <1>1
<1>3. Ready
  BY <1>2 DEF PipelineInv, SetupOK
<1>4. ReadbackRequired(t - 1) \/ Short(t) = {}
  <2>1. CASE s = 1
    <3>1. t = 1 /\ done >= 2
      BY <1>1, <2>1
    <3> QED BY <2>1, <3>1 DEF PipelineInv, RanOK, Stage1Done
  <2>2. CASE s = 2
    <3>1. done = 3
      BY <1>1, <2>2
    <3>2. ReadbackRequired(1) \/ Short(1) \cup Short(2) = {}
      BY <2>2, <3>1 DEF PipelineInv, RanOK, Stage2Done
    <3>3. ReadbackRequired(1) => ReadbackRequired(0) \/ Short(1) = {}
      BY <1>3, ExactFits DEF PipelineInv
    <3>4. CASE t = 1
      BY <3>2, <3>3, <3>4
    <3>5. CASE t = 2
      BY <3>2, <3>5
    <3> QED BY <1>2, <3>4, <3>5
  <2> QED BY <2>1, <2>2
<1> QED BY <1>1, <1>2, <1>3, <1>4

LEMMA FitsRoom ==
  ASSUME SafeUse, PipelineInv
  PROVE  NoOverrun
<1> SUFFICES ASSUME NEW s \in Stages, ran[s].did, NEW k \in DOMAIN ran[s].room
             PROVE  request.count[k] <= ran[s].room[k]
  BY DEF NoOverrun
<1>1. s < done
  <2>1. done \in 0 .. next /\ next \in 0 .. 3
    BY DEF PipelineInv, QueueOK, TypeInv, Asked
  <2>2. ~(s >= done)
    BY NotRunYet
  <2> QED BY <2>1, <2>2, KindsAre
<1>2. ran[s].room = Room(s)
  BY <1>1 DEF PipelineInv, RanOK
<1>3. k \in RoomKinds(s) /\ ran[s].room[k] = maxCount[k]
  BY <1>2 DEF Room
<1>4. PICK t \in 1 .. s : k \in Kinds(t)
  BY <1>3 DEF RoomKinds
<1>5. s \in 1 .. 2
  BY <1>4, KindsAre
<1>6. /\ t \in 1 .. 2 /\ t < next
      /\ ReadbackRequired(t - 1) \/ Short(t) = {}
  BY <1>5, RanFits
<1>7. request.count[k] \in Nat /\ maxCount[k] \in Nat /\ MinCount[k] \in Nat
  <2>1. k \in Counted
    BY <1>4, <1>6, KindsAre
  <2> QED BY <2>1, RequestFacts, CountAssumption DEF PipelineInv, TypeInv, Measured
<1>8. CASE ReadbackRequired(t - 1)
  <2>1. Flag[t] \notin setup /\ "single" \notin setup
    BY <1>6, <1>8, GivenIs DEF Given
  <2>2. maxCount[k] = AtLeast(request.count[k], MinCount[k])
    BY <1>4, <1>6, <2>1 DEF PipelineInv, SizedByThisRequest
  <2>3. AtLeast(request.count[k], MinCount[k]) >= request.count[k]
    BY <1>7 DEF AtLeast
  <2> QED BY <1>3, <2>2, <2>3
<1>9. CASE Short(t) = {}
  <2>1. ~(request.count[k] > maxCount[k])
    BY <1>4, <1>9 DEF Short, Over
  <2> QED BY <1>3, <1>7, <2>1
<1> QED BY <1>6, <1>8, <1>9

LEMMA ParsedBefore ==
  ASSUME SafeUse, PipelineInv
  PROVE  DecodesWhatWasParsed
<1> SUFFICES ASSUME ran[2].did PROVE ran[1].did
  BY DEF DecodesWhatWasParsed
<1>1. 2 < done /\ (ReadbackRequired(1 - 1) \/ Short(1) = {})
  BY RanFits
<1>2. Stage1Done
  BY <1>1 DEF PipelineInv, RanOK, QueueOK, TypeInv, Asked
<1> QED BY <1>1, <1>2 DEF Stage1Done

LEMMA RefusedForCause ==
  ASSUME PipelineInv
  PROVE  RefusedOnlyWhenShort
<1> SUFFICES ASSUME Finished, ~ran[2].did
             PROVE  \E k \in Counted : request.count[k] > maxCount[k]
  BY DEF RefusedOnlyWhenShort
<1>1. next = 3 /\ queue = <<>> /\ cmdList = <<>>
  BY DEF Finished, Idle
<1>2. done = 3
  BY <1>1, NothingToDo DEF done
<1>3. Short(1) \cup Short(2) # {}
  BY <1>2 DEF PipelineInv, RanOK, Stage2Done
<1> QED BY <1>3, KindsAre DEF Short, Over

\* NoOverrun: a stage that ran, whether the CPU waited or the GPU decided, had buffers
\* for all that the kernels of it and of the stages before wrote there.
THEOREM StagesFit == SafeUse => (Spec => []NoOverrun)
<1> SUFFICES ASSUME SafeUse PROVE Spec => []NoOverrun
  OBVIOUS
<1>1. PipelineInv => NoOverrun
  BY FitsRoom
<1>2. Spec => []PipelineInv
  BY PipelineInvariant
<1> QED BY <1>1, <1>2, PTL

\* DecodesWhatWasParsed: the predicate of stage 2 is set whenever that of stage 1 is, so
\* that a stage 1 that is turned off never leaves its output to be decoded.
THEOREM DecodedWasParsed == SafeUse => (Spec => []DecodesWhatWasParsed)
<1> SUFFICES ASSUME SafeUse PROVE Spec => []DecodesWhatWasParsed
  OBVIOUS
<1>1. PipelineInv => DecodesWhatWasParsed
  BY ParsedBefore
<1>2. Spec => []PipelineInv
  BY PipelineInvariant
<1> QED BY <1>1, <1>2, PTL

\* RefusedOnlyWhenShort: UpdateDispatchArgs turns off no request that fits the sizes
\* it was submitted with.
THEOREM RefusalsHaveCause == SafeUse => (Spec => []RefusedOnlyWhenShort)
<1> SUFFICES ASSUME SafeUse PROVE Spec => []RefusedOnlyWhenShort
  OBVIOUS
<1>1. PipelineInv => RefusedOnlyWhenShort
  BY RefusedForCause
<1>2. Spec => []PipelineInv
  BY PipelineInvariant
<1> QED BY <1>1, <1>2, PTL

\* SizedByThisRequest: the counts that CountersCpu holds when a stage is sized by it
\* are those the GPU counted for this very request.
THEOREM ReadBackForThisRequest == SafeUse => (Spec => []SizedByThisRequest)
<1> SUFFICES ASSUME SafeUse PROVE Spec => []SizedByThisRequest
  OBVIOUS
<1>1. PipelineInv => SizedByThisRequest
  BY DEF PipelineInv
<1>2. Spec => []PipelineInv
  BY PipelineInvariant
<1> QED BY <1>1, <1>2, PTL

------------------------------------------------------------------------------
\* The places of buffers.

PlaceInv == TypeInv /\ Unused /\ BuffersPlaced

LEMMA InitPlaces == Init => PlaceInv
<1> SUFFICES ASSUME Init PROVE PlaceInv
  OBVIOUS
<1>1. Start
  BY InitStarts
<1>2. \A s \in Stages : res[s].buffers = NoBuffers
  BY DEF Init, NoResources
<1> QED BY <1>1, <1>2 DEF Start, PlaceInv, BuffersPlaced

\* A stage that is submitted alone has a heap of its own, made for it.
LEMMA SubmitStagePlaces ==
  ASSUME PlaceInv, TypeInv', NEW s \in Stages, SubmitStage(s)
  PROVE  Unused' /\ BuffersPlaced'
<1>1. next = s /\ next' = s + 1 /\ caller' = caller
  BY DEF SubmitStage
<1>2. /\ \A t \in Stages \ {s} : res'[t] = res[t]
      /\ res'[s] = IF caller.memory = "external" THEN ExternalStage(res[s], Need(s))
                   ELSE InternalStage(res[s], Need(s))
  BY SubmitStageTypes DEF PlaceInv
<1>3. Unused'
  BY <1>1, <1>2, KindsAre DEF PlaceInv, Unused, NoResources
<1>4. /\ res[s] \in Resource(s) /\ Need(s) \in Sizes(s) /\ Bytes(Need(s)) \in Nat
  BY NeedIs, SizesBytes DEF PlaceInv, TypeInv, Kept
<1>5. /\ res'[s].heap = StageHeap(Need(s)) /\ res'[s].buffers = [at |-> 0, count |-> Need(s)]
  <2>1. CASE caller.memory = "external"
    BY <1>2, <1>4, <2>1, ExternalStageIs DEF Resources
  <2>2. CASE caller.memory # "external"
    <3>1. caller.memory = "internal"
      BY <2>2, CallerAssumption DEF PlaceInv, TypeInv, Asked
    <3>2. res[s] = NoResources[s]
      BY <1>1, <3>1, KindsAre DEF PlaceInv, Unused
    <3> QED BY <1>2, <1>4, <2>2, <3>2, InternalStageIs DEF Resources
  <2> QED BY <2>1, <2>2
<1>6. End(res'[s]) <= res'[s].heap.size /\ res'[s].heap.of = "stage"
  BY <1>4, <1>5 DEF End, StageHeap
<1>7. ASSUME NEW t \in Stages, res'[t].buffers # NoBuffers
      PROVE  /\ End(res'[t]) <= res'[t].heap.size
             /\ \A u \in Stages \ {t} :
                  res'[t].heap.of = "shared" /\ res'[u].heap.of = "shared"
                  => End(res'[t]) <= res'[u].buffers.at \/ End(res'[u]) <= res'[t].buffers.at
  <2>1. CASE t = s
    BY <1>6, <2>1
  <2>2. CASE t # s
    <3>1. res'[t] = res[t]
      BY <1>2, <2>2
    <3>2. End(res[t]) <= res[t].heap.size
      BY <1>7, <3>1 DEF PlaceInv, BuffersPlaced
    <3>3. ASSUME NEW u \in Stages \ {t}, res[t].heap.of = "shared", res'[u].heap.of = "shared"
          PROVE  End(res[t]) <= res'[u].buffers.at \/ End(res'[u]) <= res[t].buffers.at
      <4>1. u # s
        BY <1>6, <3>3
      <4>2. res'[u] = res[u]
        BY <1>2, <4>1
      <4> QED BY <1>7, <3>1, <3>3, <4>2 DEF PlaceInv, BuffersPlaced
    <3> QED BY <3>1, <3>2, <3>3
  <2> QED BY <2>1, <2>2
<1> QED BY <1>3, <1>7 DEF BuffersPlaced

\* Stages that are submitted together get parts of one heap, one after the other.
LEMMA SubmitAllPlaces ==
  ASSUME PlaceInv, TypeInv', SubmitAllStages
  PROVE  Unused' /\ BuffersPlaced'
<1>1. /\ next = 0 /\ next' = 3
      /\ res' = IF caller.memory = "external" THEN ExternalAll ELSE InternalAll
  BY DEF SubmitAllStages
<1>2. Unused'
  BY <1>1, KindsAre DEF Unused
<1>3. Measured /\ \A t \in Stages : res[t] \in Resource(t)
  BY DEF PlaceInv, TypeInv, Kept
<1>4. ASSUME NEW t \in Stages
      PROVE  /\ res'[t].heap = SharedHeap /\ res'[t].buffers.at = OffsetOf(t)
             /\ res'[t].buffers.count = Need(t)
  <2>1. CASE caller.memory = "external"
    <3>1. res'[t] = Part(t, res[t].byteCount)
      BY <1>1, <1>3, <2>1, ExternalAllIs
    <3> QED BY <3>1 DEF Part, Resources
  <2>2. CASE caller.memory # "external"
    <3>1. caller.memory = "internal"
      BY <2>2, CallerAssumption DEF PlaceInv, TypeInv, Asked
    <3>2. res[0] = NoResources[0]
      BY <1>1, <3>1, KindsAre DEF PlaceInv, Unused
    <3>3. res'[t] = Part(t, Bytes(Need(t)))
      BY <1>1, <1>3, <2>2, <3>2, InternalAllIs
    <3> QED BY <3>3 DEF Part, Resources
  <2> QED BY <2>1, <2>2
<1>5. \A t \in Stages : End(res'[t]) = OffsetOf(t) + Bytes(Need(t))
  BY <1>4 DEF End
<1>6. /\ \A s \in Stages : OffsetOf(s) \in Nat /\ Bytes(Need(s)) \in Nat
      /\ OffsetOf(0) = 0 /\ OffsetOf(1) = Bytes(Need(0))
      /\ OffsetOf(2) = Bytes(Need(0)) + Bytes(Need(1))
      /\ SharedHeap.size = OffsetOf(2) + Bytes(Need(2))
  BY <1>3, SharedIs
<1>7. ASSUME NEW t \in Stages
      PROVE  OffsetOf(t) + Bytes(Need(t)) <= SharedHeap.size
  BY <1>6, KindsAre
<1>8. ASSUME NEW t \in Stages, NEW u \in Stages \ {t}
      PROVE  \/ OffsetOf(t) + Bytes(Need(t)) <= OffsetOf(u)
             \/ OffsetOf(u) + Bytes(Need(u)) <= OffsetOf(t)
  BY <1>6, KindsAre
<1>9. \A t \in Stages : /\ res'[t].heap.size = SharedHeap.size
                        /\ End(res'[t]) <= res'[t].heap.size
  BY <1>4, <1>5, <1>7
<1>10. \A t \in Stages : \A u \in Stages \ {t} :
         End(res'[t]) <= res'[u].buffers.at \/ End(res'[u]) <= res'[t].buffers.at
  BY <1>4, <1>5, <1>8
<1> QED BY <1>2, <1>9, <1>10 DEF BuffersPlaced

LEMMA StepPlaces ==
  ASSUME "internal" \notin ReuseMemory, PlaceInv, [Next]_vars
  PROVE  PlaceInv'
<1>1. TypeInv'
  BY StepTypes DEF PlaceInv
<1>2. CASE UNCHANGED <<caller, next, res>>
  BY <1>1, <1>2 DEF PlaceInv, Unused, NoResources, BuffersPlaced, End
<1>3. ASSUME NEW s \in Stages, SubmitStage(s) PROVE PlaceInv'
  BY <1>1, <1>3, SubmitStagePlaces DEF PlaceInv
<1>4. CASE SubmitAllStages
  BY <1>1, <1>4, SubmitAllPlaces DEF PlaceInv
<1>5. CASE NextRequest
  <2>1. Unused'
    BY <1>5 DEF NextRequest, Unused
  <2>2. res' = NoResources \/ res' = res
    BY <1>5 DEF NextRequest, ctxVars
  <2>3. CASE res' = NoResources
    <3>1. \A s \in Stages : res'[s].buffers = NoBuffers
      BY <2>3 DEF NoResources
    <3> QED BY <1>1, <2>1, <3>1 DEF PlaceInv, BuffersPlaced
  <2>4. CASE res' = res
    BY <1>1, <2>1, <2>4 DEF PlaceInv, BuffersPlaced, End
  <2> QED BY <2>2, <2>3, <2>4
<1>6. CASE \/ \E s \in 1 .. 2 : SetupConstants(s)
           \/ SetupAllStageSubmission \/ ExecuteCmdList \/ GPU \/ Done \/ UNCHANGED vars
  BY <1>2, <1>6 DEF SetupConstants, SetupAllStageSubmission, ExecuteCmdList, GPU, RunStage0,
     RunStage1, RunStage2, SkipStage, Readback, Done, vars, ctxVars
<1> QED BY <1>3, <1>4, <1>5, <1>6 DEF Next, CPU

\* BuffersPlaced, for every caller: the buffers of a stage lie in the heap that was made
\* for it, apart from those of other stages in the same heap, as long as a context is
\* not used again in memory of the library.
THEOREM Places == "internal" \notin ReuseMemory => (Spec => []BuffersPlaced)
<1> SUFFICES ASSUME "internal" \notin ReuseMemory PROVE Spec => []BuffersPlaced
  OBVIOUS
<1>1. PlaceInv /\ [Next]_vars => PlaceInv'
  BY StepPlaces
<1>2. PlaceInv => BuffersPlaced
  BY DEF PlaceInv
<1> QED BY <1>1, <1>2, InitPlaces, PTL DEF Spec

==============================================================================
