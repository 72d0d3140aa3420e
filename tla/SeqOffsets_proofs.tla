-------------------------- MODULE SeqOffsets_proofs --------------------------
(***************************************************************************)
(* Proofs about the two modules of sequence offsets.                       *)
(*                                                                         *)
(* PrefixSequenceOffsets: the kernel gives each stream the offsets of a    *)
(* sequential decoder, for any number of streams, waves of any size the    *)
(* kernel has, any streams an encoder can write and any residency.  First  *)
(* the algebra of symbols, then the sequential decoder, the tree inside a  *)
(* wave, and the steps.                                                    *)
(*                                                                         *)
(* DecodeSequenceOffsets: for every set of streams, however many and       *)
(* however long, the three kernels give every sequence the distance of a   *)
(* sequential decoder.                                                     *)
(*                                                                         *)
(* Last, how they meet: what the first of the three kernels leaves is what *)
(* PrefixSequenceOffsets assumes of its input.                             *)
(***************************************************************************)
EXTENDS PrefixSequenceOffsets, DecodeSequenceOffsets, GroupSearch_proofs, SequenceTheorems

------------------------------------------------------------------------------
\* Triples that stand for a state of a decoder.

Solutions == [Streams -> [Slots -> Known]]

\* Substituting what S has after stream j for the symbols of t gives what S has
\* after stream i.  If j is no stream, t has no symbol.
Rep(S, t, i, j) ==
  /\ t \in Triple
  /\ \A k \in Slots :
       IF IsEncoded(t[k]) THEN j \in Streams /\ Minus(S[j][t[k].rep], t[k].n) = S[i][k]
                          ELSE t[k] = S[i][k]

LEMMA KnownFacts ==
  ASSUME NEW x \in Known
  PROVE  /\ x \in Offset /\ ~IsEncoded(x) /\ ~IsUnset(x)
         /\ x.rep = 0 /\ x.n \in Nat /\ x = [rep |-> 0, n |-> x.n]
BY DEF Known, Offset, IsEncoded

\* Taking bytes off in two steps, and off a symbol.
LEMMA MinusMinus ==
  ASSUME NEW x \in Known, NEW n \in Nat, NEW m \in Nat
  PROVE  Minus(Minus(x, n), m) = Minus(x, n + m)
<1>1. x.rep = 0 /\ x.n \in Nat
  BY KnownFacts
<1>2. /\ Minus(x, n) = [rep |-> 0, n |-> x.n - n]
      /\ Minus(x, n + m) = [rep |-> 0, n |-> x.n - (n + m)]
  BY <1>1 DEF Minus, IsEncoded
<1>3. Minus(Minus(x, n), m) = [rep |-> 0, n |-> (x.n - n) - m]
  BY <1>2 DEF Minus, IsEncoded
<1>4. (x.n - n) - m = x.n - (n + m)
  BY <1>1
<1> QED BY <1>2, <1>3, <1>4

LEMMA MinusSymbol ==
  ASSUME NEW u \in Offset, IsEncoded(u), NEW m \in Nat
  PROVE  /\ Minus(u, m) \in Offset /\ IsEncoded(Minus(u, m))
         /\ Minus(u, m).rep = u.rep /\ Minus(u, m).n = u.n + m
         /\ u.rep \in Slots /\ u.n \in Nat
BY DEF Minus, Offset, IsEncoded, Slots

\* Substitutions compose.
LEMMA Composes ==
  ASSUME NEW S \in Solutions, NEW t, NEW u, NEW i \in Streams, NEW j \in Streams, NEW l,
         Rep(S, t, i, j), Rep(S, u, j, l)
  PROVE  Rep(S, ApplyPrevious(t, u), i, l)
<1> DEFINE v == ApplyPrevious(t, u)
<1>1. t \in Triple /\ u \in Triple
  BY DEF Rep
<1>2. ASSUME NEW k \in Slots
      PROVE  /\ v[k] \in Offset
             /\ IF IsEncoded(v[k]) THEN l \in Streams /\ Minus(S[l][v[k].rep], v[k].n) = S[i][k]
                                   ELSE v[k] = S[i][k]
  <2>1. t[k] \in Offset /\ S[i][k] \in Known /\ S[i][k] \in Offset
    BY <1>1, KnownFacts DEF Triple, Solutions
  <2>2. CASE ~IsEncoded(t[k])
    <3>1. t[k] = S[i][k] /\ ~IsUnset(t[k])
      BY <2>1, <2>2, KnownFacts DEF Rep
    <3>2. v[k] = t[k]
      BY <2>2, <3>1 DEF ApplyPrevious
    <3> QED BY <2>1, <2>2, <3>1, <3>2
  <2>3. CASE IsEncoded(t[k])
    <3> DEFINE r == t[k].rep
               m == t[k].n
    <3>1. r \in Slots /\ m \in Nat /\ u[r] \in Offset
      BY <1>1, <2>1, <2>3, MinusSymbol DEF Triple
    <3>2. v[k] = Minus(u[r], m)
      BY <2>3 DEF ApplyPrevious
    <3>3. Minus(S[j][r], m) = S[i][k]
      BY <2>3 DEF Rep
    <3> HIDE DEF r, m
    <3>4. CASE ~IsEncoded(u[r])
      <4>1. u[r] = S[j][r]
        BY <3>1, <3>4 DEF Rep
      <4>2. v[k] = S[i][k]
        BY <3>2, <3>3, <4>1
      <4>3. ~IsEncoded(v[k])
        BY <2>1, <4>2, KnownFacts
      <4> QED BY <2>1, <4>2, <4>3
    <3>5. CASE IsEncoded(u[r])
      <4>1. /\ v[k] \in Offset /\ IsEncoded(v[k])
            /\ v[k].rep = u[r].rep /\ v[k].n = u[r].n + m
            /\ u[r].rep \in Slots /\ u[r].n \in Nat
        BY <3>1, <3>2, <3>5, MinusSymbol
      <4>2. l \in Streams /\ Minus(S[l][u[r].rep], u[r].n) = S[j][r]
        BY <3>1, <3>5 DEF Rep
      <4>3. S[l][u[r].rep] \in Known
        BY <4>1, <4>2 DEF Solutions
      <4>4. Minus(Minus(S[l][u[r].rep], u[r].n), m) = Minus(S[l][u[r].rep], u[r].n + m)
        BY <3>1, <4>1, <4>3, MinusMinus
      <4> QED BY <3>3, <4>1, <4>2, <4>4
    <3> QED BY <3>4, <3>5
  <2> QED BY <2>2, <2>3
<1>3. v = [k \in Slots |-> v[k]]
  BY DEF ApplyPrevious
<1> HIDE DEF v
<1>4. v \in Triple
  BY <1>2, <1>3 DEF Triple
<1> QED BY <1>2, <1>4 DEF Rep, v

\* A triple without symbols is the state itself, whatever is substituted.
LEMMA Solved ==
  ASSUME NEW S \in Solutions, NEW i \in Streams
  PROVE  /\ \A j : Rep(S, S[i], i, j)
         /\ ~AnyEncoded(S[i])
<1>1. \A k \in Slots : S[i][k] \in Known
  BY DEF Solutions
<1>2. \A k \in Slots : S[i][k] \in Offset /\ ~IsEncoded(S[i][k])
  BY <1>1, KnownFacts
<1>3. S[i] \in Triple
  BY <1>2 DEF Solutions, Triple
<1> QED BY <1>2, <1>3 DEF Rep, AnyEncoded

LEMMA WithoutSymbols ==
  ASSUME NEW S \in Solutions, NEW t, NEW i \in Streams, NEW j, Rep(S, t, i, j),
         ~AnyEncoded(t) \/ j \notin Streams
  PROVE  t = S[i]
<1>1. t \in Triple /\ S[i] \in [Slots -> Known]
  BY DEF Rep, Solutions
<1>2. \A k \in Slots : t[k] = S[i][k]
  BY DEF Rep, AnyEncoded
<1> QED BY <1>1, <1>2 DEF Triple

\* What is substituted in the end.
LEMMA Substituted ==
  ASSUME NEW S \in Solutions, NEW t, NEW i \in Streams, NEW j \in Streams, Rep(S, t, i, j)
  PROVE  ApplyPrevious(t, S[j]) = S[i]
<1>1. Rep(S, S[j], j, -1)
  BY Solved
<1>2. Rep(S, ApplyPrevious(t, S[j]), i, -1)
  BY <1>1, Composes
<1>3. -1 \notin Streams
  BY DEF Streams
<1> QED BY <1>2, <1>3, WithoutSymbols

------------------------------------------------------------------------------
\* The sequential decoder.

StateAfter(in, f, i) ==
  ApplyPrevious(in.offs[i], IF i \in in.first THEN FrameDefaults ELSE f[i - 1])

LEMMA PrefixExists ==
  ASSUME NEW in, 0 \in in.first, NEW n \in Nat
  PROVE  \E f : f = [i \in 0 .. n |-> StateAfter(in, f, i)]
<1> DEFINE P(m) == \E f : f = [i \in 0 .. m |-> StateAfter(in, f, i)]
           Bad == {m \in Nat : ~P(m)}
<1>1. SUFFICES ASSUME Bad # {} PROVE FALSE
  OBVIOUS
<1>2. PICK m \in Bad : \A k \in Bad : m <= k
  <2>1. Bad \in SUBSET Nat
    OBVIOUS
  <2> HIDE DEF Bad
  <2> QED BY <1>1, <2>1, Least
<1>3. m \in Nat /\ ~P(m)
  OBVIOUS
<1>4. PICK g : m = 0 \/ g = [i \in 0 .. m - 1 |-> StateAfter(in, g, i)]
  <2>1. m # 0 => m - 1 \in Nat /\ ~ (m <= m - 1)
    BY <1>3
  <2>2. m # 0 => P(m - 1)
    BY <1>2, <2>1
  <2> QED BY <2>2
<1> DEFINE f == [i \in 0 .. m |-> StateAfter(in, g, i)]
<1>5. ASSUME NEW i \in 0 .. m PROVE StateAfter(in, f, i) = StateAfter(in, g, i)
  <2>1. CASE i \in in.first
    BY <2>1 DEF StateAfter
  <2>2. CASE i \notin in.first
    <3>1. i - 1 \in 0 .. m - 1 /\ i - 1 \in 0 .. m /\ m # 0
      BY <1>3, <2>2
    <3>2. g[i - 1] = StateAfter(in, g, i - 1)
      BY <1>4, <3>1
    <3>3. f[i - 1] = g[i - 1]
      BY <3>1, <3>2
    <3> QED BY <3>3 DEF StateAfter
  <2> QED BY <2>1, <2>2
<1>6. f = [i \in 0 .. m |-> StateAfter(in, f, i)]
  BY <1>5
<1> QED BY <1>3, <1>6

\* The recursive function exists.
LEMMA SequentialUnfolds ==
  ASSUME NEW in, 0 \in in.first
  PROVE  SequentialOf(in) = [i \in Streams |-> StateAfter(in, SequentialOf(in), i)]
<1>1. NumStreams - 1 \in Nat
  BY StreamsAssumption
<1>2. \E f : f = [i \in Streams |-> StateAfter(in, f, i)]
  BY <1>1, PrefixExists DEF Streams
<1> QED BY <1>2 DEF SequentialOf, StateAfter

\* It is what a decoder has after each stream.
LEMMA SequentialIs ==
  ASSUME input \in Inputs
  PROVE  /\ Sequential \in Solutions
         /\ \A i \in Streams : Sequential[i] = StateAfter(input, Sequential, i)
<1>1. 0 \in input.first
  BY InputsAssumption DEF FromSymbols
<1>2. Sequential = [i \in Streams |-> StateAfter(input, Sequential, i)]
  BY <1>1, SequentialUnfolds DEF Sequential
<1>3. \A i \in Streams : Sequential[i] \in [Slots -> Known]
  BY DecoderAssumption DEF Sequential, Decodable
<1> HIDE DEF Sequential
<1>4. Sequential = [i \in Streams |-> Sequential[i]]
  BY <1>2
<1>5. Sequential \in Solutions
  BY <1>3, <1>4 DEF Solutions
<1> QED BY <1>2, <1>5

\* What a lane starts from stands for the state after its stream.
LEMMA Single ==
  ASSUME input \in Inputs, NEW i \in Streams
  PROVE  /\ i \in input.first => ApplyPrevious(input.offs[i], FrameDefaults) = Sequential[i]
         /\ i \notin input.first => Rep(Sequential, input.offs[i], i, i - 1)
<1> DEFINE S == Sequential
           t == input.offs[i]
<1>1. S \in Solutions /\ S[i] = StateAfter(input, S, i)
  BY SequentialIs
<1>2. t \in Triple /\ 0 \in input.first /\ \A k \in Slots : ~IsUnset(t[k])
  BY InputsAssumption DEF FromSymbols
<1>3. CASE i \in input.first
  BY <1>1, <1>3 DEF StateAfter
<1>4. CASE i \notin input.first
  <2>1. i - 1 \in Streams
    BY <1>2, <1>4, StreamsAssumption DEF Streams
  <2>2. S[i] = ApplyPrevious(t, S[i - 1])
    BY <1>1, <1>4 DEF StateAfter
  <2> HIDE DEF S, t
  <2>3. ASSUME NEW k \in Slots
        PROVE  IF IsEncoded(t[k]) THEN Minus(S[i - 1][t[k].rep], t[k].n) = S[i][k]
                                  ELSE t[k] = S[i][k]
    BY <1>2, <2>2 DEF ApplyPrevious
  <2>4. Rep(S, t, i, i - 1)
    BY <1>2, <2>1, <2>3 DEF Rep
  <2> QED BY <1>4, <2>4 DEF S, t
<1> QED BY <1>3, <1>4

------------------------------------------------------------------------------
\* The lanes of a block.

LEMMA OwnWaves ==
  /\ NumStreams \in Nat \ {0} /\ BlockSize \in WaveSizes
  /\ Blocks = WaveBlocks(NumStreams, BlockSize) /\ Streams = 0 .. NumStreams - 1
  /\ \A b : /\ Lanes(b) = WaveLanes(NumStreams, BlockSize, b)
            /\ FirstLane(b) = b * BlockSize /\ LastLane(b) = LastOf(Lanes(b))
BY StreamsAssumption, BlockSizeAssumption
   DEF WaveSizes, Blocks, WaveBlocks, Streams, Lanes, WaveLanes, FirstLane, LastLane, LastOf

LEMMA BlockRange ==
  ASSUME NEW b \in Blocks
  PROVE  b \in Nat /\ 0 \in Blocks /\ (b # 0 => b - 1 \in Blocks)
BY OwnWaves, WaveBegins

LEMMA Interval ==
  ASSUME NEW b \in Blocks
  PROVE  /\ FirstLane(b) \in Lanes(b) /\ LastLane(b) \in Lanes(b)
         /\ \A i \in Streams : i \in Lanes(b) <=> FirstLane(b) <= i /\ i <= LastLane(b)
         /\ Lanes(b) \subseteq Streams /\ Lanes(b) \subseteq Nat
<1>1. Streams \subseteq Nat
  BY DEF Streams
<1> QED BY <1>1, OwnWaves, WaveInterval

LEMMA NextBlock ==
  ASSUME NEW b \in Blocks, b # 0
  PROVE  b - 1 \in Blocks /\ LastLane(b - 1) = FirstLane(b) - 1
<1>1. b - 1 \in Blocks /\ LastLane(b - 1) + 1 = FirstLane(b)
  BY OwnWaves, WaveFollows
<1>2. LastLane(b - 1) \in Nat
  BY <1>1, Interval
<1> QED BY <1>1, <1>2

LEMMA BeforeFirst == FirstLane(0) - 1 \notin Streams
BY BlockSizeAssumption DEF FirstLane, Streams

LEMMA OtherBlock ==
  ASSUME NEW a \in Blocks, NEW b \in Blocks, a # b
  PROVE  \A i \in Lanes(a) : i \notin Lanes(b)
BY DEF Lanes

------------------------------------------------------------------------------
\* The tree.  The first lane stands for its stream given what a decoder has after
\* stream base, every other one given what it has after the stream before.  After
\* the step of a group size, a lane is given what precedes its group.

From(b, base, g, i) == IF Lo(i, g) = FirstLane(b) THEN base ELSE Lo(i, g) - 1

Carried(S, b, base, g, y) ==
  /\ y \in [Lanes(b) -> Triple]
  /\ \A i \in Lanes(b) : Rep(S, y[i], i, From(b, base, g, i))

\* What the lanes hold before the tree.
LEMMA CarriedOne ==
  ASSUME NEW S, NEW b \in Blocks, NEW base, NEW y
  PROVE  Carried(S, b, base, 1, y) <=>
           /\ y \in [Lanes(b) -> Triple]
           /\ Rep(S, y[FirstLane(b)], FirstLane(b), base)
           /\ \A i \in Lanes(b) : i # FirstLane(b) => Rep(S, y[i], i, i - 1)
<1>1. FirstLane(b) \in Lanes(b) /\ Lanes(b) \subseteq Nat
  BY Interval
<1>2. ASSUME NEW i \in Lanes(b)
      PROVE  From(b, base, 1, i) = IF i = FirstLane(b) THEN base ELSE i - 1
  BY <1>1 DEF From, Lo
<1> QED BY <1>1, <1>2 DEF Carried

LEMMA StepCarries ==
  ASSUME NEW S \in Solutions, NEW b \in Blocks, NEW base, NEW y,
         NEW g \in {2, 4, 8, 16, 32}, g <= BlockSize, Carried(S, b, base, g \div 2, y)
  PROVE  Carried(S, b, base, g, PropagateStep(y, g))
<1> DEFINE z == PropagateStep(y, g)
<1>1. DOMAIN y = Lanes(b) /\ y \in [Lanes(b) -> Triple] /\ b \in Nat
      /\ Lanes(b) \subseteq Nat /\ Lanes(b) \subseteq Streams /\ FirstLane(b) \in Lanes(b)
  BY Interval, BlockRange DEF Carried
<1>2. CASE ~ \E i \in Lanes(b) : AnyEncoded(y[i])
  <2>1. z = y
    BY <1>1, <1>2 DEF PropagateStep
  <2>2. ASSUME NEW i \in Lanes(b) PROVE Rep(S, y[i], i, From(b, base, g, i))
    <3>1. y[i] = S[i]
      BY <1>1, <1>2, WithoutSymbols DEF Carried
    <3> QED BY <1>1, <3>1, Solved
  <2> QED BY <1>1, <2>1, <2>2 DEF Carried
<1>3. CASE \E i \in Lanes(b) : AnyEncoded(y[i])
  <2>1. z = [i \in Lanes(b) |->
               IF i % g >= g \div 2 THEN ApplyPrevious(y[i], y[Src(i, g)]) ELSE y[i]]
    BY <1>1, <1>3, BlockSizeAssumption DEF PropagateStep, Src
  <2>2. ASSUME NEW i \in Lanes(b) PROVE Rep(S, z[i], i, From(b, base, g, i))
    <3>1. i \in Nat /\ i \in Streams /\ i % g \in Nat /\ g \div 2 \in Nat
      BY <1>1, Halves
    <3>2. CASE i % g < g \div 2
      <4>1. Lo(i, g \div 2) = Lo(i, g)
        BY <3>1, <3>2, Halves
      <4>2. z[i] = y[i]
        BY <2>1, <3>1, <3>2
      <4> QED BY <4>1, <4>2 DEF Carried, From
    <3>3. CASE i % g >= g \div 2
      <4> DEFINE s == Src(i, g)
      <4>1. s \in Nat /\ s < i /\ Lo(i, g) <= s
        BY <3>1, <3>3, Halves
      <4>2. Lo(s, g \div 2) = Lo(i, g) /\ Lo(i, g \div 2) = s + 1
        BY <3>1, <3>3, Halves
      <4>3. FirstLane(b) <= Lo(i, g) /\ Lo(i, g) \in Nat
        <5>1. i \div BlockSize = b
          BY DEF Lanes
        <5>2. b * BlockSize <= Lo(i, g)
          BY <1>1, <3>1, <5>1, OwnWaves, GroupInBlock
        <5>3. Lo(i, g) \in Nat
          BY <3>1, Halves
        <5> QED BY <5>2, <5>3 DEF FirstLane
      <4>4. s \in Lanes(b) /\ s \in Streams
        <5>1. i <= LastLane(b) /\ LastLane(b) \in Lanes(b) /\ i < NumStreams
          BY <3>1, Interval, StreamsAssumption DEF Streams
        <5>2. s \in Streams
          BY <3>1, <4>1, <5>1, StreamsAssumption DEF Streams
        <5>3. FirstLane(b) <= s /\ s <= LastLane(b)
          BY <1>1, <3>1, <4>1, <4>3, <5>1
        <5> QED BY <5>2, <5>3, Interval
      <4>5. z[i] = ApplyPrevious(y[i], y[s])
        BY <2>1, <3>3
      <4> HIDE DEF s
      <4>6. Rep(S, y[i], i, s)
        <5>1. From(b, base, g \div 2, i) = s
          <6>1. FirstLane(b) \in Nat
            BY <1>1
          <6>2. s + 1 # FirstLane(b) /\ (s + 1) - 1 = s
            BY <4>1, <4>3, <6>1
          <6> QED BY <4>2, <6>2 DEF From
        <5> QED BY <5>1 DEF Carried
      <4>7. Rep(S, y[s], s, From(b, base, g, i))
        <5>1. From(b, base, g \div 2, s) = From(b, base, g, i)
          BY <4>2 DEF From
        <5> QED BY <4>4, <5>1 DEF Carried
      <4> QED BY <3>1, <4>4, <4>5, <4>6, <4>7, Composes
    <3> QED BY <3>1, <3>2, <3>3
  <2>3. ASSUME NEW i \in Lanes(b) PROVE z[i] \in Triple
    BY <2>2 DEF Rep
  <2>4. z = [i \in Lanes(b) |-> z[i]]
    BY <2>1
  <2> HIDE DEF z
  <2> QED BY <2>2, <2>3, <2>4 DEF Carried, z
<1> QED BY <1>2, <1>3

\* A step for groups larger than the wave changes nothing.
LEMMA StepIdle ==
  ASSUME NEW y, NEW g \in Nat, BlockSize < g
  PROVE  PropagateStep(y, g) = y
<1>1. ~ (BlockSize >= g)
  BY BlockSizeAssumption
<1> QED BY <1>1 DEF PropagateStep

\* After the tree every lane is given what precedes the block.
LEMMA TreeResult ==
  ASSUME NEW S \in Solutions, NEW b \in Blocks, NEW base, NEW v, Carried(S, b, base, 1, v)
  PROVE  /\ Propagate(v) \in [Lanes(b) -> Triple]
         /\ \A i \in Lanes(b) : Rep(S, Propagate(v)[i], i, base)
<1> DEFINE y0 == v
           y1 == PropagateStep(y0, 2)
           y2 == PropagateStep(y1, 4)
           y3 == PropagateStep(y2, 8)
           y4 == PropagateStep(y3, 16)
           y5 == PropagateStep(y4, 32)
           C(y, g) == Carried(S, b, base, g, y)
<1>1. Propagate(v) = y5
  BY DEF Propagate
<1>2. C(y0, 1)
  OBVIOUS
<1> HIDE DEF y0, y1, y2, y3, y4, y5
<1>3. 2 <= BlockSize => C(y1, 2)
  <2>1. 2 \div 2 = 1
    OBVIOUS
  <2> QED BY <1>2, <2>1, StepCarries DEF y1
<1>4. 4 <= BlockSize => C(y2, 4)
  <2>1. 4 \div 2 = 2 /\ (4 <= BlockSize => 2 <= BlockSize)
    BY BlockSizeAssumption
  <2> QED BY <1>3, <2>1, StepCarries DEF y2
<1>5. 8 <= BlockSize => C(y3, 8)
  <2>1. 8 \div 2 = 4 /\ (8 <= BlockSize => 4 <= BlockSize)
    BY BlockSizeAssumption
  <2> QED BY <1>4, <2>1, StepCarries DEF y3
<1>6. 16 <= BlockSize => C(y4, 16)
  <2>1. 16 \div 2 = 8 /\ (16 <= BlockSize => 8 <= BlockSize)
    BY BlockSizeAssumption
  <2> QED BY <1>5, <2>1, StepCarries DEF y4
<1>7. 32 <= BlockSize => C(y5, 32)
  <2>1. 32 \div 2 = 16 /\ (32 <= BlockSize => 16 <= BlockSize)
    BY BlockSizeAssumption
  <2> QED BY <1>6, <2>1, StepCarries DEF y5
<1> HIDE DEF C
<1>8. C(y5, BlockSize)
  <2>1. CASE BlockSize = 1
    <3>1. y1 = y0 /\ y2 = y1 /\ y3 = y2 /\ y4 = y3 /\ y5 = y4
      BY <2>1, StepIdle DEF y1, y2, y3, y4, y5
    <3> QED BY <1>2, <2>1, <3>1
  <2>2. CASE BlockSize = 2
    <3>1. y2 = y1 /\ y3 = y2 /\ y4 = y3 /\ y5 = y4
      BY <2>2, StepIdle DEF y2, y3, y4, y5
    <3> QED BY <1>3, <2>2, <3>1
  <2>3. CASE BlockSize = 4
    <3>1. y3 = y2 /\ y4 = y3 /\ y5 = y4
      BY <2>3, StepIdle DEF y3, y4, y5
    <3> QED BY <1>4, <2>3, <3>1
  <2>4. CASE BlockSize = 8
    <3>1. y4 = y3 /\ y5 = y4
      BY <2>4, StepIdle DEF y4, y5
    <3> QED BY <1>5, <2>4, <3>1
  <2>5. CASE BlockSize = 16
    <3>1. y5 = y4
      BY <2>5, StepIdle DEF y5
    <3> QED BY <1>6, <2>5, <3>1
  <2>6. CASE BlockSize = 32
    BY <1>7, <2>6
  <2> QED BY <2>1, <2>2, <2>3, <2>4, <2>5, <2>6, BlockSizeAssumption
<1>9. ASSUME NEW i \in Lanes(b) PROVE From(b, base, BlockSize, i) = base
  BY DEF From, Lo, Lanes, FirstLane
<1> QED BY <1>1, <1>8, <1>9 DEF Carried, C

------------------------------------------------------------------------------
\* The inductive invariant, block by block.

Values(t) == [k \in Slots |-> t[k].value]

\* A word of block b: nothing, what the block published first, or the state of
\* a decoder after the block.
WordOK(b, k, w) ==
  /\ w \in WordSet
  /\ w.flag # "Zero" => pc[b] # "queued"
  /\ w.flag = "Self" => w = pub[b][k]
  /\ w.flag = "Full" => w.value = Sequential[LastLane(b)][k]

WordsOK(b, t) == \A k \in Slots : WordOK(b, k, t[k])

PubOK(b) ==
  /\ WordsOK(b, pub[b])
  /\ Rep(Sequential, Values(pub[b]), LastLane(b), FirstLane(b) - 1)

\* The registers of a wave that still has to know what is after stream base;
\* -1, which is no stream, if it knows.
RegsOK(b, base) == Carried(Sequential, b, base, 1, LaneRegs(b))

\* A wave with no open lane has stored its result, but for the first streams.
StoredEarly(b) ==
  \A i \in Lanes(b) : IF i \in input.first THEN o[i] = Sequential[i]
                                           ELSE final[i] = Sequential[i]

BlockOK(b) ==
  /\ WordsOK(b, lookback[b])
  /\ pc[b] = "queued" => \A i \in Lanes(b) : final[i] = input.offs[i]
  /\ pc[b] \in {"queued", "publish"} => got[b] = NoWords
  /\ pc[b] # "queued" => PubOK(b)
  /\ pc[b] \notin {"queued", "done"} /\ ~WaveNeeds(b) => StoredEarly(b)
  /\ pc[b] = "publish" => RegsOK(b, FirstLane(b) - 1)
  /\ pc[b] = "read" => /\ b # 0 /\ WaveNeeds(b) /\ WordsOK(prev[b], got[b])
                       /\ RegsOK(b, LastLane(prev[b]))
  /\ pc[b] = "upgrade" => WaveNeeds(b)
  /\ pc[b] \in {"upgrade", "store"} /\ WaveNeeds(b) => RegsOK(b, -1)
  /\ pc[b] = "done" => \A i \in Lanes(b) : final[i] = Sequential[i]

IInv ==
  /\ TypeOK
  /\ input \in Inputs
  /\ \A b \in Blocks : BlockOK(b)

\* A launched block publishes the same words until the end.
Keeps == \A a \in Blocks : pc[a] # "queued" => pc'[a] # "queued" /\ pub'[a] = pub[a]

LEMMA SequentialKept ==
  ASSUME input' = input
  PROVE  Sequential' = Sequential
BY DEF Sequential, SequentialOf

LEMMA WordsKept ==
  ASSUME NEW b \in Blocks, NEW t, WordsOK(b, t), Keeps, input' = input
  PROVE  WordsOK(b, t)'
<1> SUFFICES ASSUME NEW k \in Slots PROVE WordOK(b, k, t[k])'
  BY DEF WordsOK
<1>1. WordOK(b, k, t[k]) /\ Sequential' = Sequential
  BY SequentialKept DEF WordsOK
<1>2. t[k].flag # "Zero" => pc'[b] # "queued" /\ pub'[b] = pub[b]
  BY <1>1 DEF WordOK, Keeps
<1> QED BY <1>1, <1>2 DEF WordOK

\* Every step leaves the blocks of other waves alone.
Same(b) ==
  /\ pc'[b] = pc[b] /\ lookback'[b] = lookback[b] /\ pub'[b] = pub[b]
  /\ got'[b] = got[b] /\ prev'[b] = prev[b]
  /\ \A i \in Lanes(b) : o'[i] = o[i] /\ needs'[i] = needs[i] /\ final'[i] = final[i]

LEMMA Frame ==
  ASSUME NEW b \in Blocks, BlockOK(b), Same(b), Keeps, input' = input,
         pc[b] = "read" => prev[b] \in Blocks
  PROVE  BlockOK(b)'
<1>1. Sequential' = Sequential
  BY SequentialKept
<1>2. WordsOK(b, lookback[b])'
  BY WordsKept DEF BlockOK, Same
<1>3. LaneRegs(b)' = LaneRegs(b) /\ (WaveNeeds(b)' <=> WaveNeeds(b))
  BY DEF Same, LaneRegs, WaveNeeds
<1>4. \A base : RegsOK(b, base) => RegsOK(b, base)'
  BY <1>1, <1>3 DEF RegsOK
<1>5. pc[b] # "queued" => PubOK(b)'
  <2>1. SUFFICES ASSUME PubOK(b) PROVE PubOK(b)'
    BY DEF BlockOK
  <2>2. WordsOK(b, pub[b])'
    BY <2>1, WordsKept DEF PubOK, Same
  <2> QED BY <1>1, <2>1, <2>2 DEF PubOK, Same
<1>6. StoredEarly(b) => StoredEarly(b)'
  BY <1>1 DEF StoredEarly, Same
<1>7. pc[b] = "read" => WordsOK(prev[b], got[b])'
  <2> SUFFICES ASSUME pc[b] = "read" PROVE WordsOK(prev[b], got[b])'
    OBVIOUS
  <2>1. WordsOK(prev[b], got[b]) /\ prev[b] \in Blocks
    BY DEF BlockOK
  <2> QED BY <2>1, WordsKept DEF Same
<1>8. pc[b] = "queued" => \A i \in Lanes(b) : final'[i] = input.offs[i]
  BY DEF BlockOK, Same
<1>9. pc[b] = "done" => \A i \in Lanes(b) : final'[i] = Sequential[i]
  BY DEF BlockOK, Same
<1> QED BY <1>1, <1>2, <1>3, <1>4, <1>5, <1>6, <1>7, <1>8, <1>9 DEF BlockOK, Same

LEMMA InitInv == Init => IInv
<1> SUFFICES ASSUME Init PROVE IInv
  OBVIOUS
<1>1. Number(0) \in Offset /\ NoWords \in [Slots -> WordSet] /\ SequenceOffsets_Init \in Triple
  BY DEF Number, Offset, NoWords, Zeroed, WordSet, SequenceOffsets_Init, Symbol, Triple, Slots
<1>2. TypeOK
  <2>1. input.offs \in [Streams -> Triple]
    BY InputsAssumption DEF Init, FromSymbols
  <2>2. \A b \in Blocks : 0 \in Blocks
    BY BlockRange
  <2>3. final \in [Streams -> Triple] /\ o \in [Streams -> Triple]
        /\ needs \in [Streams -> BOOLEAN]
    BY <1>1, <2>1 DEF Init
  <2>4. /\ lookback \in [Blocks -> [Slots -> WordSet]] /\ pub \in [Blocks -> [Slots -> WordSet]]
        /\ got \in [Blocks -> [Slots -> WordSet]]
    BY <1>1 DEF Init
  <2>5. /\ pc \in [Blocks -> {"queued", "publish", "read", "upgrade", "store", "done"}]
        /\ word \in [Blocks -> Slots] /\ prev \in [Blocks -> Blocks]
    BY <2>2 DEF Init, Slots
  <2> QED BY <2>1, <2>3, <2>4, <2>5 DEF TypeOK
<1>3. ASSUME NEW b \in Blocks PROVE BlockOK(b)
  <2>1. WordsOK(b, NoWords)
    BY <1>1 DEF WordsOK, WordOK, NoWords, Zeroed
  <2> QED BY <2>1 DEF Init, BlockOK
<1> QED BY <1>2, <1>3 DEF IInv, Init

------------------------------------------------------------------------------
\* Launch.

Start(b) ==
  [i \in Lanes(b) |-> IF i \in input.first THEN ApplyPrevious(final[i], FrameDefaults)
                                           ELSE final[i]]

Resolved(b) ==
  IF AnyEncoded(Start(b)[LastLane(b)]) THEN Propagate(Start(b)) ELSE Start(b)

OpenLanes(b) == {i \in Lanes(b) : AnyEncoded(Resolved(b)[i])}

LEMMA StartIs ==
  ASSUME IInv, NEW b \in Blocks, pc[b] = "queued"
  PROVE  /\ Carried(Sequential, b, FirstLane(b) - 1, 1, Start(b))
         /\ \A i \in Lanes(b) : IF i \in input.first THEN Start(b)[i] = Sequential[i]
                                                     ELSE Start(b)[i] = final[i]
<1> DEFINE v == Start(b)
           S == Sequential
<1>1. S \in Solutions /\ Lanes(b) \subseteq Streams /\ FirstLane(b) \in Lanes(b)
      /\ \A i \in Lanes(b) : final[i] = input.offs[i]
  BY SequentialIs, Interval DEF IInv, BlockOK
<1>2. ASSUME NEW i \in Lanes(b)
      PROVE  /\ IF i \in input.first THEN v[i] = S[i] ELSE v[i] = final[i]
             /\ Rep(S, v[i], i, i - 1)
  <2>1. CASE i \in input.first
    <3>1. v[i] = S[i]
      BY <1>1, <2>1, Single DEF IInv, Start
    <3> HIDE DEF v, S
    <3> QED BY <1>1, <2>1, <3>1, Solved
  <2>2. CASE i \notin input.first
    <3>1. v[i] = input.offs[i] /\ v[i] = final[i]
      BY <1>1, <2>2 DEF Start
    <3> HIDE DEF v
    <3> QED BY <1>1, <2>2, <3>1, Single DEF IInv
  <2> QED BY <2>1, <2>2
<1>3. v = [i \in Lanes(b) |-> v[i]]
  BY DEF Start
<1> HIDE DEF v, S
<1>4. v \in [Lanes(b) -> Triple]
  BY <1>2, <1>3 DEF Rep
<1>5. Carried(S, b, FirstLane(b) - 1, 1, v)
  BY <1>1, <1>2, <1>4, CarriedOne
<1> QED BY <1>2, <1>5 DEF v, S

LEMMA ResolvedIs ==
  ASSUME IInv, NEW b \in Blocks, pc[b] = "queued"
  PROVE  /\ Resolved(b) \in [Lanes(b) -> Triple]
         /\ Rep(Sequential, Resolved(b)[LastLane(b)], LastLane(b), FirstLane(b) - 1)
         /\ \A i \in Lanes(b) : ~AnyEncoded(Resolved(b)[i]) => Resolved(b)[i] = Sequential[i]
<1> DEFINE v == Start(b)
           S == Sequential
           p == Resolved(b)
           last == LastLane(b)
<1>1. S \in Solutions /\ Lanes(b) \subseteq Streams /\ last \in Lanes(b)
      /\ FirstLane(b) \in Lanes(b)
  BY SequentialIs, Interval DEF IInv
<1>2. Carried(S, b, FirstLane(b) - 1, 1, v)
  BY StartIs
<1>3. p = IF AnyEncoded(v[last]) THEN Propagate(v) ELSE v
  BY DEF Resolved
<1> HIDE DEF v, S, p, last
<1>4. CASE AnyEncoded(v[last])
  <2>1. p \in [Lanes(b) -> Triple] /\ \A i \in Lanes(b) : Rep(S, p[i], i, FirstLane(b) - 1)
    BY <1>1, <1>2, <1>3, <1>4, TreeResult
  <2> QED BY <1>1, <2>1, WithoutSymbols DEF p, S, last
<1>5. CASE ~AnyEncoded(v[last])
  <2>1. p \in [Lanes(b) -> Triple]
    BY <1>3, <1>5, <1>2 DEF Carried
  <2>2. \A i \in Lanes(b) : \E j : Rep(S, p[i], i, j)
    BY <1>2, <1>3, <1>5 DEF Carried
  <2>3. ASSUME NEW i \in Lanes(b), ~AnyEncoded(p[i]) PROVE p[i] = S[i]
    <3>1. PICK j : Rep(S, p[i], i, j)
      BY <2>2
    <3> QED BY <1>1, <2>3, <3>1, WithoutSymbols
  <2>4. Rep(S, p[last], last, FirstLane(b) - 1)
    <3>1. p[last] = S[last]
      BY <1>1, <1>3, <1>5, <2>3
    <3> QED BY <1>1, <3>1, Solved
  <2> QED BY <2>1, <2>3, <2>4 DEF p, S, last
<1> QED BY <1>4, <1>5

\* Words of one flag.
LEMMA WordsTyped ==
  ASSUME NEW t \in Triple
  PROVE  /\ Words(Self, t) \in [Slots -> WordSet] /\ Words(Full, t) \in [Slots -> WordSet]
         /\ Values(Words(Self, t)) = t /\ Values(Words(Full, t)) = t
         /\ \A k \in Slots : /\ Words(Self, t)[k] = [flag |-> "Self", value |-> t[k]]
                             /\ Words(Full, t)[k] = [flag |-> "Full", value |-> t[k]]
<1>1. \A k \in Slots : t[k] \in Offset
  BY DEF Triple
<1>2. t = [k \in Slots |-> t[k]]
  BY DEF Triple
<1> QED BY <1>1, <1>2 DEF Words, Self, Full, WordSet, Values

LEMMA LaunchFacts ==
  ASSUME IInv, NEW b \in Blocks, Launch(b)
  PROVE  /\ pc[b] = "queued" /\ pc' = [pc EXCEPT ![b] = "publish"]
         /\ o' = [i \in Streams |-> IF i \in Lanes(b) THEN Start(b)[i] ELSE o[i]]
         /\ needs' = [i \in Streams |-> IF i \in Lanes(b) THEN i \in OpenLanes(b) ELSE needs[i]]
         /\ final' = [i \in Streams |->
                        IF i \in Lanes(b) /\ AnyEncoded(Start(b)[LastLane(b)]) /\ OpenLanes(b) = {}
                          THEN Resolved(b)[i] ELSE final[i]]
         /\ pub' = [pub EXCEPT ![b] =
                      IF LastLane(b) \in OpenLanes(b) THEN Words(Self, Resolved(b)[LastLane(b)])
                                                      ELSE Words(Full, Resolved(b)[LastLane(b)])]
         /\ input' = input /\ lookback' = lookback /\ word' = word /\ got' = got /\ prev' = prev
<1> DEFINE start == [i \in Lanes(b) |->
                       IF i \in input.first THEN ApplyPrevious(final[i], FrameDefaults)
                                            ELSE final[i]]
           direct == ~AnyEncoded(start[LastLane(b)])
           p == IF direct THEN start ELSE Propagate(start)
           open == {i \in Lanes(b) : AnyEncoded(p[i])}
<1>1. start = Start(b)
  BY DEF Start
<1>2. p = Resolved(b)
  BY <1>1 DEF Resolved
<1>3. open = OpenLanes(b)
  BY <1>2 DEF OpenLanes
<1>4. /\ o' = [i \in Streams |-> IF i \in Lanes(b) THEN start[i] ELSE o[i]]
      /\ needs' = [i \in Streams |-> IF i \in Lanes(b) THEN i \in open ELSE needs[i]]
      /\ final' = [i \in Streams |->
                     IF i \in Lanes(b) /\ ~direct /\ open = {} THEN p[i] ELSE final[i]]
      /\ pub' = [pub EXCEPT ![b] = IF LastLane(b) \in open THEN Words(Self, p[LastLane(b)])
                                                           ELSE Words(Full, p[LastLane(b)])]
      /\ pc[b] = "queued" /\ pc' = [pc EXCEPT ![b] = "publish"]
      /\ input' = input /\ lookback' = lookback /\ word' = word /\ got' = got /\ prev' = prev
  BY DEF Launch
<1>5. ~direct <=> AnyEncoded(Start(b)[LastLane(b)])
  BY <1>1
<1> HIDE DEF start, direct, p, open
<1> QED BY <1>1, <1>2, <1>3, <1>4, <1>5

LEMMA LaunchStep ==
  ASSUME IInv, NEW b \in Blocks, Launch(b)
  PROVE  IInv'
<1> DEFINE v == Start(b)
           S == Sequential
           p == Resolved(b)
           last == LastLane(b)
           open == OpenLanes(b)
<1>1. TypeOK /\ BlockOK(b) /\ pc[b] = "queued"
      /\ S \in Solutions /\ Lanes(b) \subseteq Streams /\ last \in Lanes(b)
  BY LaunchFacts, SequentialIs, Interval DEF IInv
<1>2. /\ Carried(S, b, FirstLane(b) - 1, 1, v) /\ v \in [Lanes(b) -> Triple]
      /\ \A i \in Lanes(b) : IF i \in input.first THEN v[i] = S[i] ELSE v[i] = final[i]
  BY <1>1, StartIs DEF Carried
<1>3. /\ p \in [Lanes(b) -> Triple] /\ Rep(S, p[last], last, FirstLane(b) - 1)
      /\ \A i \in Lanes(b) : ~AnyEncoded(p[i]) => p[i] = S[i]
  BY <1>1, ResolvedIs
<1>4. /\ pc' = [pc EXCEPT ![b] = "publish"]
      /\ o' = [i \in Streams |-> IF i \in Lanes(b) THEN v[i] ELSE o[i]]
      /\ needs' = [i \in Streams |-> IF i \in Lanes(b) THEN i \in open ELSE needs[i]]
      /\ final' = [i \in Streams |->
                     IF i \in Lanes(b) /\ AnyEncoded(v[last]) /\ open = {} THEN p[i] ELSE final[i]]
      /\ pub' = [pub EXCEPT ![b] = IF last \in open THEN Words(Self, p[last])
                                                    ELSE Words(Full, p[last])]
      /\ input' = input /\ lookback' = lookback /\ word' = word /\ got' = got /\ prev' = prev
  BY LaunchFacts
<1>5. \A i \in Lanes(b) : i \in open <=> AnyEncoded(p[i])
  BY DEF OpenLanes
<1>6. ~AnyEncoded(v[last]) => p = v
  BY DEF Resolved
<1>7. Sequential' = S
  BY <1>4, SequentialKept
<1> HIDE DEF v, S, p, last, open
<1>8. /\ Words(Self, p[last]) \in [Slots -> WordSet] /\ Words(Full, p[last]) \in [Slots -> WordSet]
      /\ Values(Words(Self, p[last])) = p[last] /\ Values(Words(Full, p[last])) = p[last]
      /\ \A k \in Slots : /\ Words(Self, p[last])[k] = [flag |-> "Self", value |-> p[last][k]]
                          /\ Words(Full, p[last])[k] = [flag |-> "Full", value |-> p[last][k]]
  <2>1. p[last] \in Triple
    BY <1>1, <1>3
  <2> QED BY <2>1, WordsTyped
<1>9. TypeOK'
  <2>1. pc' \in [Blocks -> {"queued", "publish", "read", "upgrade", "store", "done"}]
    BY <1>1, <1>4 DEF TypeOK
  <2>2. o' \in [Streams -> Triple]
    BY <1>1, <1>2, <1>4 DEF TypeOK
  <2>3. needs' \in [Streams -> BOOLEAN]
    <3>1. ASSUME NEW i \in Streams
          PROVE  (IF i \in Lanes(b) THEN i \in open ELSE needs[i]) \in BOOLEAN
      <4>1. needs[i] \in BOOLEAN
        BY <1>1 DEF TypeOK
      <4>2. CASE i \in Lanes(b)
        <5>1. (i \in open) \in BOOLEAN
          OBVIOUS
        <5> QED BY <4>2, <5>1, Zenon
      <4>3. CASE i \notin Lanes(b)
        BY <4>1, <4>3, Zenon
      <4> QED BY <4>2, <4>3
    <3> QED BY <1>4, <3>1
  <2>4. final' \in [Streams -> Triple]
    BY <1>1, <1>3, <1>4 DEF TypeOK
  <2>5. pub' \in [Blocks -> [Slots -> WordSet]]
    BY <1>1, <1>4, <1>8 DEF TypeOK
  <2> QED BY <1>1, <1>4, <2>1, <2>2, <2>3, <2>4, <2>5 DEF TypeOK
<1>10. Keeps
  BY <1>1, <1>4 DEF Keeps, TypeOK
<1>11. ASSUME NEW c \in Blocks, c # b PROVE BlockOK(c)'
  <2>1. \A i \in Lanes(c) : i \in Streams /\ i \notin Lanes(b)
    BY <1>11, OtherBlock, Interval
  <2>2. Same(c)
    BY <1>1, <1>4, <1>11, <2>1 DEF Same, TypeOK
  <2>3. BlockOK(c) /\ prev[c] \in Blocks
    BY DEF IInv, TypeOK
  <2> QED BY <1>4, <1>10, <2>2, <2>3, Frame
<1>12. BlockOK(b)'
  <2>1. pc'[b] = "publish" /\ got'[b] = NoWords /\ prev'[b] = prev[b] /\ lookback'[b] = lookback[b]
        /\ pub'[b] = IF last \in open THEN Words(Self, p[last]) ELSE Words(Full, p[last])
    BY <1>1, <1>4 DEF TypeOK, BlockOK
  <2>2. WordsOK(b, lookback[b])'
    <3>1. WordsOK(b, lookback[b])
      BY <1>1 DEF BlockOK
    <3> QED BY <1>4, <1>10, <2>1, <3>1, WordsKept
  <2>3. PubOK(b)'
    <3>1. Rep(S, Values(pub'[b]), last, FirstLane(b) - 1)
      BY <1>3, <1>8, <2>1
    <3>2. ASSUME NEW k \in Slots PROVE WordOK(b, k, pub[b][k])'
      <4>1. pub'[b][k] \in WordSet
        BY <1>8, <2>1
      <4>2. pub'[b][k].flag = "Full" => pub'[b][k].value = S[last][k]
        <5>1. CASE last \in open
          <6>1. pub'[b][k] = [flag |-> "Self", value |-> p[last][k]]
            BY <1>8, <2>1, <5>1
          <6> QED BY <6>1
        <5>2. CASE last \notin open
          <6>1. p[last] = S[last]
            BY <1>1, <1>3, <1>5, <5>2
          <6>2. pub'[b][k] = [flag |-> "Full", value |-> p[last][k]]
            BY <1>8, <2>1, <5>2
          <6> QED BY <6>1, <6>2
        <5> QED BY <5>1, <5>2
      <4> QED BY <1>7, <2>1, <4>1, <4>2 DEF WordOK, last
    <3> QED BY <1>7, <3>1, <3>2 DEF PubOK, WordsOK, last
  <2>4. LaneRegs(b)' = v
    <3>1. \A i \in Lanes(b) : o'[i] = v[i]
      BY <1>1, <1>4
    <3>2. v = [i \in Lanes(b) |-> v[i]]
      BY <1>2
    <3> QED BY <3>1, <3>2 DEF LaneRegs
  <2>5. RegsOK(b, FirstLane(b) - 1)'
    BY <1>2, <1>7, <2>4 DEF RegsOK
  <2>6. ASSUME ~WaveNeeds(b)' PROVE StoredEarly(b)'
    <3>1. \A i \in Lanes(b) : i \notin open
      BY <1>1, <1>4, <2>6 DEF WaveNeeds
    <3>2. open = {}
      BY <3>1 DEF open, OpenLanes
    <3>3. \A i \in Lanes(b) : p[i] = S[i]
      BY <1>3, <1>5, <3>1
    <3>4. ASSUME NEW i \in Lanes(b)
          PROVE  IF i \in input'.first THEN o'[i] = S[i] ELSE final'[i] = S[i]
      <4>1. i \in Streams /\ o'[i] = v[i]
        BY <1>1, <1>4
      <4>2. CASE i \in input.first
        BY <1>2, <1>4, <4>1, <4>2
      <4>3. CASE i \notin input.first /\ AnyEncoded(v[last])
        BY <1>4, <3>2, <3>3, <4>1, <4>3
      <4>4. CASE i \notin input.first /\ ~AnyEncoded(v[last])
        BY <1>2, <1>4, <1>6, <3>3, <4>1, <4>4
      <4> QED BY <4>2, <4>3, <4>4
    <3> QED BY <1>7, <3>4 DEF StoredEarly
  <2> QED BY <2>1, <2>2, <2>3, <2>5, <2>6 DEF BlockOK
<1>13. input' \in Inputs
  BY <1>4 DEF IInv
<1> QED BY <1>9, <1>11, <1>12, <1>13 DEF IInv

------------------------------------------------------------------------------
\* The words are published and upgraded.

LEMMA PubKept ==
  ASSUME NEW b \in Blocks, PubOK(b), Keeps, input' = input, pub'[b] = pub[b]
  PROVE  PubOK(b)'
<1>1. Sequential' = Sequential
  BY SequentialKept
<1>2. WordsOK(b, pub[b])'
  BY WordsKept DEF PubOK
<1> QED BY <1>1, <1>2 DEF PubOK

LEMMA RegsKept ==
  ASSUME NEW b \in Blocks, input' = input, o' = o, needs' = needs, final' = final
  PROVE  /\ WaveNeeds(b)' <=> WaveNeeds(b)
         /\ \A base : RegsOK(b, base) => RegsOK(b, base)'
         /\ StoredEarly(b) => StoredEarly(b)'
<1>1. Sequential' = Sequential /\ LaneRegs(b)' = LaneRegs(b)
  BY SequentialKept DEF LaneRegs
<1> QED BY <1>1 DEF WaveNeeds, RegsOK, StoredEarly

\* A word is replaced by one that is right as well.
LEMMA StoreWord ==
  ASSUME TypeOK, NEW b \in Blocks, NEW k \in Slots, NEW expected, NEW new,
         CompareStore(b, k, expected, new), WordOK(b, k, new), WordsOK(b, lookback[b])
  PROVE  /\ lookback' \in [Blocks -> [Slots -> WordSet]]
         /\ \A c \in Blocks : c # b => lookback'[c] = lookback[c]
         /\ WordsOK(b, lookback'[b])
<1>1. new \in WordSet
  BY DEF WordOK
<1>2. CASE lookback[b][k] = expected
  <2>1. lookback' = [lookback EXCEPT ![b][k] = new]
    BY <1>2 DEF CompareStore
  <2>2. /\ \A j \in Slots : lookback'[b][j] = IF j = k THEN new ELSE lookback[b][j]
        /\ lookback' \in [Blocks -> [Slots -> WordSet]]
        /\ \A c \in Blocks : c # b => lookback'[c] = lookback[c]
    BY <1>1, <2>1 DEF TypeOK
  <2> QED BY <2>2 DEF WordsOK
<1>3. CASE lookback[b][k] # expected
  BY <1>3 DEF CompareStore, TypeOK
<1> QED BY <1>2, <1>3

LEMMA NextWordTyped ==
  ASSUME word \in [Blocks -> Slots], NEW b \in Blocks
  PROVE  [word EXCEPT ![b] = IF @ = 3 THEN 1 ELSE @ + 1] \in [Blocks -> Slots]
<1>1. word[b] \in Slots
  OBVIOUS
<1>2. (IF word[b] = 3 THEN 1 ELSE word[b] + 1) \in Slots
  BY <1>1 DEF Slots
<1> QED BY <1>2

LEMMA PublishStep ==
  ASSUME IInv, NEW b \in Blocks, PublishWord(b)
  PROVE  IInv'
<1> DEFINE k == word[b]
           read == b # 0 /\ WaveNeeds(b)
           next == IF k < 3 THEN "publish" ELSE IF read THEN "read"
                   ELSE IF needs[LastLane(b)] THEN "upgrade" ELSE "store"
<1>1. TypeOK /\ BlockOK(b) /\ pc[b] = "publish" /\ PubOK(b) /\ k \in Slots
      /\ LastLane(b) \in Lanes(b) /\ RegsOK(b, FirstLane(b) - 1) /\ got[b] = NoWords
      /\ WordsOK(b, lookback[b])
  BY Interval DEF IInv, BlockOK, PublishWord, TypeOK
<1>2. /\ CompareStore(b, k, Zeroed, pub[b][k])
      /\ word' = [word EXCEPT ![b] = IF @ = 3 THEN 1 ELSE @ + 1]
      /\ pc' = [pc EXCEPT ![b] = next]
      /\ prev' = [prev EXCEPT ![b] = IF b # 0 THEN b - 1 ELSE 0]
      /\ input' = input /\ final' = final /\ o' = o /\ needs' = needs /\ pub' = pub /\ got' = got
  BY <1>1 DEF PublishWord, NextWord
<1>3. /\ next \in {"publish", "read", "upgrade", "store"}
      /\ next = "read" => read
      /\ next = "upgrade" => WaveNeeds(b) /\ b = 0
      /\ next = "store" /\ WaveNeeds(b) => b = 0
  BY <1>1 DEF WaveNeeds
<1> HIDE DEF next, read, k
<1>4. /\ lookback' \in [Blocks -> [Slots -> WordSet]]
      /\ \A c \in Blocks : c # b => lookback'[c] = lookback[c]
      /\ WordsOK(b, lookback'[b])
  <2>1. WordOK(b, k, pub[b][k])
    BY <1>1 DEF PubOK, WordsOK
  <2> QED BY <1>1, <1>2, <2>1, StoreWord
<1>5. TypeOK'
  <2>1. pc' \in [Blocks -> {"queued", "publish", "read", "upgrade", "store", "done"}]
    BY <1>1, <1>2, <1>3 DEF TypeOK
  <2>2. word' \in [Blocks -> Slots]
    BY <1>1, <1>2, NextWordTyped DEF TypeOK
  <2>3. prev' \in [Blocks -> Blocks]
    BY <1>1, <1>2, BlockRange DEF TypeOK
  <2> QED BY <1>1, <1>2, <1>4, <2>1, <2>2, <2>3 DEF TypeOK
<1>6. pc'[b] = next /\ prev'[b] = IF b # 0 THEN b - 1 ELSE 0
  BY <1>1, <1>2 DEF TypeOK
<1>7. Keeps
  BY <1>1, <1>2, <1>3 DEF Keeps, TypeOK
<1>8. ASSUME NEW c \in Blocks, c # b PROVE BlockOK(c)'
  <2>1. Same(c)
    BY <1>1, <1>2, <1>4, <1>8 DEF Same, TypeOK
  <2>2. BlockOK(c) /\ prev[c] \in Blocks
    BY DEF IInv, TypeOK
  <2> QED BY <1>2, <1>7, <2>1, <2>2, Frame
<1>9. BlockOK(b)'
  <2>1. WordsOK(b, lookback[b])'
    BY <1>2, <1>4, <1>7, WordsKept
  <2>2. PubOK(b)'
    BY <1>1, <1>2, <1>7, PubKept
  <2>3. /\ WaveNeeds(b)' <=> WaveNeeds(b)
        /\ RegsOK(b, FirstLane(b) - 1)'
        /\ ~WaveNeeds(b) => StoredEarly(b)'
    BY <1>1, <1>2, RegsKept DEF BlockOK
  <2>4. got'[b] = NoWords
    BY <1>1, <1>2
  <2>5. ASSUME next = "read"
        PROVE  b # 0 /\ WaveNeeds(b) /\ WordsOK(prev[b], got[b])' /\ RegsOK(b, LastLane(prev[b]))'
    <3>1. b # 0 /\ WaveNeeds(b) /\ prev'[b] = b - 1 /\ LastLane(b - 1) = FirstLane(b) - 1
      BY <1>3, <1>6, <2>5, NextBlock DEF read
    <3>2. WordsOK(prev[b], got[b])'
      <4>1. NoWords \in [Slots -> WordSet] /\ \A j \in Slots : NoWords[j].flag = "Zero"
        BY DEF NoWords, Zeroed, WordSet, Number, Offset
      <4> QED BY <2>4, <4>1 DEF WordsOK, WordOK
    <3>3. RegsOK(b, LastLane(prev[b]))'
      BY <2>3, <3>1
    <3> QED BY <3>1, <3>2, <3>3
  <2>6. ASSUME next \in {"upgrade", "store"}, WaveNeeds(b) PROVE RegsOK(b, -1)'
    <3>1. b = 0 /\ FirstLane(b) - 1 = -1
      BY <1>3, <2>6, BlockSizeAssumption DEF FirstLane
    <3> QED BY <2>3, <3>1
  <2> QED BY <1>3, <1>6, <2>1, <2>2, <2>3, <2>4, <2>5, <2>6 DEF BlockOK
<1>10. input' \in Inputs
  BY <1>2 DEF IInv
<1> QED BY <1>5, <1>8, <1>9, <1>10 DEF IInv

LEMMA UpgradeStep ==
  ASSUME IInv, NEW b \in Blocks, UpgradeWord(b)
  PROVE  IInv'
<1> DEFINE k == word[b]
           last == LastLane(b)
           x == Propagate(LaneRegs(b))[last]
           next == IF k < 3 THEN "upgrade" ELSE "store"
<1>1. TypeOK /\ BlockOK(b) /\ pc[b] = "upgrade" /\ PubOK(b) /\ k \in Slots /\ WaveNeeds(b)
      /\ last \in Lanes(b) /\ RegsOK(b, -1) /\ WordsOK(b, lookback[b])
  BY Interval DEF IInv, BlockOK, UpgradeWord, TypeOK
<1>2. Sequential \in Solutions /\ -1 \notin Streams /\ Lanes(b) \subseteq Streams
  BY SequentialIs, Interval DEF IInv, Streams
<1>3. x = Sequential[last]
  <2>1. Rep(Sequential, x, last, -1)
    BY <1>1, <1>2, TreeResult DEF RegsOK
  <2> QED BY <1>1, <1>2, <2>1, WithoutSymbols
<1>4. /\ CompareStore(b, k, pub[b][k], Full(x[k]))
      /\ word' = [word EXCEPT ![b] = IF @ = 3 THEN 1 ELSE @ + 1]
      /\ pc' = [pc EXCEPT ![b] = next]
      /\ input' = input /\ final' = final /\ o' = o /\ needs' = needs /\ pub' = pub /\ got' = got
      /\ prev' = prev
  BY <1>1 DEF UpgradeWord, NextWord
<1>5. next \in {"upgrade", "store"}
  OBVIOUS
<1> HIDE DEF next, x, k, last
<1>6. /\ lookback' \in [Blocks -> [Slots -> WordSet]]
      /\ \A c \in Blocks : c # b => lookback'[c] = lookback[c]
      /\ WordsOK(b, lookback'[b])
  <2>1. x[k] \in Offset
    BY <1>1, <1>2, <1>3, KnownFacts DEF Solutions
  <2>2. WordOK(b, k, Full(x[k]))
    BY <1>1, <1>3, <2>1 DEF WordOK, WordSet, Full, last
  <2> QED BY <1>1, <1>4, <2>2, StoreWord
<1>7. TypeOK'
  <2>1. pc' \in [Blocks -> {"queued", "publish", "read", "upgrade", "store", "done"}]
    BY <1>1, <1>4, <1>5 DEF TypeOK
  <2>2. word' \in [Blocks -> Slots]
    BY <1>1, <1>4, NextWordTyped DEF TypeOK
  <2> QED BY <1>1, <1>4, <1>6, <2>1, <2>2 DEF TypeOK
<1>8. pc'[b] = next
  BY <1>1, <1>4 DEF TypeOK
<1>9. Keeps
  BY <1>1, <1>4, <1>5 DEF Keeps, TypeOK
<1>10. ASSUME NEW c \in Blocks, c # b PROVE BlockOK(c)'
  <2>1. Same(c)
    BY <1>1, <1>4, <1>6, <1>10 DEF Same, TypeOK
  <2>2. BlockOK(c) /\ prev[c] \in Blocks
    BY DEF IInv, TypeOK
  <2> QED BY <1>4, <1>9, <2>1, <2>2, Frame
<1>11. BlockOK(b)'
  <2>1. WordsOK(b, lookback[b])'
    BY <1>4, <1>6, <1>9, WordsKept
  <2>2. PubOK(b)'
    BY <1>1, <1>4, <1>9, PubKept
  <2>3. WaveNeeds(b)' /\ RegsOK(b, -1)'
    BY <1>1, <1>4, RegsKept
  <2> QED BY <1>5, <1>8, <2>1, <2>2, <2>3 DEF BlockOK
<1>12. input' \in Inputs
  BY <1>4 DEF IInv
<1> QED BY <1>7, <1>10, <1>11, <1>12 DEF IInv

------------------------------------------------------------------------------
\* The walk.

\* The words a wave holds once it has read one more.
Held(b) == [got[b] EXCEPT ![word[b]] = lookback[prev[b]][word[b]]]

Accepts(b) == word[b] = 3 /\ (SameFlag(Held(b), "Self") \/ SameFlag(Held(b), "Full"))

Ends(b) == Accepts(b) /\ EndsWalk(Held(b), prev[b])

LEMMA HeldIs ==
  ASSUME IInv, NEW b \in Blocks, pc[b] = "read"
  PROVE  Held(b) \in [Slots -> WordSet] /\ WordsOK(prev[b], Held(b))
<1>1. prev[b] \in Blocks /\ word[b] \in Slots /\ got[b] \in [Slots -> WordSet]
      /\ WordsOK(prev[b], got[b])
  BY DEF IInv, TypeOK, BlockOK
<1>2. WordsOK(prev[b], lookback[prev[b]]) /\ lookback[prev[b]] \in [Slots -> WordSet]
  BY <1>1 DEF IInv, TypeOK, BlockOK
<1>3. \A k \in Slots : Held(b)[k] = IF k = word[b] THEN lookback[prev[b]][k] ELSE got[b][k]
  BY <1>1 DEF Held
<1>4. Held(b) \in [Slots -> WordSet]
  BY <1>1, <1>2 DEF Held
<1> QED BY <1>1, <1>2, <1>3, <1>4 DEF WordsOK

\* Three words of one flag are a triple of one decoder state, or what the
\* block published first.
LEMMA AcceptedIs ==
  ASSUME IInv, NEW b \in Blocks, pc[b] = "read", Accepts(b)
  PROVE  LET a == prev[b]
             t == ApplyPrevious(o[FirstLane(b)], Values(Held(b)))
         IN /\ Ends(b) => Rep(Sequential, t, FirstLane(b), -1)
            /\ ~Ends(b) => a # 0 /\ Rep(Sequential, t, FirstLane(b), LastLane(a - 1))
<1> DEFINE a == prev[b]
           S == Sequential
           w == Held(b)
           f == FirstLane(b)
           t == ApplyPrevious(o[f], Values(w))
<1>1. /\ S \in Solutions /\ a \in Blocks /\ f \in Lanes(b) /\ f \in Streams
      /\ LastLane(a) \in Streams /\ w \in [Slots -> WordSet] /\ WordsOK(a, w)
  BY SequentialIs, Interval, HeldIs DEF IInv, TypeOK
<1>2. Rep(S, o[f], f, LastLane(a))
  <2>1. Carried(S, b, LastLane(a), 1, LaneRegs(b))
    BY DEF IInv, BlockOK, RegsOK
  <2>2. LaneRegs(b)[f] = o[f]
    BY <1>1 DEF LaneRegs
  <2> QED BY <2>1, <2>2, CarriedOne
<1>3. Ends(b) <=> SameFlag(w, "Full") \/ a = 0
  BY DEF Ends, EndsWalk
<1>4. SameFlag(w, "Self") \/ SameFlag(w, "Full")
  BY DEF Accepts
<1>5. a # 0 => LastLane(a - 1) = FirstLane(a) - 1
  BY <1>1, NextBlock
<1>6. a = 0 => FirstLane(a) - 1 = -1
  BY BlockSizeAssumption DEF FirstLane
<1> HIDE DEF S, a, w, f
<1>7. CASE SameFlag(w, "Full")
  <2>1. Values(w) = S[LastLane(a)]
    <3>1. \A k \in Slots : w[k].value = S[LastLane(a)][k]
      BY <1>1, <1>7 DEF SameFlag, WordsOK, WordOK, S
    <3> QED BY <1>1, <3>1 DEF Values, Solutions
  <2>2. Rep(S, t, f, -1)
    BY <1>1, <1>2, <2>1, Solved, Composes
  <2> QED BY <1>3, <1>7, <2>2 DEF S, a, w, f
<1>8. CASE SameFlag(w, "Self") /\ ~SameFlag(w, "Full")
  <2>1. \A k \in Slots : w[k] = pub[a][k] /\ pc[a] # "queued"
    BY <1>1, <1>8 DEF SameFlag, WordsOK, WordOK
  <2>2. PubOK(a)
    <3>1. 1 \in Slots
      BY DEF Slots
    <3> QED BY <1>1, <2>1, <3>1 DEF IInv, BlockOK
  <2>3. Values(w) = Values(pub[a])
    BY <2>1 DEF Values
  <2>4. Rep(S, t, f, FirstLane(a) - 1)
    BY <1>1, <1>2, <2>2, <2>3, Composes DEF PubOK, S
  <2> HIDE DEF t
  <2>5. Ends(b) => Rep(S, t, f, -1)
    BY <1>3, <1>6, <1>8, <2>4
  <2>6. ~Ends(b) => a # 0 /\ Rep(S, t, f, LastLane(a - 1))
    BY <1>3, <1>5, <2>4
  <2> QED BY <2>5, <2>6 DEF S, a, w, f, t
<1> QED BY <1>4, <1>7, <1>8

LEMMA ReadFacts ==
  ASSUME IInv, NEW b \in Blocks, ReadWord(b)
  PROVE  /\ pc[b] = "read"
         /\ word' = [word EXCEPT ![b] = IF @ = 3 THEN 1 ELSE @ + 1]
         /\ got' = [got EXCEPT ![b] = IF word[b] = 3 THEN NoWords ELSE Held(b)]
         /\ o' = [o EXCEPT ![FirstLane(b)] =
                    IF Accepts(b) THEN ApplyPrevious(o[FirstLane(b)], Values(Held(b)))
                                  ELSE o[FirstLane(b)]]
         /\ prev' = [prev EXCEPT ![b] = IF Accepts(b) /\ ~Ends(b) THEN prev[b] - 1 ELSE prev[b]]
         /\ pc' = [pc EXCEPT ![b] = IF ~Ends(b) THEN "read"
                                    ELSE IF needs[LastLane(b)] THEN "upgrade" ELSE "store"]
         /\ input' = input /\ final' = final /\ lookback' = lookback /\ needs' = needs
         /\ pub' = pub
<1>1. FirstLane(b) \in Streams /\ o \in [Streams -> Triple] /\ prev \in [Blocks -> Blocks]
      /\ pc \in [Blocks -> {"queued", "publish", "read", "upgrade", "store", "done"}]
  BY Interval DEF IInv, TypeOK
<1> QED BY <1>1 DEF ReadWord, NextWord, Held, Accepts, Ends, Values

LEMMA ReadStep ==
  ASSUME IInv, NEW b \in Blocks, ReadWord(b)
  PROVE  IInv'
<1> DEFINE f == FirstLane(b)
           a == prev[b]
           t == ApplyPrevious(o[f], Values(Held(b)))
           next == IF ~Ends(b) THEN "read"
                   ELSE IF needs[LastLane(b)] THEN "upgrade" ELSE "store"
           S == Sequential
           before == IF Ends(b) THEN -1
                     ELSE IF Accepts(b) THEN LastLane(a - 1) ELSE LastLane(a)
<1>1. /\ TypeOK /\ BlockOK(b) /\ pc[b] = "read" /\ PubOK(b) /\ WaveNeeds(b) /\ b # 0
      /\ WordsOK(b, lookback[b]) /\ RegsOK(b, LastLane(a)) /\ a \in Blocks
      /\ f \in Lanes(b) /\ Lanes(b) \subseteq Streams
  BY ReadFacts, Interval DEF IInv, BlockOK, TypeOK
<1>2. /\ word' = [word EXCEPT ![b] = IF @ = 3 THEN 1 ELSE @ + 1]
      /\ got' = [got EXCEPT ![b] = IF word[b] = 3 THEN NoWords ELSE Held(b)]
      /\ o' = [o EXCEPT ![f] = IF Accepts(b) THEN t ELSE o[f]]
      /\ prev' = [prev EXCEPT ![b] = IF Accepts(b) /\ ~Ends(b) THEN a - 1 ELSE a]
      /\ pc' = [pc EXCEPT ![b] = next]
      /\ input' = input /\ final' = final /\ lookback' = lookback /\ needs' = needs /\ pub' = pub
  BY ReadFacts
<1>3. Held(b) \in [Slots -> WordSet] /\ WordsOK(a, Held(b))
  BY <1>1, HeldIs
<1>4. /\ Ends(b) => Accepts(b)
      /\ Accepts(b) /\ Ends(b) => Rep(S, t, f, -1)
      /\ Accepts(b) /\ ~Ends(b) => a # 0 /\ Rep(S, t, f, LastLane(a - 1))
  BY <1>1, AcceptedIs DEF Ends
<1>5. /\ LaneRegs(b) \in [Lanes(b) -> Triple] /\ Rep(S, o[f], f, LastLane(a))
      /\ \A i \in Lanes(b) : i # f => Rep(S, o[i], i, i - 1)
  <2>1. Carried(S, b, LastLane(a), 1, LaneRegs(b))
    BY <1>1 DEF RegsOK
  <2>2. \A i \in Lanes(b) : LaneRegs(b)[i] = o[i]
    BY DEF LaneRegs
  <2> QED BY <1>1, <2>1, <2>2, CarriedOne
<1>6. next \in {"read", "upgrade", "store"} /\ (next = "read" <=> ~Ends(b))
  OBVIOUS
<1>7. Sequential' = S
  BY <1>2, SequentialKept
<1>8. NoWords \in [Slots -> WordSet] /\ \A c \in Blocks : WordsOK(c, NoWords)
  BY DEF NoWords, Zeroed, WordSet, Number, Offset, WordsOK, WordOK
<1> HIDE DEF f, a, t, next, S
<1>9. Rep(S, o'[f], f, before) /\ o'[f] \in Triple
  <2>1. o'[f] = IF Accepts(b) THEN t ELSE o[f]
    BY <1>1, <1>2 DEF TypeOK
  <2> QED BY <1>4, <1>5, <2>1 DEF Rep
<1>10. TypeOK'
  <2>1. pc' \in [Blocks -> {"queued", "publish", "read", "upgrade", "store", "done"}]
    BY <1>1, <1>2, <1>6 DEF TypeOK
  <2>2. word' \in [Blocks -> Slots]
    BY <1>1, <1>2, NextWordTyped DEF TypeOK
  <2>3. got' \in [Blocks -> [Slots -> WordSet]]
    BY <1>1, <1>2, <1>3, <1>8 DEF TypeOK
  <2>4. o' \in [Streams -> Triple]
    BY <1>1, <1>2, <1>9 DEF TypeOK
  <2>5. prev' \in [Blocks -> Blocks]
    <3>1. Accepts(b) /\ ~Ends(b) => a - 1 \in Blocks
      BY <1>1, <1>4, BlockRange
    <3> QED BY <1>1, <1>2, <3>1 DEF TypeOK
  <2> QED BY <1>1, <1>2, <2>1, <2>2, <2>3, <2>4, <2>5 DEF TypeOK
<1>11. /\ pc'[b] = next
       /\ prev'[b] = IF Accepts(b) /\ ~Ends(b) THEN a - 1 ELSE a
       /\ got'[b] = IF word[b] = 3 THEN NoWords ELSE Held(b)
  BY <1>1, <1>2 DEF TypeOK
<1>12. Keeps
  BY <1>1, <1>2, <1>6 DEF Keeps, TypeOK
<1>13. ASSUME NEW c \in Blocks, c # b PROVE BlockOK(c)'
  <2>1. \A i \in Lanes(c) : i \in Streams /\ i # f
    BY <1>1, <1>13, OtherBlock, Interval
  <2>2. Same(c)
    BY <1>1, <1>2, <1>13, <2>1 DEF Same, TypeOK
  <2>3. BlockOK(c) /\ prev[c] \in Blocks
    BY DEF IInv, TypeOK
  <2> QED BY <1>2, <1>12, <2>2, <2>3, Frame
<1>14. BlockOK(b)'
  <2>1. WordsOK(b, lookback[b])'
    BY <1>1, <1>2, <1>12, WordsKept
  <2>2. PubOK(b)'
    BY <1>1, <1>2, <1>12, PubKept
  <2>3. WaveNeeds(b)'
    BY <1>1, <1>2 DEF WaveNeeds
  <2>4. Carried(S, b, before, 1, LaneRegs(b)')
    <3>1. \A i \in Lanes(b) : i # f => o'[i] = o[i]
      BY <1>1, <1>2 DEF TypeOK
    <3>2. LaneRegs(b)' = [i \in Lanes(b) |-> o'[i]] /\ \A i \in Lanes(b) : o'[i] \in Triple
      BY <1>1, <1>10 DEF LaneRegs, TypeOK
    <3>3. LaneRegs(b)' \in [Lanes(b) -> Triple] /\ \A i \in Lanes(b) : LaneRegs(b)'[i] = o'[i]
      BY <3>2
    <3>4. \A i \in Lanes(b) : i # f => Rep(S, LaneRegs(b)'[i], i, i - 1)
      BY <1>5, <3>1, <3>3
    <3>5. Rep(S, LaneRegs(b)'[f], f, before)
      BY <1>1, <1>9, <3>3
    <3> HIDE DEF before
    <3> QED BY <3>3, <3>4, <3>5, CarriedOne DEF f
  <2>5. ASSUME ~Ends(b)
        PROVE  WordsOK(prev[b], got[b])' /\ RegsOK(b, LastLane(prev[b]))'
    <3>1. before = LastLane(prev'[b])
      BY <1>11, <2>5
    <3>2. WordsOK(a, NoWords) /\ WordsOK(a, Held(b))
      BY <1>1, <1>3, <1>8
    <3>3. WordsOK(prev[b], got[b])'
      <4>1. CASE Accepts(b)
        <5>1. got'[b] = NoWords /\ prev'[b] \in Blocks /\ WordsOK(prev'[b], NoWords)
          BY <1>1, <1>8, <1>10, <1>11, <4>1 DEF Accepts, TypeOK
        <5> QED BY <1>2, <1>12, <5>1, WordsKept
      <4>2. CASE ~Accepts(b)
        <5>1. prev'[b] = a /\ WordsOK(a, got'[b])
          BY <1>11, <3>2, <4>2
        <5> QED BY <1>1, <1>2, <1>12, <5>1, WordsKept
      <4> QED BY <4>1, <4>2
    <3> QED BY <1>7, <2>4, <3>1, <3>3 DEF RegsOK
  <2>6. ASSUME Ends(b) PROVE RegsOK(b, -1)'
    BY <1>7, <2>4, <2>6 DEF RegsOK
  <2> QED BY <1>1, <1>6, <1>11, <2>1, <2>2, <2>3, <2>5, <2>6 DEF BlockOK
<1>15. input' \in Inputs
  BY <1>2 DEF IInv
<1> QED BY <1>10, <1>13, <1>14, <1>15 DEF IInv

------------------------------------------------------------------------------
\* The result.

LEMMA StoreStep ==
  ASSUME IInv, NEW b \in Blocks, StoreResult(b)
  PROVE  IInv'
<1> DEFINE S == Sequential
           p == Propagate(LaneRegs(b))
<1>1. /\ TypeOK /\ BlockOK(b) /\ pc[b] = "store" /\ PubOK(b) /\ WordsOK(b, lookback[b])
      /\ WaveNeeds(b) => RegsOK(b, -1)
      /\ ~WaveNeeds(b) => StoredEarly(b)
      /\ S \in Solutions /\ Lanes(b) \subseteq Streams /\ -1 \notin Streams
  BY SequentialIs, Interval DEF IInv, BlockOK, StoreResult, Streams
<1>2. WaveNeeds(b) => \A i \in Lanes(b) : p[i] = S[i]
  <2> SUFFICES ASSUME WaveNeeds(b), NEW i \in Lanes(b) PROVE p[i] = S[i]
    OBVIOUS
  <2>1. Rep(S, p[i], i, -1)
    BY <1>1, TreeResult DEF RegsOK
  <2> HIDE DEF p, S
  <2> QED BY <1>1, <2>1, WithoutSymbols
<1>3. /\ final' = [i \in Streams |-> IF i \in Lanes(b) /\ WaveNeeds(b) THEN p[i]
                                     ELSE IF i \in Lanes(b) \cap input.first THEN o[i]
                                     ELSE final[i]]
      /\ pc' = [pc EXCEPT ![b] = "done"]
      /\ input' = input /\ lookback' = lookback /\ word' = word /\ o' = o /\ needs' = needs
      /\ pub' = pub /\ got' = got /\ prev' = prev
  BY DEF StoreResult
<1>4. Sequential' = S
  BY <1>3, SequentialKept
<1> HIDE DEF p
<1>5. ASSUME NEW i \in Lanes(b) PROVE final'[i] = S[i]
  <2>1. i \in Streams
    BY <1>1
  <2>2. CASE WaveNeeds(b)
    BY <1>2, <1>3, <2>1, <2>2
  <2>3. CASE ~WaveNeeds(b)
    <3>1. IF i \in input.first THEN o[i] = S[i] ELSE final[i] = S[i]
      BY <1>1, <2>3 DEF StoredEarly
    <3> QED BY <1>3, <2>1, <2>3, <3>1
  <2> QED BY <2>2, <2>3
<1>6. TypeOK'
  <2>1. ASSUME NEW i \in Streams PROVE final'[i] \in Triple
    <3>1. CASE i \in Lanes(b)
      <4>1. Rep(S, S[i], i, -1)
        BY <1>1, Solved
      <4> QED BY <1>5, <3>1, <4>1 DEF Rep
    <3>2. CASE i \notin Lanes(b)
      BY <1>1, <1>3, <3>2 DEF TypeOK
    <3> QED BY <3>1, <3>2
  <2>2. final' = [i \in Streams |-> final'[i]]
    BY <1>3
  <2>3. final' \in [Streams -> Triple]
    BY <2>1, <2>2
  <2> QED BY <1>1, <1>3, <2>3 DEF TypeOK
<1>7. Keeps
  BY <1>1, <1>3 DEF Keeps, TypeOK
<1>8. ASSUME NEW c \in Blocks, c # b PROVE BlockOK(c)'
  <2>1. \A i \in Lanes(c) : i \in Streams /\ i \notin Lanes(b)
    BY <1>8, OtherBlock, Interval
  <2>2. Same(c)
    BY <1>1, <1>3, <1>8, <2>1 DEF Same, TypeOK
  <2>3. BlockOK(c) /\ prev[c] \in Blocks
    BY DEF IInv, TypeOK
  <2> QED BY <1>3, <1>7, <2>2, <2>3, Frame
<1>9. BlockOK(b)'
  <2>1. pc'[b] = "done"
    BY <1>1, <1>3 DEF TypeOK
  <2>2. WordsOK(b, lookback[b])' /\ PubOK(b)'
    BY <1>1, <1>3, <1>7, WordsKept, PubKept
  <2>3. \A i \in Lanes(b) : final'[i] = Sequential'[i]
    BY <1>4, <1>5
  <2> QED BY <2>1, <2>2, <2>3 DEF BlockOK
<1>10. input' \in Inputs
  BY <1>3 DEF IInv
<1> QED BY <1>6, <1>8, <1>9, <1>10 DEF IInv

------------------------------------------------------------------------------
\* The theorems.

LEMMA NextInv == IInv /\ [Next]_vars => IInv'
<1> SUFFICES ASSUME IInv, [Next]_vars PROVE IInv'
  OBVIOUS
<1>1. CASE UNCHANGED vars
  <2>1. TypeOK' /\ input' = input /\ input' \in Inputs /\ Keeps
    BY <1>1 DEF vars, IInv, TypeOK, Keeps
  <2>2. ASSUME NEW b \in Blocks PROVE BlockOK(b)'
    <3>1. Same(b)
      BY <1>1 DEF vars, Same
    <3>2. BlockOK(b) /\ prev[b] \in Blocks
      BY DEF IInv, TypeOK
    <3> QED BY <2>1, <3>1, <3>2, Frame
  <2> QED BY <2>1, <2>2 DEF IInv
<1>2. CASE Next
  <2>1. PICK b \in Blocks : Launch(b) \/ Wave(b)
    BY <1>2 DEF Next
  <2> QED BY <2>1, LaunchStep, PublishStep, ReadStep, UpgradeStep, StoreStep DEF Wave
<1> QED BY <1>1, <1>2

THEOREM Invariant == Spec => []IInv
<1> QED BY InitInv, NextInv, PTL DEF Spec

\* The offsets, the words and the registers of the waves stay in their ranges:
\* no subtraction goes below zero and no symbol names a slot that is not there.
THEOREM TypeCorrect == Spec => []TypeOK
<1>1. IInv => TypeOK
  BY DEF IInv
<1> QED BY <1>1, Invariant, PTL

\* Every Full word is the sequential decoder's after the block, at any time
\* between the three stores of a wave.
THEOREM FullWords == Spec => []FullWordsSequential
<1>1. IInv => FullWordsSequential
  BY DEF IInv, BlockOK, WordsOK, WordOK, FullWordsSequential
<1> QED BY <1>1, Invariant, PTL

\* A wave that walks loses nothing of what it composes, whatever mix of words
\* first published and upgraded it meets.
THEOREM WalkComposes == Spec => []WalkComposesSequentially
<1>1. ASSUME IInv PROVE WalkComposesSequentially
  <2> SUFFICES ASSUME NEW b \in Blocks, pc[b] = "read"
               PROVE  ApplyPrevious(o[FirstLane(b)], Sequential[LastLane(prev[b])])
                        = Sequential[FirstLane(b)]
    BY DEF WalkComposesSequentially
  <2> DEFINE S == Sequential
             f == FirstLane(b)
             l == LastLane(prev[b])
  <2>1. S \in Solutions /\ f \in Streams /\ f \in Lanes(b) /\ l \in Streams
    BY <1>1, SequentialIs, Interval DEF IInv, TypeOK
  <2>2. Carried(S, b, l, 1, LaneRegs(b)) /\ LaneRegs(b)[f] = o[f]
    BY <1>1, <2>1 DEF IInv, BlockOK, RegsOK, LaneRegs
  <2>3. Rep(S, o[f], f, l)
    BY <2>2, CarriedOne
  <2> HIDE DEF S, f, l
  <2>4. ApplyPrevious(o[f], S[l]) = S[f]
    BY <2>1, <2>3, Substituted
  <2> QED BY <2>4 DEF S, f, l
<1> QED BY <1>1, Invariant, PTL

\* When a wave has ended, its streams hold the offsets of a sequential decoder
\* and no symbol is left (the kernel's result).
THEOREM StoredSequential == Spec => []StoredOffsetsSequential
<1>1. ASSUME IInv PROVE StoredOffsetsSequential
  <2> SUFFICES ASSUME NEW b \in Blocks, pc[b] = "done", NEW i \in Lanes(b)
               PROVE  final[i] = Sequential[i] /\ ~AnyEncoded(final[i])
    BY DEF StoredOffsetsSequential
  <2>1. Sequential \in Solutions /\ i \in Streams /\ final[i] = Sequential[i]
    BY <1>1, SequentialIs, Interval DEF IInv, BlockOK
  <2> QED BY <2>1, Solved
<1> QED BY <1>1, Invariant, PTL

------------------------------------------------------------------------------
\* The streams decoded from symbols.

\* An offset no slot of which is the code's "invalid (zero)".
AllSet(t) == \A k \in Slots : ~IsUnset(t[k])

\* What the symbol (or number) x stands for behind the numbers p.
StandsFor(x, p) == IF IsEncoded(x) THEN Minus(p[x.rep], x.n) ELSE x

\* Without unset slots, substitution is pointwise.
LEMMA ApplyIsPointwise ==
  ASSUME NEW t, AllSet(t), NEW p
  PROVE  ApplyPrevious(t, p) = [k \in Slots |-> StandsFor(t[k], p)]
BY DEF ApplyPrevious, AllSet, StandsFor

\* Subtracting a byte from a symbol is subtracting it from what it stands for.
LEMMA MinusResolved ==
  ASSUME NEW x \in Offset, NEW p \in NumberTriples
  PROVE  StandsFor(Minus(x, 1), p) = Minus(StandsFor(x, p), 1)
<1>1. CASE x.rep = 0
  BY <1>1 DEF StandsFor, Minus, IsEncoded, Offset
<1>2. CASE x.rep # 0
  <2>1. x.rep \in Slots /\ IsEncoded(x) /\ IsEncoded(Minus(x, 1))
    BY <1>2 DEF Offset, IsEncoded, Minus, Slots
  <2>2. p[x.rep] \in Offset /\ p[x.rep].rep = 0
    BY <2>1 DEF NumberTriples
  <2> QED  BY <2>1, <2>2 DEF StandsFor, Minus, IsEncoded, Offset
<1> QED  BY <1>1, <1>2

\* A sequence does the same to the symbols as to what they stand for: the
\* blocks can be decoded before anything is known of the block before.
LEMMA UpdateCommutesWithApply ==
  ASSUME NEW t \in Triple, AllSet(t), NEW p \in NumberTriples,
         NEW offset \in Nat \ {0}, NEW llen \in Nat,
         UpdatePrevious(ApplyPrevious(t, p), offset, llen) \in NumberTriples
  PROVE  LET u == UpdatePrevious(t, offset, llen)
         IN /\ u \in Triple
            /\ AllSet(u)
            /\ ApplyPrevious(u, p) = UpdatePrevious(ApplyPrevious(t, p), offset, llen)
<1> DEFINE adj == IF offset <= 3 /\ llen = 0 THEN offset + 1 ELSE offset
           R(x) == StandsFor(x, p)
           a == ApplyPrevious(t, p)
           u == UpdatePrevious(t, offset, llen)
           v == UpdatePrevious(a, offset, llen)
<1>1. a = [k \in Slots |-> R(t[k])]
  BY ApplyIsPointwise
<1>2. /\ u = [k \in Slots |-> u[k]] /\ v = [k \in Slots |-> v[k]]
      /\ u[2] = IF adj >= 2 THEN t[1] ELSE t[2]
      /\ u[3] = IF adj >= 3 THEN t[2] ELSE t[3]
      /\ v[2] = IF adj >= 2 THEN a[1] ELSE a[2]
      /\ v[3] = IF adj >= 3 THEN a[2] ELSE a[3]
  BY DEF UpdatePrevious, Slots
<1>3. t[1] \in Offset /\ t[2] \in Offset /\ t[3] \in Offset
  BY DEF Triple, Slots
<1>4. v[1] = R(u[1]) /\ u[1] \in Offset /\ ~IsUnset(u[1])
  <2>0. v[1] \in Offset /\ v[1].rep = 0 /\ v[1].n >= 3
    BY DEF NumberTriples, Slots
  <2>1. CASE offset > 3
    <3>1. u[1] = Number(offset) /\ v[1] = Number(offset)
      BY <2>1 DEF UpdatePrevious, Slots
    <3> QED  BY <3>1, <2>1 DEF Number, Offset, IsUnset, StandsFor, IsEncoded
  <2>2. CASE offset <= 3 /\ adj <= 3
    <3>1. adj \in Slots
      BY <2>2 DEF Slots
    <3>2. u[1] = t[adj] /\ v[1] = a[adj]
      BY <2>2 DEF UpdatePrevious, Slots
    <3> QED  BY <3>1, <3>2, <1>1 DEF AllSet, Triple
  <2>3. CASE offset <= 3 /\ adj = 4
    <3>1. u[1] = Minus(t[1], 1) /\ v[1] = Minus(a[1], 1)
      BY <2>3 DEF UpdatePrevious, Slots
    <3>2. v[1] = R(u[1])
      BY <3>1, <1>1, <1>3, MinusResolved DEF Slots
    <3>3. CASE IsEncoded(t[1])
      BY <3>1, <3>2, <3>3, <1>3 DEF Minus, Offset, IsUnset, Number, IsEncoded
    <3>4. CASE ~IsEncoded(t[1])
      <4>1. ~IsEncoded(u[1])
        BY <3>1, <3>4 DEF Minus, IsEncoded
      <4>2. u[1] = v[1]
        BY <4>1, <3>2 DEF StandsFor
      <4> QED  BY <4>2, <2>0, <3>2 DEF IsUnset, Number
    <3> QED  BY <3>3, <3>4
  <2> QED  BY <2>1, <2>2, <2>3
<1>5. u \in Triple
  <2>1. \A k \in Slots : u[k] \in Offset
    BY <1>2, <1>3, <1>4 DEF Slots
  <2> HIDE DEF u
  <2> QED  BY <2>1, <1>2 DEF Triple
<1>6. AllSet(u)
  <2> HIDE DEF u
  <2> QED  BY <1>2, <1>4 DEF AllSet, Slots
<1>7. ApplyPrevious(u, p) = v
  <2>1. ApplyPrevious(u, p) = [k \in Slots |-> R(u[k])]
    BY <1>6, ApplyIsPointwise
  <2>2. \A k \in Slots : R(u[k]) = v[k]
    <3> HIDE DEF u, v, R
    <3> QED  BY <1>1, <1>2, <1>4 DEF Slots
  <2> HIDE DEF u, v, R
  <2> QED  BY <2>1, <2>2, <1>2
<1> QED  BY <1>5, <1>6, <1>7

------------------------------------------------------------------------------
(* The inductive invariant. *)

H(s, i) == coded.history[s][i]
L(s)    == Len(Codes(s))

\* The three symbolic offsets t are the sequential decoder's after i sequences.
Tracks(t, s, i) == t \in Triple /\ AllSet(t) /\ ApplyPrevious(t, Before(s)) = H(s, i)

\* The offset x stands for the distance of the i-th sequence.
Resolves(x, s, i) == x \in Offset /\ StandsFor(x, Before(s)) = H(s, i)[1]

AllResolve(s, from) ==
  \A i \in from .. Len(offs[s]) : Resolves(offs[s][i], s, i)

Decoding(s) ==
  /\ stage[s] \in 0 .. L(s) + 1
  /\ stage[s] <= L(s) => Len(offs[s]) = stage[s] /\ Tracks(regs[s], s, stage[s])
  /\ stage[s] = L(s) + 1 => Len(offs[s]) = L(s) /\ Tracks(final[s], s, L(s))
  /\ AllResolve(s, 1)

Prefixing(s) ==
  /\ stage[s] \in 0 .. 1
  /\ stage[s] = 0 => Tracks(final[s], s, L(s))
  /\ stage[s] = 1 => final[s] = After(s)
  /\ Len(offs[s]) = L(s)
  /\ AllResolve(s, 1)

Finalising(s) ==
  /\ stage[s] \in 0 .. L(s)
  /\ final[s] = After(s)
  /\ Len(offs[s]) = L(s)
  /\ \A i \in 1 .. stage[s] : offs[s][i] = Minus(H(s, i)[1], 3)
  /\ AllResolve(s, stage[s] + 1)

DecodeInv ==
  /\ DecodeTypeOK
  /\ coded \in CodedInputs
  /\ kernel = "decompress" => \A s \in Streams : Decoding(s)
  /\ kernel = "prefix"     => \A s \in Streams : Prefixing(s)
  /\ kernel = "finalise"   => \A s \in Streams : Finalising(s)

\* What the assumptions say of the coded of a run.
LEMMA InputFacts ==
  ASSUME coded \in CodedInputs, NEW s \in Streams
  PROVE  /\ Codes(s) \in Seq(Code)
         /\ L(s) \in Nat
         /\ Before(s) \in NumberTriples
         /\ \A i \in 0 .. L(s) : H(s, i) \in NumberTriples
         /\ \A i \in 1 .. L(s) :
              /\ Codes(s)[i].offset \in Nat \ {0} /\ Codes(s)[i].llen \in Nat
              /\ H(s, i) = UpdatePrevious(H(s, i - 1), Codes(s)[i].offset, Codes(s)[i].llen)
         /\ s \in coded.first => Before(s) = FrameDefaults
         /\ s \notin coded.first => s - 1 \in Streams /\ Before(s) = After(s - 1)
<1>1. Codes(s) \in Seq(Code)
  BY CodesAssumption DEF Codes
<1>2. L(s) \in Nat
  BY <1>1 DEF L
<1>3. \A i \in 1 .. L(s) : Codes(s)[i] \in Code
  BY <1>1 DEF L
<1>4. \A i \in 0 .. L(s) : H(s, i) \in NumberTriples
  BY HistoryAssumption DEF H, L, Codes
<1>5. \A i \in 1 .. L(s) :
        H(s, i) = UpdatePrevious(H(s, i - 1), Codes(s)[i].offset, Codes(s)[i].llen)
  BY HistoryAssumption DEF H, L, Codes
<1>6. s \in coded.first => Before(s) = FrameDefaults
  BY HistoryAssumption DEF Before
<1>7. ASSUME s \notin coded.first
      PROVE  s - 1 \in Streams /\ Before(s) = After(s - 1)
  <2>1. s # 0 /\ s - 1 \in Streams
    BY <1>7, CodesAssumption, StreamsAssumption DEF Streams
  <2> QED  BY <1>7, <2>1, HistoryAssumption DEF Before, After, Codes
<1>8. Before(s) \in NumberTriples
  BY <1>2, <1>4 DEF Before, H
<1> QED  BY <1>1, <1>2, <1>3, <1>4, <1>5, <1>6, <1>7, <1>8 DEF Code

\* A number the sequential decoder has, without the bias, is an offset.
LEMMA UnbiasedIsOffset ==
  ASSUME NEW h \in NumberTriples
  PROVE  h \in Triple /\ Minus(h[1], 3) \in Offset
<1>1. h \in Triple /\ h[1].rep = 0 /\ h[1].n >= 3 /\ h[1] \in Offset
  BY DEF NumberTriples, Triple, Slots
<1> QED  BY <1>1 DEF Minus, IsEncoded, Offset

\* The three symbols a block starts from stand for what the block before left.
LEMMA InitTracks ==
  ASSUME NEW p \in NumberTriples
  PROVE  /\ SequenceOffsets_Init \in Triple
         /\ AllSet(SequenceOffsets_Init)
         /\ ApplyPrevious(SequenceOffsets_Init, p) = p
<1>1. \A k \in Slots : /\ SequenceOffsets_Init[k] = [rep |-> k, n |-> 0]
                       /\ SequenceOffsets_Init[k] \in Offset
                       /\ IsEncoded(SequenceOffsets_Init[k])
  BY DEF SequenceOffsets_Init, Symbol, Offset, IsEncoded, Slots
<1>2. AllSet(SequenceOffsets_Init)
  <2>1. ~IsEncoded(Number(0))
    BY DEF Number, IsEncoded
  <2> QED  BY <1>1, <2>1 DEF AllSet, IsUnset
<1>3. SequenceOffsets_Init \in Triple
  BY <1>1 DEF Triple, SequenceOffsets_Init
<1>4. \A k \in Slots : Minus(p[k], 0) = p[k]
  <2> TAKE k \in Slots
  <2>1. p[k] \in Offset
    BY DEF NumberTriples
  <2> QED  BY <2>1 DEF Minus, Offset
<1>5. ApplyPrevious(SequenceOffsets_Init, p) = [k \in Slots |-> p[k]]
  <2>1. \A k \in Slots : StandsFor(SequenceOffsets_Init[k], p) = p[k]
    <3> TAKE k \in Slots
    <3>1. /\ SequenceOffsets_Init[k] = [rep |-> k, n |-> 0]
          /\ IsEncoded(SequenceOffsets_Init[k])
      BY <1>1
    <3>2. SequenceOffsets_Init[k].rep = k /\ SequenceOffsets_Init[k].n = 0
      BY <3>1
    <3> QED  BY <3>1, <3>2, <1>4 DEF StandsFor
  <2> QED  BY <2>1, <1>2, ApplyIsPointwise
<1> QED  BY <1>2, <1>3, <1>5 DEF NumberTriples

------------------------------------------------------------------------------

\* The state before DecompressSequences satisfies it.
LEMMA DecodeInitInv == DecodeInit => DecodeInv
<1> SUFFICES ASSUME DecodeInit PROVE DecodeInv
  OBVIOUS
<1> USE DEF DecodeInit
<1>1. DecodeTypeOK
  <2>1. coded.codes \in [Streams -> Seq(Code)]
    BY CodesAssumption
  <2>2. SequenceOffsets_Init \in Triple /\ [k \in Slots |-> Number(0)] \in Triple
    BY DEF SequenceOffsets_Init, Symbol, Number, Triple, Offset, Slots
  <2> QED  BY <2>1, <2>2 DEF DecodeTypeOK
<1>2. ASSUME NEW s \in Streams PROVE Decoding(s)
  <2>1. /\ L(s) \in Nat /\ Before(s) \in NumberTriples
    BY InputFacts
  <2>2. Tracks(SequenceOffsets_Init, s, 0)
    BY <2>1, InitTracks DEF Tracks, Before, H
  <2> QED  BY <2>1, <2>2 DEF Decoding, AllResolve
<1> QED  BY <1>1, <1>2 DEF DecodeInv

\* One more sequence of a stream, decoded on symbols.
LEMMA DecodeStep ==
  ASSUME DecodeInv, NEW s \in Streams, DecodeSequence(s)
  PROVE  DecodeInv'
<1> DEFINE i == stage[s] + 1
           c == Codes(s)[i]
           u == UpdatePrevious(regs[s], c.offset, c.llen)
<1>1. /\ DecodeTypeOK /\ coded \in CodedInputs /\ kernel = "decompress" /\ i <= L(s)
      /\ UNCHANGED <<coded, kernel, final>>
      /\ regs' = [regs EXCEPT ![s] = u]
      /\ offs' = [offs EXCEPT ![s] = Append(@, u[1])]
      /\ stage' = [stage EXCEPT ![s] = i]
  BY DEF DecodeInv, DecodeSequence, L
<1>2. /\ Decoding(s) /\ L(s) \in Nat /\ Before(s) \in NumberTriples
      /\ stage[s] \in Nat /\ i \in 1 .. L(s) /\ offs[s] \in Seq(Offset)
      /\ Len(offs[s]) = stage[s] /\ Tracks(regs[s], s, stage[s])
  BY <1>1, InputFacts DEF DecodeInv, Decoding, DecodeTypeOK
<1>3. /\ c.offset \in Nat \ {0} /\ c.llen \in Nat /\ H(s, i) \in NumberTriples
      /\ H(s, i) = UpdatePrevious(H(s, stage[s]), c.offset, c.llen)
  BY <1>1, <1>2, InputFacts
<1>4. Tracks(u, s, i)
  <2>1. UpdatePrevious(ApplyPrevious(regs[s], Before(s)), c.offset, c.llen) \in NumberTriples
    BY <1>2, <1>3 DEF Tracks
  <2> QED  BY <1>2, <1>3, <2>1, UpdateCommutesWithApply DEF Tracks
<1>5. Resolves(u[1], s, i)
  <2>1. ApplyPrevious(u, Before(s)) = [k \in Slots |-> StandsFor(u[k], Before(s))]
    BY <1>4, ApplyIsPointwise DEF Tracks
  <2> QED  BY <2>1, <1>4 DEF Resolves, Tracks, Triple, Slots
<1>6. u \in Triple /\ u[1] \in Offset
  BY <1>4, <1>5 DEF Tracks, Resolves
<1> HIDE DEF u, c
<1>7. DecodeTypeOK'
  BY <1>1, <1>2, <1>6 DEF DecodeTypeOK
<1>8. Decoding(s)'
  <2>1. /\ offs'[s] = Append(offs[s], u[1]) /\ regs'[s] = u /\ stage'[s] = i
        /\ L(s)' = L(s)
    BY <1>1, <1>2 DEF DecodeTypeOK, L, Codes
  <2>2. Tracks(regs[s], s, stage[s])'
    BY <1>1, <1>4, <2>1 DEF Tracks, Before, H
  <2>3. AllResolve(s, 1)'
    <3> SUFFICES ASSUME NEW j \in 1 .. i PROVE Resolves(offs[s][j], s, j)'
      BY <1>2, <1>6, <2>1 DEF AllResolve
    <3>1. CASE j = i
      BY <3>1, <1>1, <1>2, <1>5, <1>6, <2>1 DEF Resolves, Before, H
    <3>2. CASE j # i
      <4>1. offs'[s][j] = offs[s][j] /\ Resolves(offs[s][j], s, j)
        BY <3>2, <1>2, <1>6, <2>1 DEF Decoding, AllResolve
      <4> QED  BY <4>1, <1>1 DEF Resolves, Before, H
    <3> QED  BY <3>1, <3>2
  <2> QED  BY <1>2, <1>6, <2>1, <2>2, <2>3 DEF Decoding
<1>9. ASSUME NEW r \in Streams, r # s PROVE Decoding(r)'
  <2>1. /\ Decoding(r) /\ offs'[r] = offs[r] /\ regs'[r] = regs[r] /\ stage'[r] = stage[r]
        /\ final' = final /\ coded' = coded
    BY <1>1, <1>9 DEF DecodeInv, DecodeTypeOK
  <2> QED  BY <2>1 DEF Decoding, AllResolve, Tracks, Resolves, L, H, Before, Codes
<1> QED  BY <1>1, <1>7, <1>8, <1>9 DEF DecodeInv

\* The lane of a stream stores the three offsets.
LEMMA StoreFinalStep ==
  ASSUME DecodeInv, NEW s \in Streams, StoreFinal(s)
  PROVE  DecodeInv'
<1>1. /\ DecodeTypeOK /\ coded \in CodedInputs /\ kernel = "decompress" /\ stage[s] = L(s)
      /\ UNCHANGED <<coded, kernel, regs, offs>>
      /\ final' = [final EXCEPT ![s] = regs[s]]
      /\ stage' = [stage EXCEPT ![s] = L(s) + 1]
  BY DEF DecodeInv, StoreFinal, L
<1>2. L(s) \in Nat /\ Decoding(s) /\ Tracks(regs[s], s, L(s)) /\ Len(offs[s]) = L(s)
  BY <1>1, InputFacts DEF DecodeInv, Decoding
<1>3. DecodeTypeOK'
  BY <1>1, <1>2 DEF DecodeTypeOK
<1>4. Decoding(s)'
  <2>1. /\ final'[s] = regs[s] /\ stage'[s] = L(s) + 1 /\ offs' = offs /\ coded' = coded
        /\ AllResolve(s, 1)
    BY <1>1, <1>2 DEF DecodeTypeOK, Decoding
  <2> QED  BY <1>2, <2>1 DEF Decoding, AllResolve, Tracks, Resolves, L, H, Before, Codes
<1>5. ASSUME NEW r \in Streams, r # s PROVE Decoding(r)'
  <2>1. /\ Decoding(r) /\ final'[r] = final[r] /\ stage'[r] = stage[r]
        /\ offs' = offs /\ regs' = regs /\ coded' = coded
    BY <1>1, <1>5 DEF DecodeInv, DecodeTypeOK
  <2> QED  BY <2>1 DEF Decoding, AllResolve, Tracks, Resolves, L, H, Before, Codes
<1> QED  BY <1>1, <1>3, <1>4, <1>5 DEF DecodeInv

\* The barrier behind DecompressSequences.
LEMMA StartPrefixStep ==
  ASSUME DecodeInv, StartPrefix
  PROVE  DecodeInv'
<1>1. /\ DecodeTypeOK /\ coded \in CodedInputs /\ kernel = "decompress" /\ kernel' = "prefix"
      /\ \A s \in Streams : stage[s] > L(s)
      /\ stage' = [s \in Streams |-> 0]
      /\ UNCHANGED <<coded, regs, offs, final>>
  BY DEF DecodeInv, StartPrefix, StartKernel, L
<1>2. DecodeTypeOK'
  BY <1>1 DEF DecodeTypeOK
<1>3. ASSUME NEW s \in Streams PROVE Prefixing(s)'
  <2>1. Decoding(s) /\ L(s) \in Nat
    BY <1>1, InputFacts DEF DecodeInv
  <2>2. stage[s] = L(s) + 1 /\ Len(offs[s]) = L(s) /\ Tracks(final[s], s, L(s))
        /\ AllResolve(s, 1)
    BY <1>1, <2>1 DEF Decoding
  <2>3. stage'[s] = 0
    BY <1>1
  <2> QED
    BY <1>1, <2>2, <2>3 DEF Prefixing, AllResolve, Tracks, Resolves, L, H, Before, Codes
<1> QED  BY <1>1, <1>2, <1>3 DEF DecodeInv

\* A stream behind one that is resolved becomes resolved.
LEMMA ResolveStep ==
  ASSUME DecodeInv, NEW s \in Streams, ResolveFinal(s)
  PROVE  DecodeInv'
<1>1. /\ DecodeTypeOK /\ coded \in CodedInputs /\ kernel = "prefix" /\ stage[s] = 0
      /\ s \notin coded.first => stage[s - 1] = 1
      /\ UNCHANGED <<coded, kernel, regs, offs>>
      /\ final' = [final EXCEPT ![s] = ApplyPrevious(@, PreviousFinal(s))]
      /\ stage' = [stage EXCEPT ![s] = 1]
      /\ \A r \in Streams : Prefixing(r)
  BY DEF DecodeInv, ResolveFinal
<1>2. PreviousFinal(s) = Before(s)
  BY <1>1, InputFacts DEF PreviousFinal, Prefixing
<1>3. ApplyPrevious(final[s], Before(s)) = After(s) /\ After(s) \in Triple
  <2>1. Tracks(final[s], s, L(s)) /\ L(s) \in Nat /\ H(s, L(s)) \in NumberTriples
    BY <1>1, InputFacts DEF Prefixing
  <2> QED  BY <2>1, UnbiasedIsOffset DEF Tracks, H, L, After
<1>4. DecodeTypeOK'
  BY <1>1, <1>2, <1>3 DEF DecodeTypeOK
<1>5. Prefixing(s)'
  <2>1. final'[s] = After(s) /\ stage'[s] = 1
    BY <1>1, <1>2, <1>3 DEF DecodeTypeOK
  <2> QED  BY <1>1, <2>1 DEF Prefixing, AllResolve, Resolves, L, H, Before, After, Codes
<1>6. ASSUME NEW r \in Streams, r # s PROVE Prefixing(r)'
  <2>1. final'[r] = final[r] /\ stage'[r] = stage[r]
    BY <1>1, <1>6 DEF DecodeTypeOK
  <2> QED
    BY <1>1, <2>1 DEF Prefixing, AllResolve, Tracks, Resolves, L, H, Before, After, Codes
<1> QED  BY <1>1, <1>4, <1>5, <1>6 DEF DecodeInv

\* The barrier behind PrefixSequenceOffsets.
LEMMA StartFinaliseStep ==
  ASSUME DecodeInv, StartFinalise
  PROVE  DecodeInv'
<1>1. /\ DecodeTypeOK /\ coded \in CodedInputs /\ kernel = "prefix" /\ kernel' = "finalise"
      /\ \A s \in Streams : stage[s] = 1
      /\ stage' = [s \in Streams |-> 0]
      /\ UNCHANGED <<coded, regs, offs, final>>
  BY DEF DecodeInv, StartFinalise, StartKernel
<1>2. DecodeTypeOK'
  BY <1>1 DEF DecodeTypeOK
<1>3. ASSUME NEW s \in Streams PROVE Finalising(s)'
  <2>1. final[s] = After(s) /\ Len(offs[s]) = L(s) /\ AllResolve(s, 1) /\ L(s) \in Nat
    BY <1>1, InputFacts DEF DecodeInv, Prefixing
  <2>2. stage'[s] = 0
    BY <1>1
  <2> QED
    BY <1>1, <2>1, <2>2 DEF Finalising, AllResolve, Resolves, L, H, Before, After, Codes
<1> QED  BY <1>1, <1>2, <1>3 DEF DecodeInv

\* The distance of one more sequence is written.
LEMMA FinaliseStep ==
  ASSUME DecodeInv, NEW s \in Streams, FinaliseSequence(s)
  PROVE  DecodeInv'
<1> DEFINE i == stage[s] + 1
           d == Minus(H(s, i)[1], 3)
<1>1. /\ DecodeTypeOK /\ coded \in CodedInputs /\ kernel = "finalise" /\ i <= L(s)
      /\ UNCHANGED <<coded, kernel, regs, final>>
      /\ offs' = [offs EXCEPT ![s][i] = Minus(StandsFor(offs[s][i], PreviousFinal(s)), 3)]
      /\ stage' = [stage EXCEPT ![s] = i]
      /\ \A r \in Streams : Finalising(r)
  BY DEF DecodeInv, FinaliseSequence, L, StandsFor
<1>2. /\ L(s) \in Nat /\ stage[s] \in Nat /\ i \in 1 .. L(s)
      /\ Len(offs[s]) = L(s) /\ offs[s] \in Seq(Offset)
  BY <1>1, InputFacts DEF Finalising, DecodeTypeOK
<1>3. PreviousFinal(s) = Before(s)
  BY <1>1, InputFacts DEF PreviousFinal, Finalising
<1>4. Minus(StandsFor(offs[s][i], PreviousFinal(s)), 3) = d /\ d \in Offset
  <2>1. Resolves(offs[s][i], s, i)
    BY <1>1, <1>2 DEF Finalising, AllResolve
  <2>2. H(s, i) \in NumberTriples
    BY <1>1, <1>2, InputFacts
  <2> QED  BY <1>3, <2>1, <2>2, UnbiasedIsOffset DEF Resolves
<1> HIDE DEF d
<1>5. /\ offs' = [offs EXCEPT ![s] = [offs[s] EXCEPT ![i] = d]]
      /\ [offs[s] EXCEPT ![i] = d] \in Seq(Offset)
      /\ Len([offs[s] EXCEPT ![i] = d]) = L(s)
      /\ \A j \in 1 .. L(s) : [offs[s] EXCEPT ![i] = d][j] = IF j = i THEN d ELSE offs[s][j]
  <2>1. offs' = [offs EXCEPT ![s] = [offs[s] EXCEPT ![i] = d]]
    BY <1>1, <1>4
  <2> QED  BY <1>2, <1>4, <2>1, ExceptSeq
<1>6. DecodeTypeOK'
  BY <1>1, <1>2, <1>5 DEF DecodeTypeOK
<1>7. Finalising(s)'
  <2>1. /\ stage'[s] = i /\ coded' = coded /\ final' = final
        /\ offs'[s] = [offs[s] EXCEPT ![i] = d]
        /\ \A j \in 1 .. L(s) : offs'[s][j] = IF j = i THEN d ELSE offs[s][j]
    BY <1>1, <1>2, <1>5 DEF DecodeTypeOK
  <2>2. L(s)' = L(s) /\ Len(offs'[s]) = L(s) /\ final'[s] = After(s) /\ After(s)' = After(s)
    BY <1>1, <1>5, <2>1 DEF L, Codes, After, Finalising
  <2>3. \A j \in 1 .. i : (offs[s][j])' = Minus(H(s, j)[1], 3)'
    <3> TAKE j \in 1 .. i
    <3>1. j \in 1 .. L(s) /\ (j = i \/ j \in 1 .. stage[s])
      BY <1>2
    <3>2. Minus(H(s, j)[1], 3)' = Minus(H(s, j)[1], 3)
      BY <2>1 DEF H
    <3> QED  BY <1>1, <2>1, <3>1, <3>2 DEF Finalising, d
  <2>4. \A j \in i + 1 .. L(s) : Resolves(offs[s][j], s, j)'
    <3> TAKE j \in i + 1 .. L(s)
    <3>1. offs'[s][j] = offs[s][j] /\ Resolves(offs[s][j], s, j)
      BY <1>1, <1>2, <2>1 DEF Finalising, AllResolve
    <3> QED  BY <2>1, <3>1 DEF Resolves, H, Before
  <2> QED  BY <1>2, <2>1, <2>2, <2>3, <2>4 DEF Finalising, AllResolve
<1>8. ASSUME NEW r \in Streams, r # s PROVE Finalising(r)'
  <2>1. offs'[r] = offs[r] /\ stage'[r] = stage[r] /\ Finalising(r)
    BY <1>1, <1>5, <1>8 DEF DecodeTypeOK
  <2> QED
    BY <1>1, <2>1 DEF Finalising, AllResolve, Resolves, L, H, Before, After, Codes
<1> QED  BY <1>1, <1>6, <1>7, <1>8 DEF DecodeInv

\* Every step of the three kernels, and of the barriers, keeps it.
LEMMA DecodeStepInv == DecodeInv /\ [DecodeNext]_decodeVars => DecodeInv'
<1> SUFFICES ASSUME DecodeInv, [DecodeNext]_decodeVars PROVE DecodeInv'
  OBVIOUS
<1>1. CASE UNCHANGED decodeVars
  BY <1>1 DEF decodeVars, DecodeInv, DecodeTypeOK, Decoding, Prefixing, Finalising, AllResolve, Tracks,
              Resolves, L, H, Before, After, Codes
<1>2. CASE \E s \in Streams : DecodeSequence(s)
  BY <1>2, DecodeStep
<1>3. CASE \E s \in Streams : StoreFinal(s)
  BY <1>3, StoreFinalStep
<1>4. CASE \E s \in Streams : ResolveFinal(s)
  BY <1>4, ResolveStep
<1>5. CASE \E s \in Streams : FinaliseSequence(s)
  BY <1>5, FinaliseStep
<1>6. CASE StartPrefix
  BY <1>6, StartPrefixStep
<1>7. CASE StartFinalise
  BY <1>7, StartFinaliseStep
<1> QED  BY <1>1, <1>2, <1>3, <1>4, <1>5, <1>6, <1>7 DEF DecodeNext

\* The inductive invariant holds in every reachable state.
THEOREM DecodeInvariant == DecodeSafety => []DecodeInv
<1> QED  BY DecodeInitInv, DecodeStepInv, PTL DEF DecodeSafety

\* The state has its types in every reachable state.
THEOREM DecodeTypeCorrect == DecodeSafety => []DecodeTypeOK
<1>1. DecodeInv => DecodeTypeOK
  BY DEF DecodeInv
<1> QED  BY <1>1, DecodeInvariant, PTL

\* The symbols of a stream that is being decoded always stand for the offsets
\* of a sequential decoder: DecompressSequences loses nothing by not knowing
\* what the block before it leaves.
THEOREM SymbolsTrack == DecodeSafety => []SymbolsTrackHistory
<1>1. DecodeInv => SymbolsTrackHistory
  BY InputFacts DEF DecodeInv, Decoding, Tracks, SymbolsTrackHistory, H, L
<1> QED  BY <1>1, DecodeInvariant, PTL

\* What PrefixSequenceOffsets makes of a stream's final offsets is what the
\* next stream of the frame starts from.
THEOREM FinalsCorrect == DecodeSafety => []FinalOffsetsCorrect
<1>1. DecodeInv => FinalOffsetsCorrect
  BY DEF DecodeInv, Prefixing, Finalising, FinalOffsetsCorrect
<1> QED  BY <1>1, DecodeInvariant, PTL

\* Every distance FinaliseSequenceOffsets writes is the sequential decoder's,
\* for any number of streams of any length in any number of frames.
THEOREM DistancesAreSequential == DecodeSafety => []DistancesCorrect
<1>1. DecodeInv => DistancesCorrect
  BY DEF DecodeInv, Finalising, DistancesCorrect, H
<1> QED  BY <1>1, DecodeInvariant, PTL

------------------------------------------------------------------------------
\* How the two modules meet.

\* What the kernel PrefixSequenceOffsets is given.
HandedOn == [offs |-> final, first |-> coded.first]

\* Before the first stream is resolved, it is what PrefixSequenceOffsets assumes,
\* and the decoder it compares with is the one of the history.
MeetsAssumptions ==
  kernel = "prefix" /\ (\A s \in Streams : stage[s] = 0) =>
    /\ FromSymbols(HandedOn)
    /\ Decodable(HandedOn)
    /\ SequentialOf(HandedOn) = [s \in Streams |-> After(s)]

\* The sequential decoder of streams that track a history has the history.
LEMMA SequentialIsHistory ==
  ASSUME coded \in CodedInputs, \A s \in Streams : Tracks(final[s], s, L(s))
  PROVE  SequentialOf(HandedOn) = [s \in Streams |-> After(s)]
<1> DEFINE S == SequentialOf(HandedOn)
           Bad == {s \in Streams : S[s] # After(s)}
<1>1. S = [s \in Streams |-> StateAfter(HandedOn, S, s)]
  BY CodesAssumption, SequentialUnfolds DEF HandedOn
<1> HIDE DEF S
<1>2. Bad = {}
  <2>1. SUFFICES ASSUME Bad # {} PROVE FALSE
    OBVIOUS
  <2>2. Bad \in SUBSET Nat
    BY DEF Streams
  <2> HIDE DEF Bad
  <2>3. PICK s \in Bad : \A r \in Bad : s <= r
    BY <2>1, <2>2, Least
  <2>4. s \in Streams /\ S[s] # After(s)
    BY DEF Bad
  <2>5. S[s] = ApplyPrevious(final[s], IF s \in coded.first THEN FrameDefaults ELSE S[s - 1])
    BY <1>1, <2>4 DEF StateAfter, HandedOn
  <2>6. s \notin coded.first => S[s - 1] = Before(s)
    <3> SUFFICES ASSUME s \notin coded.first PROVE S[s - 1] = Before(s)
      OBVIOUS
    <3>1. s - 1 \in Streams /\ Before(s) = After(s - 1)
      BY <2>4, InputFacts
    <3>2. s - 1 \notin Bad
      BY <2>2, <2>3
    <3> QED BY <3>1, <3>2 DEF Bad
  <2>7. S[s] = ApplyPrevious(final[s], Before(s))
    BY <2>4, <2>5, <2>6, InputFacts
  <2>8. ApplyPrevious(final[s], Before(s)) = After(s)
    BY <2>4 DEF Tracks, H, L, After
  <2> QED BY <2>4, <2>7, <2>8
<1>3. S = [s \in Streams |-> S[s]]
  BY <1>1
<1> QED BY <1>2, <1>3 DEF S

LEMMA KernelsMeet == DecodeInv => MeetsAssumptions
<1> SUFFICES ASSUME DecodeInv, kernel = "prefix", \A s \in Streams : stage[s] = 0
             PROVE  /\ FromSymbols(HandedOn)
                    /\ Decodable(HandedOn)
                    /\ SequentialOf(HandedOn) = [s \in Streams |-> After(s)]
  BY DEF MeetsAssumptions
<1>1. coded \in CodedInputs /\ final \in [Streams -> Triple]
  BY DEF DecodeInv, DecodeTypeOK
<1>2. \A s \in Streams : Tracks(final[s], s, L(s))
  BY DEF DecodeInv, Prefixing
<1>3. FromSymbols(HandedOn)
  BY <1>1, <1>2, CodesAssumption DEF FromSymbols, HandedOn, Tracks, AllSet
<1>4. SequentialOf(HandedOn) = [s \in Streams |-> After(s)]
  BY <1>1, <1>2, SequentialIsHistory
<1>5. ASSUME NEW s \in Streams PROVE After(s) \in [Slots -> Known]
  <2>1. L(s) \in Nat /\ H(s, L(s)) \in NumberTriples
    BY <1>1, InputFacts
  <2>2. After(s) \in NumberTriples
    BY <2>1 DEF After, H, L
  <2>3. ASSUME NEW x \in Offset, x.rep = 0, x.n >= 3 PROVE x \in Known
    BY <2>3 DEF Known, IsEncoded, IsUnset, Number, Offset
  <2> QED BY <2>2, <2>3 DEF NumberTriples
<1>6. Decodable(HandedOn)
  BY <1>4, <1>5 DEF Decodable
<1> QED BY <1>3, <1>4, <1>6

\* What PrefixSequenceOffsets assumes of its input is what DecompressSequences
\* leaves: the streams begin with symbols, no slot is unset, and a decoder meets
\* no offset of zero or below.  With StoredSequential, the look-back kernel leaves
\* what the pass through the streams in DecodeSequenceOffsets does.
THEOREM KernelsFit == DecodeSafety => []MeetsAssumptions
<1> QED BY DecodeInvariant, KernelsMeet, PTL

==============================================================================
