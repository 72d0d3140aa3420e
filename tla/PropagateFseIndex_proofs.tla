---------------------- MODULE PropagateFseIndex_proofs ----------------------
(***************************************************************************)
(* Proof that the kernel gives each stream the table the sequential pass   *)
(* gives it, for any number of streams, waves of any size the kernel has,  *)
(* any indices and any residency.  First the lanes of a block, then the    *)
(* tree inside a wave, the sequential pass, and the steps.                 *)
(***************************************************************************)
EXTENDS PropagateFseIndex, GroupSearch_proofs

\* j is the last place up to i at which x names a table.
LastValid(x, j, i) ==
  /\ j \in DOMAIN x /\ j <= i /\ Valid(x[j])
  /\ \A k \in DOMAIN x : j < k /\ k <= i => ~Valid(x[k])

NoneValid(x, i) == \A k \in DOMAIN x : k <= i => ~Valid(x[k])

------------------------------------------------------------------------------
\* The lanes of a block are an interval, and those of the next block follow.

\* The constants of this kernel in the lemmas on waves.
LEMMA OwnWaves ==
  /\ NumStreams \in Nat \ {0} /\ BlockSize \in WaveSizes
  /\ Blocks = WaveBlocks(NumStreams, BlockSize) /\ Streams = 0 .. NumStreams - 1
  /\ \A b : /\ Lanes(b) = WaveLanes(NumStreams, BlockSize, b)
            /\ FirstLane(b) = b * BlockSize /\ LastLane(b) = LastOf(Lanes(b))
BY CountsAssumption, BlockSizeAssumption
   DEF WaveSizes, Blocks, WaveBlocks, Streams, Lanes, WaveLanes, FirstLane, LastLane, LastOf

LEMMA BlockRange ==
  ASSUME NEW b \in Blocks
  PROVE  /\ b \in Nat /\ b * BlockSize \in Nat /\ b * BlockSize < NumStreams
         /\ 0 \in Blocks /\ (b # 0 => b - 1 \in Blocks)
BY OwnWaves, WaveBegins

\* The lanes of block b, by their first and their last one.
LEMMA Interval ==
  ASSUME NEW b \in Blocks
  PROVE  /\ FirstLane(b) \in Lanes(b) /\ LastLane(b) \in Lanes(b)
         /\ \A i \in Streams : i \in Lanes(b) <=> FirstLane(b) <= i /\ i <= LastLane(b)
         /\ Lanes(b) \subseteq Streams
BY OwnWaves, WaveInterval

LEMMA NextBlock ==
  ASSUME NEW b \in Blocks, b # 0
  PROVE  b - 1 \in Blocks /\ LastLane(b - 1) + 1 = FirstLane(b)
BY OwnWaves, WaveFollows

\* Lanes of different blocks are different.
LEMMA OtherBlock ==
  ASSUME NEW a \in Blocks, NEW b \in Blocks, a # b
  PROVE  \A i \in Lanes(a) : i \notin Lanes(b)
BY DEF Lanes

\* A set of places up to i that is not empty has a last one.
LEMMA Greatest ==
  ASSUME NEW i \in Nat, NEW T \in SUBSET (0 .. i), T # {}
  PROVE  \E j \in T : \A k \in T : k <= j
<1> DEFINE D == {i - k : k \in T}
<1>1. D \in SUBSET Nat /\ D # {}
  <2>1. \A k \in T : k \in Nat /\ k <= i
    OBVIOUS
  <2>2. \A k \in T : i - k \in Nat
    BY <2>1
  <2>3. D \in SUBSET Nat
    BY <2>2
  <2>4. PICK k \in T : TRUE
    OBVIOUS
  <2>5. i - k \in D
    BY <2>4
  <2> QED BY <2>3, <2>5
<1>2. PICK d \in D : \A e \in D : d <= e
  BY <1>1, Least
<1>3. PICK j \in T : d = i - j
  OBVIOUS
<1>4. ASSUME NEW k \in T PROVE k <= j
  BY <1>2, <1>3
<1> QED BY <1>4

LEMMA LastExists ==
  ASSUME NEW x, DOMAIN x \subseteq Nat, NEW i \in Nat, ~NoneValid(x, i)
  PROVE  \E j : LastValid(x, j, i)
<1> DEFINE T == {k \in DOMAIN x : k <= i /\ Valid(x[k])}
<1>1. T \in SUBSET (0 .. i) /\ T # {}
  BY DEF NoneValid
<1>2. PICK j \in T : \A k \in T : k <= j
  BY <1>1, Greatest
<1>3. LastValid(x, j, i)
  BY <1>2 DEF LastValid
<1> QED BY <1>3

LEMMA LastUnique ==
  ASSUME NEW x, DOMAIN x \subseteq Nat, NEW i \in Nat, NEW j, NEW k,
         LastValid(x, j, i), LastValid(x, k, i)
  PROVE  j = k
BY DEF LastValid

LEMMA LastNotBefore ==
  ASSUME NEW x, DOMAIN x \subseteq Nat, NEW i \in Nat, NEW j, LastValid(x, j, i),
         NEW k \in DOMAIN x, k <= i, Valid(x[k])
  PROVE  j \in DOMAIN x /\ j <= i /\ Valid(x[j]) /\ k <= j
<1>1. j \in DOMAIN x /\ j <= i /\ Valid(x[j]) /\ ~ (j < k)
  BY DEF LastValid
<1>2. j \in Nat /\ k \in Nat
  BY <1>1
<1> QED BY <1>1, <1>2

------------------------------------------------------------------------------
\* The tree.  After the step of a group size, a lane has the last table named
\* in its group up to it, and is as it was if there is none.

Carried(x, y, g) ==
  /\ y \in [DOMAIN x -> Indices]
  /\ \A i \in DOMAIN x :
       /\ \A j : LastValid(x, j, i) /\ Lo(i, g) <= j => y[i] = x[j]
       /\ (\A k \in DOMAIN x : Lo(i, g) <= k /\ k <= i => ~Valid(x[k])) => y[i] = x[i]

LEMMA StepCarries ==
  ASSUME NEW b \in Blocks, NEW x \in [Lanes(b) -> Indices], NEW y,
         NEW g \in {2, 4, 8, 16, 32}, g <= BlockSize, Carried(x, y, g \div 2)
  PROVE  Carried(x, PropagateStep(y, g), g)
<1> DEFINE z == PropagateStep(y, g)
<1>1. DOMAIN x = Lanes(b) /\ DOMAIN y = Lanes(b) /\ y \in [Lanes(b) -> Indices]
  BY DEF Carried
<1>2. Lanes(b) \subseteq Nat /\ b \in Nat /\ FirstLane(b) \in Nat /\ LastLane(b) \in Nat
      /\ Lanes(b) \subseteq Streams
      /\ \A k \in Nat : FirstLane(b) <= k /\ k <= LastLane(b) => k \in Lanes(b)
  <2>1. Lanes(b) \subseteq Streams /\ LastLane(b) \in Streams /\ Streams \subseteq Nat
    BY Interval DEF Streams
  <2>2. \A k \in Nat : k <= LastLane(b) => k \in Streams
    BY <2>1, CountsAssumption DEF Streams
  <2> QED BY <2>1, <2>2, BlockRange, Interval DEF FirstLane
<1>3. z = [i \in Lanes(b) |->
             IF i % g >= g \div 2 /\ ~Valid(y[i]) /\ Valid(y[Src(i, g)])
               THEN y[Src(i, g)] ELSE y[i]]
  <2>1. ~ (BlockSize < g)
    BY BlockSizeAssumption
  <2> QED BY <1>1, <2>1 DEF PropagateStep, Src
<1>4. ASSUME NEW i \in Lanes(b)
      PROVE  /\ i \in Nat /\ i <= LastLane(b) /\ FirstLane(b) <= Lo(i, g)
             /\ i % g >= g \div 2 =>
                  /\ Src(i, g) \in Lanes(b) /\ Src(i, g) \in Nat /\ Src(i, g) < i /\ Lo(i, g) <= Src(i, g)
                  /\ Lo(Src(i, g), g \div 2) = Lo(i, g) /\ Lo(i, g \div 2) = Src(i, g) + 1
  <2>1. i \in Nat /\ i <= LastLane(b) /\ i \div BlockSize = b
    BY <1>2, Interval DEF Lanes
  <2>2. FirstLane(b) <= Lo(i, g)
    BY <1>2, <2>1, OwnWaves, GroupInBlock
  <2>3. ASSUME i % g >= g \div 2
        PROVE  /\ Src(i, g) \in Lanes(b) /\ Src(i, g) \in Nat /\ Src(i, g) < i /\ Lo(i, g) <= Src(i, g)
               /\ Lo(Src(i, g), g \div 2) = Lo(i, g) /\ Lo(i, g \div 2) = Src(i, g) + 1
    <3>1. /\ Src(i, g) \in Nat /\ Src(i, g) < i /\ Lo(i, g) <= Src(i, g) /\ Lo(i, g) \in Nat
          /\ Lo(Src(i, g), g \div 2) = Lo(i, g) /\ Lo(i, g \div 2) = Src(i, g) + 1
      <4>1. Src(i, g) \in Nat /\ Src(i, g) < i /\ Lo(i, g) <= Src(i, g)
        BY <2>1, <2>3, Halves
      <4>2. Lo(i, g) \in Nat
        BY <2>1, <2>3, Halves
      <4>3. Lo(Src(i, g), g \div 2) = Lo(i, g)
        BY <2>1, <2>3, Halves
      <4>4. Lo(i, g \div 2) = Src(i, g) + 1
        BY <2>1, <2>3, Halves
      <4> QED BY <4>1, <4>2, <4>3, <4>4
    <3>2. FirstLane(b) <= Src(i, g) /\ Src(i, g) <= LastLane(b)
      BY <1>2, <2>1, <2>2, <3>1
    <3> QED BY <1>2, <3>1, <3>2
  <2> QED BY <2>1, <2>2, <2>3
<1>5. z \in [Lanes(b) -> Indices]
  BY <1>1, <1>3, <1>4
<1>6. ASSUME NEW i \in Lanes(b), NEW j, LastValid(x, j, i), Lo(i, g) <= j
      PROVE  z[i] = x[j]
  <2>1. i \in Nat /\ j \in Nat /\ j \in Lanes(b) /\ j <= i /\ Valid(x[j]) /\ Lo(i, g) \in Nat
        /\ \A k \in Lanes(b) : j < k /\ k <= i => ~Valid(x[k])
    BY <1>1, <1>2, <1>6, Halves DEF LastValid
  <2>2. CASE i % g < g \div 2
    <3>1. Lo(i, g \div 2) = Lo(i, g)
      BY <2>1, <2>2, Halves
    <3>2. y[i] = x[j]
      BY <1>1, <1>6, <3>1 DEF Carried
    <3>3. ~ (i % g >= g \div 2)
      <4>1. i % g \in Nat /\ g \div 2 \in Nat
        BY <2>1, Halves
      <4> QED BY <2>2, <4>1
    <3> QED BY <1>3, <3>2, <3>3
  <2>3. CASE i % g >= g \div 2
    <3>1. Src(i, g) \in Nat /\ Src(i, g) < i /\ Lo(Src(i, g), g \div 2) = Lo(i, g)
          /\ Lo(i, g \div 2) = Src(i, g) + 1 /\ Src(i, g) \in Lanes(b)
      BY <1>4, <2>3
    <3>2. CASE Src(i, g) < j
      <4>1. Lo(i, g \div 2) <= j
        BY <2>1, <3>1, <3>2
      <4>2. y[i] = x[j]
        BY <1>1, <1>6, <4>1 DEF Carried
      <4> QED BY <1>3, <2>1, <4>2
    <3>3. CASE j <= Src(i, g)
      <4>1. LastValid(x, j, Src(i, g))
        <5>1. \A k \in Lanes(b) : j < k /\ k <= Src(i, g) => ~Valid(x[k])
          BY <1>2, <2>1, <3>1
        <5> QED BY <1>1, <2>1, <3>3, <5>1 DEF LastValid
      <4>2. y[Src(i, g)] = x[j]
        BY <1>1, <1>6, <3>1, <4>1 DEF Carried
      <4>3. \A k \in Lanes(b) : Lo(i, g \div 2) <= k /\ k <= i => ~Valid(x[k])
        BY <1>2, <2>1, <3>1, <3>3
      <4>4. y[i] = x[i] /\ ~Valid(x[i])
        <5>1. y[i] = x[i]
          BY <1>1, <4>3 DEF Carried
        <5>2. j < i
          BY <2>1, <3>1, <3>3
        <5> QED BY <2>1, <5>1, <5>2
      <4> QED BY <1>3, <2>1, <2>3, <4>2, <4>4
    <3> QED BY <2>1, <3>1, <3>2, <3>3
  <2>4. i % g \in Nat /\ g \div 2 \in Nat
    BY <2>1, Halves
  <2> QED BY <2>2, <2>3, <2>4
<1>7. ASSUME NEW i \in Lanes(b),
             \A k \in Lanes(b) : Lo(i, g) <= k /\ k <= i => ~Valid(x[k])
      PROVE  z[i] = x[i]
  <2>1. i \in Nat /\ Lo(i, g) \in Nat /\ i % g \in Nat /\ g \div 2 \in Nat
    BY <1>2, Halves
  <2>2. CASE i % g < g \div 2
    <3>1. Lo(i, g \div 2) = Lo(i, g)
      BY <2>1, <2>2, Halves
    <3>2. y[i] = x[i]
      BY <1>1, <1>7, <3>1 DEF Carried
    <3>3. ~ (i % g >= g \div 2)
      BY <2>1, <2>2
    <3> QED BY <1>3, <3>2, <3>3
  <2>3. CASE i % g >= g \div 2
    <3>1. Src(i, g) \in Nat /\ Src(i, g) < i /\ Lo(Src(i, g), g \div 2) = Lo(i, g)
          /\ Lo(i, g) <= Src(i, g)
          /\ Lo(i, g \div 2) = Src(i, g) + 1 /\ Src(i, g) \in Lanes(b)
      BY <1>4, <2>3
    <3>2. \A k \in Lanes(b) : Lo(i, g \div 2) <= k /\ k <= i => ~Valid(x[k])
      BY <1>2, <1>7, <2>1, <3>1
    <3>3. \A k \in Lanes(b) : Lo(Src(i, g), g \div 2) <= k /\ k <= Src(i, g) => ~Valid(x[k])
      BY <1>2, <1>7, <2>1, <3>1
    <3>4. y[i] = x[i] /\ y[Src(i, g)] = x[Src(i, g)]
      BY <1>1, <3>1, <3>2, <3>3 DEF Carried
    <3>5. ~Valid(x[Src(i, g)])
      BY <1>7, <2>1, <3>1
    <3> QED BY <1>3, <3>4, <3>5
  <2> QED BY <2>1, <2>2, <2>3
<1> HIDE DEF z
<1> QED BY <1>1, <1>5, <1>6, <1>7 DEF Carried, z

\* A step for groups larger than the wave changes nothing.
LEMMA StepIdle ==
  ASSUME NEW y, NEW g \in Nat, BlockSize < g
  PROVE  PropagateStep(y, g) = y
BY DEF PropagateStep

\* What the tree leaves in a block: the last table named up to each lane.
LEMMA TreeResult ==
  ASSUME NEW b \in Blocks, NEW x \in [Lanes(b) -> Indices]
  PROVE  /\ Propagate(x) \in [Lanes(b) -> Indices]
         /\ \A i \in Lanes(b) :
              /\ \A j : LastValid(x, j, i) => Propagate(x)[i] = x[j]
              /\ NoneValid(x, i) => Propagate(x)[i] = x[i]
<1>1. /\ DOMAIN x = Lanes(b) /\ Lanes(b) \subseteq Nat /\ b \in Nat
      /\ b * BlockSize \in Nat
      /\ \A i \in Lanes(b) : i \div BlockSize = b /\ b * BlockSize <= i
  <2>1. Lanes(b) \subseteq Nat /\ b \in Nat /\ b * BlockSize \in Nat
    BY BlockRange DEF Lanes, Streams
  <2>2. \A i \in Lanes(b) : i \div BlockSize = b
    BY DEF Lanes
  <2> QED BY <2>1, <2>2, OwnWaves, InWave
<1> DEFINE y0 == x
           y1 == PropagateStep(y0, 2)
           y2 == PropagateStep(y1, 4)
           y3 == PropagateStep(y2, 8)
           y4 == PropagateStep(y3, 16)
           y5 == PropagateStep(y4, 32)
<1>2. Carried(x, y0, 1)
  <2>1. \A i \in Lanes(b) : Lo(i, 1) = i
    BY <1>1 DEF Lo
  <2>2. ASSUME NEW i \in Lanes(b), NEW j, LastValid(x, j, i), Lo(i, 1) <= j PROVE i = j
    BY <1>1, <2>1, <2>2 DEF LastValid
  <2> QED BY <1>1, <2>2 DEF Carried
<1>3. Propagate(x) = y5
  BY DEF Propagate
<1> HIDE DEF y0, y1, y2, y3, y4, y5
<1>4. 2 <= BlockSize => Carried(x, y1, 2)
  <2>1. 2 \div 2 = 1
    OBVIOUS
  <2> QED BY <1>2, <2>1, StepCarries DEF y1
<1>5. 4 <= BlockSize => Carried(x, y2, 4)
  <2>1. 4 \div 2 = 2 /\ (4 <= BlockSize => 2 <= BlockSize)
    BY BlockSizeAssumption
  <2> QED BY <1>4, <2>1, StepCarries DEF y2
<1>6. 8 <= BlockSize => Carried(x, y3, 8)
  <2>1. 8 \div 2 = 4 /\ (8 <= BlockSize => 4 <= BlockSize)
    BY BlockSizeAssumption
  <2> QED BY <1>5, <2>1, StepCarries DEF y3
<1>7. 16 <= BlockSize => Carried(x, y4, 16)
  <2>1. 16 \div 2 = 8 /\ (16 <= BlockSize => 8 <= BlockSize)
    BY BlockSizeAssumption
  <2> QED BY <1>6, <2>1, StepCarries DEF y4
<1>8. 32 <= BlockSize => Carried(x, y5, 32)
  <2>1. 32 \div 2 = 16 /\ (32 <= BlockSize => 16 <= BlockSize)
    BY BlockSizeAssumption
  <2> QED BY <1>7, <2>1, StepCarries DEF y5
<1>9. Carried(x, y5, BlockSize)
  <2>1. CASE BlockSize = 1
    <3>1. y1 = y0 /\ y2 = y1 /\ y3 = y2 /\ y4 = y3 /\ y5 = y4
      BY <2>1, StepIdle DEF y1, y2, y3, y4, y5
    <3> QED BY <1>2, <2>1, <3>1
  <2>2. CASE BlockSize = 2
    <3>1. y2 = y1 /\ y3 = y2 /\ y4 = y3 /\ y5 = y4
      BY <2>2, StepIdle DEF y2, y3, y4, y5
    <3> QED BY <1>4, <2>2, <3>1
  <2>3. CASE BlockSize = 4
    <3>1. y3 = y2 /\ y4 = y3 /\ y5 = y4
      BY <2>3, StepIdle DEF y3, y4, y5
    <3> QED BY <1>5, <2>3, <3>1
  <2>4. CASE BlockSize = 8
    <3>1. y4 = y3 /\ y5 = y4
      BY <2>4, StepIdle DEF y4, y5
    <3> QED BY <1>6, <2>4, <3>1
  <2>5. CASE BlockSize = 16
    <3>1. y5 = y4
      BY <2>5, StepIdle DEF y5
    <3> QED BY <1>7, <2>5, <3>1
  <2>6. CASE BlockSize = 32
    BY <1>8, <2>6
  <2> QED BY <2>1, <2>2, <2>3, <2>4, <2>5, <2>6, BlockSizeAssumption
<1>10. ASSUME NEW i \in Lanes(b), NEW j \in Lanes(b)
       PROVE  Lo(i, BlockSize) <= j
  BY <1>1 DEF Lo
<1> QED BY <1>1, <1>3, <1>9, <1>10 DEF Carried, LastValid, NoneValid

------------------------------------------------------------------------------
\* The sequential pass: what it leaves is the last table named.

LEMMA Sequential ==
  ASSUME input \in [Streams -> Indices]
  PROVE  \A i \in Streams : /\ \A j : LastValid(input, j, i) => LastNamed[i] = input[j]
                            /\ NoneValid(input, i) => LastNamed[i] = Unused
<1> DEFINE f == [i \in Streams |-> IF NoneValid(input, i) THEN Unused
                                   ELSE input[CHOOSE j : LastValid(input, j, i)]]
           Rec(g) == g = [i \in Streams |->
                            IF Valid(input[i]) THEN input[i]
                            ELSE IF i = 0 THEN Unused ELSE g[i - 1]]
           Good(g, i) == /\ \A j : LastValid(input, j, i) => g[i] = input[j]
                         /\ NoneValid(input, i) => g[i] = Unused
<1>1. DOMAIN input = Streams /\ Streams \subseteq Nat /\ DOMAIN input \subseteq Nat
  BY DEF Streams
<1>2. ASSUME NEW i \in Streams, i # 0 PROVE i - 1 \in Streams /\ i - 1 \in Nat /\ i \in Nat
  BY <1>2, CountsAssumption DEF Streams
<1>3. ASSUME NEW i \in Streams PROVE Good(f, i)
  <2>1. ASSUME NEW j, LastValid(input, j, i) PROVE f[i] = input[j]
    <3>1. ~NoneValid(input, i)
      BY <1>1, <2>1 DEF LastValid, NoneValid
    <3>2. LastValid(input, CHOOSE k : LastValid(input, k, i), i)
      BY <2>1
    <3>3. j = CHOOSE k : LastValid(input, k, i)
      BY <1>1, <2>1, <3>2, LastUnique
    <3> QED BY <3>1, <3>3
  <2> QED BY <2>1
<1>4. ASSUME NEW i \in Streams, Valid(input[i]) PROVE LastValid(input, i, i)
  BY <1>1, <1>4 DEF LastValid
<1>5. ASSUME NEW i \in Streams, i = 0, ~Valid(input[i]) PROVE NoneValid(input, i)
  <2>1. \A k \in Streams : k <= 0 => k = 0
    BY <1>1
  <2> QED BY <1>1, <1>5, <2>1 DEF NoneValid
<1>6. ASSUME NEW i \in Streams, i # 0, ~Valid(input[i])
      PROVE  /\ NoneValid(input, i) <=> NoneValid(input, i - 1)
             /\ \A j : LastValid(input, j, i) <=> LastValid(input, j, i - 1)
  <2>1. \A k \in Streams : k <= i <=> k <= i - 1 \/ k = i
    BY <1>1, <1>2, <1>6
  <2>2. ASSUME NEW j, LastValid(input, j, i) PROVE LastValid(input, j, i - 1)
    BY <1>1, <1>6, <2>1, <2>2 DEF LastValid
  <2>3. ASSUME NEW j, LastValid(input, j, i - 1) PROVE LastValid(input, j, i)
    BY <1>1, <1>6, <2>1, <2>3 DEF LastValid
  <2> QED BY <1>1, <1>6, <2>1, <2>2, <2>3 DEF NoneValid
<1> HIDE DEF f
<1>7. ASSUME NEW g, NEW i \in Streams, Rec(g), i # 0 => Good(g, i - 1) PROVE Good(g, i)
  <2>1. g[i] = IF Valid(input[i]) THEN input[i] ELSE IF i = 0 THEN Unused ELSE g[i - 1]
    BY <1>7
  <2>2. CASE Valid(input[i])
    <3>1. LastValid(input, i, i) /\ i \in Nat
      BY <1>1, <1>4, <2>2
    <3>2. ~NoneValid(input, i)
      BY <1>1, <2>2, <3>1 DEF NoneValid
    <3>3. \A j : LastValid(input, j, i) => j = i
      BY <1>1, <3>1, LastUnique
    <3> QED BY <2>1, <2>2, <3>2, <3>3
  <2>3. CASE ~Valid(input[i]) /\ i = 0
    BY <1>1, <1>5, <2>1, <2>3 DEF NoneValid, LastValid
  <2>4. CASE ~Valid(input[i]) /\ i # 0
    BY <1>6, <1>7, <2>1, <2>4
  <2> QED BY <2>2, <2>3, <2>4
<1>8. \E g : Rec(g)
  <2>1. ASSUME NEW i \in Streams
        PROVE  f[i] = IF Valid(input[i]) THEN input[i]
                      ELSE IF i = 0 THEN Unused ELSE f[i - 1]
    <3>1. CASE Valid(input[i])
      BY <1>3, <1>4, <3>1
    <3>2. CASE ~Valid(input[i]) /\ i = 0
      BY <1>3, <1>5, <3>2
    <3>3. CASE ~Valid(input[i]) /\ i # 0
      <4>1. i - 1 \in Streams /\ i - 1 \in Nat
        BY <1>2, <3>3
      <4>2. CASE NoneValid(input, i)
        BY <1>3, <1>6, <3>3, <4>1, <4>2
      <4>3. CASE ~NoneValid(input, i)
        <5>1. PICK j : LastValid(input, j, i - 1)
          BY <1>1, <1>6, <3>3, <4>1, <4>3, LastExists
        <5> QED BY <1>3, <1>6, <3>3, <4>1, <5>1
      <4> QED BY <4>2, <4>3
    <3> QED BY <3>1, <3>2, <3>3
  <2>2. f = [i \in Streams |-> f[i]]
    BY DEF f
  <2>3. Rec(f)
    BY <2>1, <2>2
  <2> QED BY <2>3
<1>9. Rec(LastNamed)
  BY <1>8 DEF LastNamed
<1> DEFINE Bad == {i \in Streams : ~Good(LastNamed, i)}
<1>10. SUFFICES ASSUME Bad # {} PROVE FALSE
  OBVIOUS
<1>11. PICK i \in Bad : \A k \in Bad : i <= k
  <2>1. Bad \in SUBSET Nat
    BY <1>1
  <2> HIDE DEF Bad
  <2> QED BY <1>10, <2>1, Least
<1>12. i \in Streams /\ ~Good(LastNamed, i) /\ i \in Nat
  BY <1>1
<1>13. i # 0 => Good(LastNamed, i - 1)
  <2>1. i # 0 => i - 1 \in Streams /\ ~ (i <= i - 1)
    BY <1>2, <1>12
  <2> QED BY <1>11, <2>1
<1> HIDE DEF Rec, Good
<1> QED BY <1>7, <1>9, <1>12, <1>13

------------------------------------------------------------------------------
\* The inductive invariant, block by block.

\* A word says the last table the block names, or that it names none.
WordOK(b, w) ==
  /\ w \in Indices
  /\ \A j \in Lanes(b) : LastValid(input, j, LastLane(b)) => w = input[j]
  /\ (\A k \in Lanes(b) : ~Valid(input[k])) => w = Unused

NoneBetween(a, i) == \A k \in Streams : LastLane(a) < k /\ k < i => ~Valid(input[k])

Untouched(b) == \A i \in Lanes(b) : fseIds[i] = input[i]

Walking(b) ==
  /\ NeedsLookback(b)
  /\ prev[b] < b
  /\ NoneBetween(prev[b], FirstUsed(b))
  /\ found[b] = input[FirstLane(b)]

FoundOK(b) ==
  /\ \A j : LastValid(input, j, FirstUsed(b)) => found[b] = input[j]
  /\ NoneValid(input, FirstUsed(b)) => ~Valid(found[b])

StoredOK(b) ==
  \A i \in Lanes(b) : IF Valid(Propagated(i)) THEN fseIds[i] = Propagated(i)
                                             ELSE ~Valid(fseIds[i])

BlockOK(b) ==
  /\ lookback[b] # NotReady => WordOK(b, lookback[b])
  /\ pc[b] # "done" => Untouched(b)
  /\ pc[b] = "lookBack" => Walking(b)
  /\ pc[b] = "store" /\ NeedsLookback(b) => FoundOK(b)
  /\ pc[b] = "done" => StoredOK(b)

IInv == TypeOK /\ \A b \in Blocks : BlockOK(b)

LEMMA IndexFacts ==
  /\ Unused \in Nat /\ Repeat \in Indices /\ Unused \in Indices /\ Indices \subseteq Nat
  /\ NotReady \notin Indices /\ Repeat # Unused
  /\ ~Valid(Repeat) /\ ~Valid(Unused)
  /\ \A x \in Indices : Valid(x) \/ x = Repeat \/ x = Unused
BY CountsAssumption DEF Indices, Unused, NotReady, Valid

LEMMA FirstUsedIs ==
  ASSUME NEW b \in Blocks, Used(b) # {}
  PROVE  /\ FirstUsed(b) \in Lanes(b) /\ fseIds[FirstUsed(b)] # Unused
         /\ \A i \in Lanes(b) : fseIds[i] # Unused => FirstUsed(b) <= i
<1>1. Used(b) \in SUBSET Nat
  BY Interval DEF Used, Streams
<1>2. \E i \in Used(b) : \A j \in Used(b) : i <= j
  BY <1>1, Least
<1>3. FirstUsed(b) \in Used(b) /\ \A j \in Used(b) : FirstUsed(b) <= j
  BY <1>2 DEF FirstUsed
<1> QED BY <1>3 DEF Used

\* What the lanes of a block say depends on those lanes only.
LEMMA UsedSame ==
  ASSUME NEW b \in Blocks, \A i \in Lanes(b) : fseIds'[i] = fseIds[i]
  PROVE  /\ Used(b)' = Used(b) /\ FirstUsed(b)' = FirstUsed(b)
         /\ NeedsLookback(b)' <=> NeedsLookback(b)
<1>1. Used(b)' = Used(b)
  BY DEF Used, Lanes
<1>2. FirstUsed(b)' = FirstUsed(b)
  BY <1>1 DEF FirstUsed
<1> QED BY <1>1, <1>2, FirstUsedIs DEF NeedsLookback

\* A step of other blocks.
LEMMA Frame ==
  ASSUME NEW b \in Blocks, BlockOK(b), input' = input,
         \A i \in Lanes(b) : fseIds'[i] = fseIds[i],
         lookback'[b] = lookback[b], pc'[b] = pc[b],
         prev'[b] = prev[b], found'[b] = found[b]
  PROVE  BlockOK(b)'
<1>1. Used(b)' = Used(b) /\ FirstUsed(b)' = FirstUsed(b)
      /\ (NeedsLookback(b)' <=> NeedsLookback(b))
  BY UsedSame
<1>2. lookback'[b] # NotReady => WordOK(b, lookback[b])'
  BY DEF BlockOK, WordOK
<1>3. pc'[b] # "done" => Untouched(b)'
  BY DEF BlockOK, Untouched
<1>4. pc'[b] = "lookBack" => Walking(b)'
  BY <1>1 DEF BlockOK, Walking, NoneBetween
<1>5. pc'[b] = "store" /\ NeedsLookback(b)' => FoundOK(b)'
  BY <1>1 DEF BlockOK, FoundOK
<1>6. pc'[b] = "done" => StoredOK(b)'
  <2>1. \A i : Propagated(i)' = Propagated(i)
    BY DEF Propagated, LastNamed
  <2> QED BY <2>1 DEF BlockOK, StoredOK
<1> QED BY <1>2, <1>3, <1>4, <1>5, <1>6 DEF BlockOK

LEMMA InitInv == Init => IInv
<1> SUFFICES ASSUME Init PROVE IInv
  OBVIOUS
<1>1. TypeOK
  <2>1. \A b \in Blocks : 0 \in Blocks
    BY BlockRange
  <2> QED BY <2>1, InputsAssumption, IndexFacts DEF Init, TypeOK
<1>2. ASSUME NEW b \in Blocks PROVE BlockOK(b)
  BY DEF Init, BlockOK, Untouched
<1> QED BY <1>1, <1>2 DEF IInv

------------------------------------------------------------------------------
\* The steps.

LEMMA BlockTyped ==
  ASSUME NEW b \in Blocks, TypeOK
  PROVE  /\ \A i \in Lanes(b) : i \in Streams /\ i \in Nat /\ fseIds[i] \in Indices
                                /\ input[i] \in Indices
         /\ DOMAIN input = Streams /\ DOMAIN input \subseteq Nat /\ Streams \subseteq Nat
         /\ FirstLane(b) \in Nat /\ LastLane(b) \in Nat /\ FirstLane(b) <= LastLane(b)
         /\ FirstLane(b) \in Lanes(b) /\ LastLane(b) \in Lanes(b)
<1>1. Streams \subseteq Nat
  BY DEF Streams
<1>2. DOMAIN input = Streams /\ \A i \in Streams : fseIds[i] \in Indices /\ input[i] \in Indices
  BY DEF TypeOK
<1>3. FirstLane(b) \in Lanes(b) /\ LastLane(b) \in Lanes(b) /\ Lanes(b) \subseteq Streams
      /\ FirstLane(b) <= LastLane(b)
  BY Interval
<1> QED BY <1>1, <1>2, <1>3

\* The last table named in the block is so in the whole, up to lane i.
LEMMA LastInBlock ==
  ASSUME NEW b \in Blocks, TypeOK, NEW x \in [Lanes(b) -> Indices],
         NEW i \in Lanes(b), NEW j \in Lanes(b), LastValid(input, j, i),
         x[j] = input[j], \A k \in Lanes(b) : j < k /\ k <= i => ~Valid(x[k])
  PROVE  LastValid(x, j, i)
BY DEF LastValid

LEMMA PublishedOK ==
  ASSUME NEW b \in Blocks, TypeOK, Untouched(b)
  PROVE  WordOK(b, Published(b))
<1> DEFINE x == LaneIds(b)
<1>1. x \in [Lanes(b) -> Indices] /\ \A i \in Lanes(b) : x[i] = input[i]
  BY BlockTyped DEF LaneIds, Untouched
<1>2. LastLane(b) \in Lanes(b)
  BY Interval
<1>3. CASE \A i \in Lanes(b) : ~Valid(fseIds[i])
  <2>1. Published(b) = Unused
    BY <1>3 DEF Published
  <2>2. \A j \in Lanes(b) : ~LastValid(input, j, LastLane(b))
    BY <1>3 DEF LastValid, Untouched
  <2> QED BY <2>1, <2>2, IndexFacts DEF WordOK
<1>4. CASE \E i \in Lanes(b) : Valid(fseIds[i])
  <2>1. Published(b) = Propagate(x)[LastLane(b)]
    BY <1>4 DEF Published
  <2>2. Published(b) \in Indices
    BY <1>1, <1>2, <2>1, TreeResult
  <2>3. ASSUME NEW j \in Lanes(b), LastValid(input, j, LastLane(b))
        PROVE  Published(b) = input[j]
    <3>1. \A k \in Lanes(b) : j < k /\ k <= LastLane(b) => ~Valid(x[k])
      BY <1>1, <2>3, BlockTyped DEF LastValid
    <3>2. LastValid(x, j, LastLane(b))
      BY <1>1, <1>2, <2>3, <3>1, LastInBlock
    <3>3. Propagate(x)[LastLane(b)] = x[j]
      BY <1>1, <1>2, <3>2, TreeResult
    <3> QED BY <1>1, <2>1, <3>3
  <2>4. ~ (\A k \in Lanes(b) : ~Valid(input[k]))
    BY <1>4 DEF Untouched
  <2> QED BY <2>2, <2>3, <2>4 DEF WordOK
<1> QED BY <1>3, <1>4

LEMMA LaunchStep ==
  ASSUME IInv, NEW b \in Blocks, Launch(b)
  PROVE  IInv'
<1>1. TypeOK'
  BY DEF IInv, TypeOK, Launch
<1>2. ASSUME NEW c \in Blocks, c # b PROVE BlockOK(c)'
  BY <1>2, Frame DEF IInv, Launch, TypeOK
<1>3. BlockOK(b)'
  <2>1. pc'[b] = "publish" /\ pc[b] = "queued"
    BY DEF IInv, TypeOK, Launch
  <2>2. BlockOK(b)
    BY DEF IInv
  <2>3. lookback'[b] # NotReady => WordOK(b, lookback[b])'
    BY <2>2 DEF BlockOK, WordOK, Launch
  <2>4. Untouched(b)'
    BY <2>1, <2>2 DEF BlockOK, Untouched, Launch
  <2> QED BY <2>1, <2>3, <2>4 DEF BlockOK
<1> QED BY <1>1, <1>2, <1>3 DEF IInv

LEMMA PublishStep ==
  ASSUME IInv, NEW b \in Blocks, Publish(b)
  PROVE  IInv'
<1>1. TypeOK /\ BlockOK(b) /\ pc[b] = "publish" /\ Untouched(b) /\ b \in Nat
  BY BlockRange DEF IInv, BlockOK, Publish
<1>2. WordOK(b, Published(b))
  BY <1>1, PublishedOK
<1>3. fseIds[FirstLane(b)] \in Indices /\ fseIds[FirstLane(b)] = input[FirstLane(b)]
  BY <1>1, BlockTyped DEF Untouched
<1>4. TypeOK'
  <2>1. lookback' \in [Blocks -> Indices \cup {NotReady}]
    BY <1>1, <1>2 DEF TypeOK, Publish, WordOK
  <2>2. pc' \in [Blocks -> {"queued", "publish", "lookBack", "store", "done"}]
    BY <1>1 DEF TypeOK, Publish
  <2>3. prev' \in [Blocks -> Blocks]
    BY <1>1, BlockRange DEF TypeOK, Publish
  <2>4. found' \in [Blocks -> Indices]
    BY <1>1, <1>3 DEF TypeOK, Publish
  <2> QED BY <1>1, <2>1, <2>2, <2>3, <2>4 DEF TypeOK, Publish
<1>5. ASSUME NEW c \in Blocks, c # b PROVE BlockOK(c)'
  BY <1>5, Frame DEF IInv, Publish, TypeOK
<1>6. BlockOK(b)'
  <2>1. /\ pc'[b] = IF NeedsLookback(b) THEN "lookBack" ELSE "store"
        /\ prev'[b] = IF b # 0 THEN b - 1 ELSE 0
        /\ found'[b] = fseIds[FirstLane(b)]
        /\ lookback'[b] = IF lookback[b] = NotReady THEN Published(b) ELSE lookback[b]
        /\ input' = input /\ fseIds' = fseIds
    BY <1>1 DEF Publish, TypeOK
  <2>2. FirstUsed(b)' = FirstUsed(b) /\ (NeedsLookback(b)' <=> NeedsLookback(b))
    BY <2>1, UsedSame
  <2>3. WordOK(b, lookback[b])'
    BY <1>1, <1>2, <2>1 DEF BlockOK, WordOK
  <2>4. Untouched(b)'
    BY <1>1, <2>1 DEF Untouched
  <2>5. ASSUME NeedsLookback(b) PROVE Walking(b)'
    <3>1. b # 0 /\ Used(b) # {}
      BY <2>5 DEF NeedsLookback
    <3>2. prev'[b] = b - 1 /\ LastLane(b - 1) + 1 = FirstLane(b) /\ b - 1 \in Blocks
      BY <2>1, <3>1, NextBlock
    <3>3. FirstUsed(b) \in Lanes(b) /\ \A i \in Lanes(b) : fseIds[i] # Unused => FirstUsed(b) <= i
      BY <3>1, FirstUsedIs
    <3>4. ASSUME NEW k \in Streams, LastLane(b - 1) < k, k < FirstUsed(b)
          PROVE  ~Valid(input[k])
      <4>1. k \in Nat /\ LastLane(b - 1) \in Nat /\ FirstUsed(b) \in Nat
            /\ FirstUsed(b) <= LastLane(b) /\ LastLane(b) \in Nat
        BY <1>1, <3>2, <3>3, BlockTyped, Interval
      <4>2. FirstLane(b) <= k /\ k <= LastLane(b)
        BY <3>2, <3>4, <4>1
      <4>3. k \in Lanes(b)
        BY <4>2, Interval
      <4>4. fseIds[k] = Unused
        BY <3>3, <3>4, <4>1, <4>3
      <4> QED BY <1>1, <4>3, <4>4, IndexFacts DEF Untouched
    <3>5. NoneBetween(b - 1, FirstUsed(b))
      BY <3>4 DEF NoneBetween
    <3>6. NoneBetween(prev[b], FirstUsed(b))'
      BY <2>1, <2>2, <3>2, <3>5 DEF NoneBetween
    <3>7. prev'[b] < b
      BY <1>1, <3>1, <3>2
    <3> QED BY <1>3, <2>1, <2>2, <2>5, <3>6, <3>7 DEF Walking
  <2> QED BY <2>1, <2>2, <2>3, <2>4, <2>5 DEF BlockOK
<1> QED BY <1>4, <1>5, <1>6 DEF IInv

\* A walk that ends on a named table has found that of the streams before.
LEMMA FoundNamed ==
  ASSUME TypeOK, NEW b \in Blocks, NEW a \in Blocks, NEW f \in Lanes(b), a < b,
         ~Valid(input[f]), NoneBetween(a, f), NEW w, WordOK(a, w), w # Unused
  PROVE  /\ \A j : LastValid(input, j, f) => w = input[j]
         /\ ~NoneValid(input, f)
<1>1. LastLane(a) \in Nat /\ LastLane(a) \in Lanes(a) /\ f \in Nat /\ DOMAIN input \subseteq Nat
      /\ DOMAIN input = Streams /\ FirstLane(b) \in Nat /\ FirstLane(a) \in Nat
  BY BlockTyped
<1>2. LastLane(a) < f
  <2>1. LastLane(a) \div BlockSize = a /\ f \div BlockSize = b
    BY <1>1 DEF Lanes
  <2>2. a \in Nat /\ b \in Nat /\ a * BlockSize \in Nat /\ b * BlockSize \in Nat
    BY BlockRange
  <2>3. a * BlockSize + BlockSize <= b * BlockSize
    BY <2>2, BlockSizeAssumption
  <2>4. LastLane(a) < a * BlockSize + BlockSize /\ b * BlockSize <= f
    BY <1>1, <2>1, <2>2, OwnWaves, InWave
  <2> QED BY <1>1, <2>2, <2>3, <2>4, BlockSizeAssumption
<1>3. ~NoneValid(input, LastLane(a))
  <2>1. PICK k \in Lanes(a) : Valid(input[k])
    BY DEF WordOK
  <2>2. k \in Streams /\ k <= LastLane(a)
    BY <2>1, Interval
  <2> QED BY <1>1, <2>1, <2>2 DEF NoneValid
<1>4. PICK j : LastValid(input, j, LastLane(a))
  BY <1>1, <1>3, LastExists
<1>5. j \in Lanes(a)
  <2>1. PICK k \in Lanes(a) : Valid(input[k])
    BY DEF WordOK
  <2>2. k \in Streams /\ k <= LastLane(a) /\ k \in Nat /\ FirstLane(a) <= k
    BY <1>1, <2>1, Interval
  <2>3. j \in Streams /\ j \in Nat /\ j <= LastLane(a) /\ k <= j
    BY <1>1, <1>4, <2>1, <2>2, LastNotBefore
  <2>4. FirstLane(a) <= j
    BY <1>1, <2>2, <2>3
  <2> QED BY <2>3, <2>4, Interval
<1>6. w = input[j]
  BY <1>4, <1>5 DEF WordOK
<1>7. LastValid(input, j, f)
  <2>1. j \in Streams /\ j \in Nat /\ j <= LastLane(a) /\ Valid(input[j])
    BY <1>1, <1>4 DEF LastValid
  <2>2. j <= f
    BY <1>1, <1>2, <2>1
  <2>3. ASSUME NEW k \in Streams, j < k, k <= f PROVE ~Valid(input[k])
    <3>1. k \in Nat
      BY <1>1
    <3>2. CASE k <= LastLane(a)
      BY <1>1, <1>4, <2>3, <3>2 DEF LastValid
    <3>3. CASE LastLane(a) < k /\ k < f
      BY <3>3 DEF NoneBetween
    <3>4. CASE k = f
      BY <3>4
    <3> QED BY <1>1, <2>3, <3>1, <3>2, <3>3, <3>4
  <2> QED BY <1>1, <2>1, <2>2, <2>3 DEF LastValid
<1>8. \A k : LastValid(input, k, f) => k = j
  BY <1>1, <1>7, LastUnique
<1>9. ~NoneValid(input, f)
  BY <1>7 DEF NoneValid, LastValid
<1> QED BY <1>6, <1>8, <1>9

\* The walk passes over a block that names no table.
LEMMA PassedOver ==
  ASSUME TypeOK, NEW a \in Blocks, NEW f \in Streams, NoneBetween(a, f), WordOK(a, Unused)
  PROVE  /\ \A k \in Lanes(a) : ~Valid(input[k])
         /\ a # 0 => NoneBetween(a - 1, f)
         /\ a = 0 /\ ~Valid(input[f]) => NoneValid(input, f)
<1>1. DOMAIN input = Streams /\ DOMAIN input \subseteq Nat /\ LastLane(a) \in Nat
      /\ FirstLane(a) \in Nat
  BY BlockTyped
<1>2. \A k \in Lanes(a) : ~Valid(input[k])
  <2> SUFFICES ASSUME NEW k \in Lanes(a), Valid(input[k]) PROVE FALSE
    OBVIOUS
  <2>1. k \in Streams /\ k \in Nat /\ k <= LastLane(a) /\ FirstLane(a) <= k
    BY <1>1, Interval
  <2>2. ~NoneValid(input, LastLane(a))
    BY <1>1, <2>1 DEF NoneValid
  <2>3. PICK j : LastValid(input, j, LastLane(a))
    BY <1>1, <2>2, LastExists
  <2>4. j \in Streams /\ j \in Nat /\ j <= LastLane(a) /\ k <= j /\ Valid(input[j])
    BY <1>1, <2>1, <2>3, LastNotBefore
  <2>5. j \in Lanes(a)
    <3>1. FirstLane(a) <= j
      BY <1>1, <2>1, <2>4
    <3> QED BY <2>4, <3>1, Interval
  <2>6. input[j] = Unused
    BY <2>3, <2>5 DEF WordOK
  <2> QED BY <2>4, <2>6, IndexFacts
<1>3. ASSUME a # 0 PROVE NoneBetween(a - 1, f)
  <2>1. LastLane(a - 1) + 1 = FirstLane(a) /\ a - 1 \in Blocks
    BY <1>3, NextBlock
  <2>2. LastLane(a - 1) \in Nat
    BY <2>1, BlockTyped
  <2>3. ASSUME NEW k \in Streams, LastLane(a - 1) < k, k < f PROVE ~Valid(input[k])
    <3>1. CASE k <= LastLane(a)
      <4>1. k \in Nat /\ FirstLane(a) <= k
        BY <1>1, <2>1, <2>2, <2>3
      <4> QED BY <1>2, <3>1, <4>1, Interval
    <3>2. CASE LastLane(a) < k
      BY <2>3, <3>2 DEF NoneBetween
    <3> QED BY <1>1, <3>1, <3>2
  <2> QED BY <2>3 DEF NoneBetween
<1>4. ASSUME a = 0, ~Valid(input[f]) PROVE NoneValid(input, f)
  <2>1. FirstLane(a) = 0
    BY <1>4, BlockSizeAssumption DEF FirstLane
  <2>2. ASSUME NEW k \in Streams, k <= f PROVE ~Valid(input[k])
    <3>1. k \in Nat /\ f \in Nat /\ FirstLane(a) <= k
      BY <1>1, <2>1
    <3>2. CASE k <= LastLane(a)
      BY <1>2, <3>1, <3>2, Interval
    <3>3. CASE LastLane(a) < k /\ k < f
      BY <3>3 DEF NoneBetween
    <3>4. CASE k = f
      BY <1>4, <3>4
    <3> QED BY <1>1, <2>2, <3>1, <3>2, <3>3, <3>4
  <2> QED BY <1>1, <2>2 DEF NoneValid
<1> QED BY <1>2, <1>3, <1>4

LEMMA LookBackStep ==
  ASSUME IInv, NEW b \in Blocks, LookBack(b)
  PROVE  IInv'
<1> DEFINE a == prev[b]
           w == lookback[a]
           f == FirstUsed(b)
<1>1. TypeOK /\ BlockOK(b) /\ pc[b] = "lookBack" /\ Walking(b) /\ Untouched(b) /\ b \in Nat
  BY BlockRange DEF IInv, BlockOK, LookBack
<1>2. a \in Blocks /\ a \in Nat /\ a < b /\ w # NotReady /\ WordOK(a, w) /\ w \in Indices
  <2>1. a \in Blocks /\ a < b /\ w # NotReady
    BY <1>1 DEF TypeOK, Walking, LookBack
  <2>2. WordOK(a, w)
    BY <2>1 DEF IInv, BlockOK
  <2> QED BY <2>1, <2>2, BlockRange DEF WordOK
<1>3. f \in Lanes(b) /\ f \in Streams /\ f \in Nat /\ input[f] = Repeat /\ fseIds[f] = Repeat
      /\ (\A i \in Lanes(b) : fseIds[i] # Unused => f <= i) /\ NoneBetween(a, f)
  <2>1. Used(b) # {} /\ fseIds[f] = Repeat
    BY <1>1 DEF Walking, NeedsLookback
  <2> QED BY <1>1, <2>1, FirstUsedIs, BlockTyped DEF Untouched, Walking
<1>4. /\ input' = input /\ fseIds' = fseIds /\ lookback' = lookback
      /\ found'[b] = IF w # Unused THEN w ELSE found[b]
      /\ prev'[b] = IF EndsWalk(w, a) THEN a ELSE a - 1
      /\ pc'[b] = IF EndsWalk(w, a) THEN "store" ELSE "lookBack"
  BY <1>1 DEF LookBack, TypeOK
<1>5. FirstUsed(b)' = f /\ (NeedsLookback(b)' <=> NeedsLookback(b))
  BY <1>4, UsedSame
<1>6. TypeOK'
  <2>1. pc' \in [Blocks -> {"queued", "publish", "lookBack", "store", "done"}]
    BY <1>1 DEF TypeOK, LookBack
  <2>2. prev' \in [Blocks -> Blocks]
    <3>1. ~EndsWalk(w, a) => a - 1 \in Blocks
      BY <1>2, BlockRange DEF EndsWalk
    <3> QED BY <1>1, <1>2, <3>1 DEF TypeOK, LookBack
  <2>3. found' \in [Blocks -> Indices]
    BY <1>1, <1>2 DEF TypeOK, LookBack
  <2> QED BY <1>1, <1>4, <2>1, <2>2, <2>3 DEF TypeOK
<1>7. ASSUME NEW c \in Blocks, c # b PROVE BlockOK(c)'
  BY <1>7, Frame DEF IInv, LookBack, TypeOK
<1>8. BlockOK(b)'
  <2>1. lookback'[b] # NotReady => WordOK(b, lookback[b])'
    BY <1>1, <1>4 DEF BlockOK, WordOK
  <2>2. Untouched(b)'
    BY <1>1, <1>4 DEF Untouched
  <2>3. CASE w # Unused
    <3>1. pc'[b] = "store" /\ found'[b] = w
      BY <1>4, <2>3 DEF EndsWalk
    <3>2. /\ \A j : LastValid(input, j, f) => w = input[j]
          /\ ~NoneValid(input, f)
      BY <1>1, <1>2, <1>3, <2>3, FoundNamed, IndexFacts
    <3>3. FoundOK(b)'
      BY <1>4, <1>5, <3>1, <3>2 DEF FoundOK
    <3> QED BY <2>1, <2>2, <3>1, <3>3 DEF BlockOK
  <2>4. CASE w = Unused /\ a = 0
    <3>1. pc'[b] = "store" /\ found'[b] = found[b] /\ found[b] = input[FirstLane(b)]
      BY <1>1, <1>4, <2>4 DEF EndsWalk, Walking
    <3>2. NoneValid(input, f)
      BY <1>1, <1>2, <1>3, <2>4, PassedOver, IndexFacts
    <3>3. ~Valid(input[FirstLane(b)])
      <4>1. FirstLane(b) \in Lanes(b) /\ FirstLane(b) <= f /\ FirstLane(b) \in Streams
        BY <1>1, <1>3, BlockTyped, Interval
      <4> QED BY <1>1, <3>2, <4>1, BlockTyped DEF NoneValid
    <3>4. \A j : ~LastValid(input, j, f)
      BY <3>2 DEF NoneValid, LastValid
    <3>5. FoundOK(b)'
      BY <1>4, <1>5, <3>1, <3>3, <3>4 DEF FoundOK
    <3> QED BY <2>1, <2>2, <3>1, <3>5 DEF BlockOK
  <2>5. CASE w = Unused /\ a # 0
    <3>1. pc'[b] = "lookBack" /\ found'[b] = found[b] /\ prev'[b] = a - 1
      BY <1>4, <2>5 DEF EndsWalk
    <3>2. NoneBetween(a - 1, f)
      BY <1>1, <1>2, <1>3, <2>5, PassedOver
    <3>3. NoneBetween(prev[b], FirstUsed(b))'
      BY <1>4, <1>5, <3>1, <3>2 DEF NoneBetween
    <3>4. prev'[b] < b
      BY <1>1, <1>2, <3>1
    <3>5. Walking(b)'
      BY <1>1, <1>4, <1>5, <3>1, <3>3, <3>4 DEF Walking
    <3> QED BY <2>1, <2>2, <3>1, <3>5 DEF BlockOK
  <2> QED BY <2>3, <2>4, <2>5
<1> QED BY <1>6, <1>7, <1>8 DEF IInv

\* A stream that says Repeat takes the table of the sequential pass.
LEMMA RepeatResolved ==
  ASSUME IInv, NEW b \in Blocks, StoreResult(b), NEW i \in Lanes(b), input[i] = Repeat
  PROVE  IF Valid(LastNamed[i]) THEN fseIds'[i] = LastNamed[i] ELSE ~Valid(fseIds'[i])
<1> DEFINE f == FirstUsed(b)
           x == [k \in Lanes(b) |-> IF NeedsLookback(b) /\ k = f THEN found[b] ELSE fseIds[k]]
           y == Propagate(x)
<1>1. TypeOK /\ BlockOK(b) /\ pc[b] = "store" /\ Untouched(b)
      /\ (NeedsLookback(b) => FoundOK(b)) /\ found[b] \in Indices
  BY DEF IInv, BlockOK, StoreResult, TypeOK
<1>2. /\ x \in [Lanes(b) -> Indices] /\ DOMAIN x = Lanes(b)
      /\ \A k \in Lanes(b) : ~ (NeedsLookback(b) /\ k = f) => x[k] = input[k]
      /\ NeedsLookback(b) /\ f \in Lanes(b) => x[f] = found[b]
  BY <1>1, BlockTyped DEF Untouched
<1>3. /\ i \in Streams /\ i \in Nat /\ DOMAIN input = Streams /\ DOMAIN input \subseteq Nat
      /\ Lanes(b) \subseteq Nat /\ Lanes(b) \subseteq Streams
  BY <1>1, BlockTyped
<1>4. /\ \A k \in Lanes(b) : k \in Streams /\ k \in Nat
      /\ f \in Lanes(b) /\ f \in Nat /\ f \in Streams /\ f <= i /\ Used(b) # {}
      /\ fseIds[f] # Unused /\ fseIds[f] = input[f]
      /\ \A k \in Lanes(b) : input[k] # Unused => f <= k
  <2>1. fseIds[i] # Unused /\ i \in Used(b) /\ \A k \in Lanes(b) : fseIds[k] = input[k]
    BY <1>1, IndexFacts DEF Untouched, Used
  <2> QED BY <1>3, <2>1, FirstUsedIs
<1>5. fseIds'[i] = IF x[i] = Repeat THEN y[i] ELSE x[i]
  BY <1>3 DEF StoreResult
<1>6. /\ y[i] \in Indices
      /\ \A j : LastValid(x, j, i) => y[i] = x[j]
      /\ NoneValid(x, i) => y[i] = x[i]
  BY <1>2, TreeResult
<1>7. /\ \A j : LastValid(input, j, i) => LastNamed[i] = input[j]
      /\ NoneValid(input, i) => LastNamed[i] = Unused
  BY <1>1, <1>3, Sequential DEF TypeOK
<1> HIDE DEF x, y, f
<1>8. CASE NoneValid(input, i)
  <2>1. \A k \in Streams : k <= i => ~Valid(input[k])
    BY <1>3, <1>8 DEF NoneValid
  <2>2. NeedsLookback(b) => ~Valid(found[b])
    <3>1. NoneValid(input, f)
      BY <1>3, <1>4, <2>1 DEF NoneValid
    <3> QED BY <1>1, <3>1 DEF FoundOK, f
  <2>3. \A k \in Lanes(b) : k <= i => ~Valid(x[k])
    BY <1>2, <1>4, <2>1, <2>2
  <2>4. NoneValid(x, i)
    BY <1>2, <2>3 DEF NoneValid
  <2>5. ~Valid(x[i]) /\ y[i] = x[i]
    BY <1>3, <1>6, <2>3, <2>4
  <2> QED BY <1>5, <1>7, <1>8, <2>5, IndexFacts
<1>9. CASE ~NoneValid(input, i)
  <2>1. PICK j : LastValid(input, j, i)
    BY <1>3, <1>9, LastExists
  <2>2. /\ j \in Streams /\ j \in Nat /\ j <= i /\ Valid(input[j])
        /\ \A k \in Streams : j < k /\ k <= i => ~Valid(input[k])
    BY <1>3, <2>1 DEF LastValid
  <2>3. LastNamed[i] = input[j] /\ input[j] # Unused /\ input[j] # Repeat
    BY <1>7, <2>1, <2>2, IndexFacts
  <2>4. j # i
    BY <2>3
  <2>5. CASE j \in Lanes(b)
    <3>1. f <= j
      BY <1>4, <2>3, <2>5
    <3>2. ~ (NeedsLookback(b) /\ j = f)
      BY <1>4, <2>3 DEF NeedsLookback, f
    <3>3. ~ (NeedsLookback(b) /\ i = f)
      BY <1>3, <1>4, <2>2, <2>4, <3>1
    <3>4. x[j] = input[j] /\ x[i] = Repeat
      BY <1>2, <2>5, <3>2, <3>3
    <3>5. \A k \in Lanes(b) : j < k /\ k <= i => ~Valid(x[k])
      <4> SUFFICES ASSUME NEW k \in Lanes(b), j < k, k <= i PROVE ~Valid(x[k])
        OBVIOUS
      <4>1. k # f
        BY <1>4, <2>2, <3>1
      <4> QED BY <1>2, <1>4, <2>2, <4>1
    <3>6. LastValid(x, j, i)
      BY <1>2, <2>2, <2>5, <3>4, <3>5 DEF LastValid
    <3> QED BY <1>5, <1>6, <2>2, <2>3, <3>4, <3>6
  <2>6. CASE j \notin Lanes(b)
    <3>1. FirstLane(b) \in Nat /\ LastLane(b) \in Nat /\ i <= LastLane(b) /\ b \in Nat
      BY <1>1, <1>3, BlockTyped, BlockRange, Interval
    <3>2. j < FirstLane(b)
      BY <1>3, <2>2, <2>6, <3>1, Interval
    <3>3. \A k \in Lanes(b) : j < k
      BY <1>4, <2>2, <3>1, <3>2, Interval
    <3>4. b # 0
      <4>1. b = 0 => FirstLane(b) = 0
        BY BlockSizeAssumption DEF FirstLane
      <4> QED BY <2>2, <3>1, <3>2, <4>1
    <3>5. input[f] = Repeat
      <4>1. ~Valid(input[f]) /\ input[f] \in Indices
        BY <1>1, <1>4, <2>2, <3>3, BlockTyped
      <4> QED BY <1>4, <4>1, IndexFacts
    <3>6. NeedsLookback(b)
      BY <1>4, <3>4, <3>5 DEF NeedsLookback, f
    <3>7. LastValid(input, j, f)
      <4>1. j <= f
        BY <1>4, <2>2, <3>3
      <4>2. ASSUME NEW k \in Streams, j < k, k <= f PROVE ~Valid(input[k])
        <5>1. k <= i
          BY <1>3, <1>4, <4>2
        <5> QED BY <2>2, <4>2, <5>1
      <4> QED BY <1>3, <2>2, <4>1, <4>2 DEF LastValid
    <3>8. found[b] = input[j] /\ x[f] = input[j]
      BY <1>1, <1>2, <1>4, <3>6, <3>7 DEF FoundOK, f
    <3>9. CASE i = f
      BY <1>5, <2>2, <2>3, <3>8, <3>9
    <3>10. CASE i # f
      <4>1. x[i] = Repeat
        BY <1>2, <3>10
      <4>2. \A k \in Lanes(b) : f < k /\ k <= i => ~Valid(x[k])
        <5> SUFFICES ASSUME NEW k \in Lanes(b), f < k, k <= i PROVE ~Valid(x[k])
          OBVIOUS
        <5>1. k # f /\ j < k
          BY <1>4, <3>3
        <5> QED BY <1>2, <1>4, <2>2, <5>1
      <4>3. LastValid(x, f, i)
        BY <1>2, <1>4, <2>2, <3>8, <4>2 DEF LastValid
      <4> QED BY <1>5, <1>6, <2>2, <2>3, <3>8, <4>1, <4>3
    <3> QED BY <3>9, <3>10
  <2> QED BY <2>5, <2>6
<1> QED BY <1>8, <1>9

LEMMA StoreStep ==
  ASSUME IInv, NEW b \in Blocks, StoreResult(b)
  PROVE  IInv'
<1> DEFINE x == [k \in Lanes(b) |->
                   IF NeedsLookback(b) /\ k = FirstUsed(b) THEN found[b] ELSE fseIds[k]]
           y == Propagate(x)
<1>1. TypeOK /\ BlockOK(b) /\ pc[b] = "store" /\ Untouched(b) /\ found[b] \in Indices
  BY DEF IInv, BlockOK, StoreResult, TypeOK
<1>2. x \in [Lanes(b) -> Indices]
  BY <1>1, BlockTyped
<1>3. y \in [Lanes(b) -> Indices]
  BY <1>2, TreeResult
<1>4. /\ fseIds' = [i \in Streams |-> IF i \notin Lanes(b) THEN fseIds[i]
                                      ELSE IF x[i] = Repeat THEN y[i] ELSE x[i]]
      /\ input' = input /\ lookback' = lookback /\ prev' = prev /\ found' = found
      /\ pc' = [pc EXCEPT ![b] = "done"]
  BY DEF StoreResult
<1>5. fseIds' \in [Streams -> Indices]
  <2> HIDE DEF x, y
  <2> QED BY <1>1, <1>2, <1>3, <1>4 DEF TypeOK
<1>6. TypeOK'
  BY <1>1, <1>4, <1>5 DEF TypeOK
<1>7. ASSUME NEW c \in Blocks, c # b PROVE BlockOK(c)'
  <2>1. \A i \in Lanes(c) : i \in Streams /\ i \notin Lanes(b)
    BY <1>7, OtherBlock, Interval
  <2>2. \A i \in Lanes(c) : fseIds'[i] = fseIds[i]
    BY <1>4, <2>1
  <2> QED BY <1>1, <1>4, <1>7, <2>2, Frame DEF IInv, TypeOK
<1>8. BlockOK(b)'
  <2>1. pc'[b] = "done"
    BY <1>1, <1>4 DEF TypeOK
  <2>2. \A i : Propagated(i)' = Propagated(i)
    BY <1>4 DEF Propagated, LastNamed
  <2>3. ASSUME NEW i \in Lanes(b)
        PROVE  IF Valid(Propagated(i)) THEN fseIds'[i] = Propagated(i) ELSE ~Valid(fseIds'[i])
    <3>1. CASE input[i] = Repeat
      BY <3>1, RepeatResolved DEF Propagated
    <3>2. CASE input[i] # Repeat
      <4>1. i \in Streams /\ fseIds[i] = input[i]
        BY <1>1, BlockTyped DEF Untouched
      <4>2. ~ (NeedsLookback(b) /\ i = FirstUsed(b))
        BY <3>2, <4>1 DEF NeedsLookback
      <4>3. x[i] = input[i]
        BY <4>1, <4>2
      <4>4. fseIds'[i] = input[i]
        BY <1>4, <3>2, <4>1, <4>3
      <4> QED BY <3>2, <4>4 DEF Propagated
    <3> QED BY <3>1, <3>2
  <2>4. StoredOK(b)'
    BY <2>2, <2>3 DEF StoredOK
  <2>5. lookback'[b] # NotReady => WordOK(b, lookback[b])'
    BY <1>1, <1>4 DEF BlockOK, WordOK
  <2> QED BY <2>1, <2>4, <2>5 DEF BlockOK
<1> QED BY <1>6, <1>7, <1>8 DEF IInv

------------------------------------------------------------------------------
\* The theorems.

LEMMA NextInv == IInv /\ [Next]_vars => IInv'
<1> SUFFICES ASSUME IInv, [Next]_vars PROVE IInv'
  OBVIOUS
<1>1. CASE UNCHANGED vars
  BY <1>1 DEF vars, IInv, TypeOK, BlockOK, WordOK, Untouched, Walking, NoneBetween, FoundOK,
              StoredOK, Propagated, LastNamed, NeedsLookback, FirstUsed, Used, LastValid, NoneValid
<1>2. CASE Next
  <2>1. PICK b \in Blocks : Launch(b) \/ Wave(b)
    BY <1>2 DEF Next
  <2> QED BY <2>1, LaunchStep, PublishStep, LookBackStep, StoreStep DEF Wave
<1> QED BY <1>1, <1>2

THEOREM Invariant == Spec => []IInv
<1> QED BY InitInv, NextInv, PTL DEF Spec

\* The indices, the words and the registers of the waves stay in their ranges.
THEOREM TypeCorrect == Spec => []TypeOK
<1>1. IInv => TypeOK
  BY DEF IInv
<1> QED BY <1>1, Invariant, PTL

\* A walk never passes over a block that names a table, however the waves
\* publish (STEP 3 of the kernel).
THEOREM WalkSkips == Spec => []WalkSkipsOnlyUnnamed
<1>1. IInv => WalkSkipsOnlyUnnamed
  BY DEF IInv, BlockOK, Walking, NoneBetween, WalkSkipsOnlyUnnamed
<1> QED BY <1>1, Invariant, PTL

\* When a wave has ended, each of its streams has the table the sequential
\* pass gives it (zstdgpu_PropagateFseIndexCpu).
THEOREM StoredSequential == Spec => []StoredIndicesSequential
<1>1. IInv => StoredIndicesSequential
  BY DEF IInv, BlockOK, StoredOK, StoredIndicesSequential
<1> QED BY <1>1, Invariant, PTL
==============================================================================
