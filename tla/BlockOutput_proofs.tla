------------------------- MODULE BlockOutput_proofs -------------------------
(***************************************************************************)
(* Proofs about BlockOutput, for any request that the assumption admits    *)
(* and waves of any size.                                                  *)
(***************************************************************************)
EXTENDS BlockOutput, GroupSearch_proofs

------------------------------------------------------------------------------
(* What the assumption says of a request. *)

LEMMA InputOK ==
  ASSUME NEW in \in Inputs
  PROVE  LayoutOK(in) /\ SizesOK(in) /\ SequencesOK(in) /\ PlacesOK(in) /\ ContentOK(in)
BY InputsAssumption

\* The bytes of a block.
Extent(in, b) == in.ref.start[b] .. in.ref.start[b] + BlockSize(in, b) - 1

\* Numbers that do not fall from one to the next are sorted.
LEMMA Sorted ==
  ASSUME NEW a \in Nat, NEW z \in Int, NEW s \in [a .. z -> Nat],
         \A i \in a .. z : i + 1 <= z => s[i] <= s[i + 1]
  PROVE  \A i, j \in a .. z : i <= j => s[i] <= s[j]
<1> SUFFICES ASSUME NEW i \in a .. z, NEW j \in a .. z, i <= j, ~ (s[i] <= s[j])
             PROVE  FALSE
  OBVIOUS
<1> DEFINE Bad == {k \in i .. z : ~ (s[i] <= s[k])}
<1>1. PICK k \in Bad : \A m \in Bad : k <= m
  <2>1. Bad \in SUBSET Nat /\ j \in Bad
    OBVIOUS
  <2> HIDE DEF Bad
  <2> QED BY <2>1, Least
<1>2. k \in i .. z /\ ~ (s[i] <= s[k])
  OBVIOUS
<1>3. k # i
  BY <1>2
<1>4. k - 1 \in i .. z /\ k - 1 \in a .. z /\ (k - 1) + 1 = k /\ k <= z
  BY <1>2, <1>3
<1>5. s[i] <= s[k - 1]
  BY <1>1, <1>4
<1>6. s[k - 1] <= s[k] /\ s[k - 1] \in Nat /\ s[k] \in Nat /\ s[i] \in Nat
  BY <1>4, <1>2
<1> QED BY <1>2, <1>5, <1>6

LEMMA FirstSorted ==
  ASSUME NEW in \in Inputs
  PROVE  /\ in.frameCount \in Nat /\ in.frameCount > 0
         /\ in.first \in [0 .. in.frameCount - 1 -> Nat] /\ in.first[0] = 0
         /\ \A f, g \in FramesOf(in) : f <= g => in.first[f] <= in.first[g]
<1>1. LayoutOK(in)
  BY InputOK
<1>2. in.frameCount \in Nat /\ in.frameCount > 0 /\ in.first \in [0 .. in.frameCount - 1 -> Nat] /\ in.first[0] = 0
  BY <1>1 DEF LayoutOK, FramesOf
<1>3. \A f \in 0 .. in.frameCount - 1 : f + 1 <= in.frameCount - 1 => in.first[f] <= in.first[f + 1]
  <2> SUFFICES ASSUME NEW f \in 0 .. in.frameCount - 1, f + 1 <= in.frameCount - 1
               PROVE  in.first[f] <= in.first[f + 1]
    OBVIOUS
  <2>1. f + 1 \in FramesOf(in) \ {0} /\ (f + 1) - 1 = f
    BY <1>2 DEF FramesOf
  <2> QED BY <1>1, <2>1 DEF LayoutOK
<1>4. \A f, g \in 0 .. in.frameCount - 1 : f <= g => in.first[f] <= in.first[g]
  <2> DEFINE z == in.frameCount - 1
             s == in.first
  <2>1. z \in Int /\ s \in [0 .. z -> Nat] /\ \A f \in 0 .. z : f + 1 <= z => s[f] <= s[f + 1]
    BY <1>2, <1>3
  <2> HIDE DEF z, s
  <2>2. \A f, g \in 0 .. z : f <= g => s[f] <= s[g]
    BY <2>1, Sorted
  <2> QED BY <2>2 DEF z, s
<1> QED BY <1>2, <1>4 DEF FramesOf

LEMMA BlockFacts ==
  ASSUME NEW in \in Inputs, NEW b \in Blocks(in)
  PROVE  /\ b \in Nat /\ in.blocks \in Nat /\ b < in.blocks
         /\ BlockSize(in, b) \in Nat /\ BlockOfs(in, b) \in Nat /\ in.ref.start[b] \in Nat
         /\ in.blockSizePrefix[b] = BlockOfs(in, b) + BlockSize(in, b)
<1>1. LayoutOK(in) /\ SizesOK(in) /\ PlacesOK(in)
  BY InputOK
<1>2. b \in Nat /\ in.blocks \in Nat /\ b < in.blocks
  BY <1>1 DEF LayoutOK, Blocks
<1>3. BlockSize(in, b) \in Nat /\ in.blockSizePrefix[b] \in Nat /\ in.ref.start[b] \in Nat
  BY <1>1 DEF SizesOK, PlacesOK
<1>4. BlockOfs(in, b) \in Nat
  <2>1. CASE b > 0
    <3>1. b - 1 \in Blocks(in)
      BY <2>1, <1>2 DEF Blocks
    <3> QED BY <3>1, <2>1, <1>1 DEF SizesOK, BlockOfs
  <2>2. CASE ~ (b > 0)
    BY <2>2 DEF BlockOfs
  <2> QED BY <2>1, <2>2
<1> QED BY <1>2, <1>3, <1>4 DEF BlockSize

\* The frame of a block, and where the block starts in it.
LEMMA FrameOfBlock ==
  ASSUME NEW in \in Inputs, NEW b \in Blocks(in), NEW f \in FramesOf(in)
  PROVE  in.ref.frame[b] = f <=> in.first[f] <= b /\ (f + 1 < in.frameCount => b < in.first[f + 1])
BY InputOK DEF PlacesOK

StartsAt(in, b) ==
  LET f == in.ref.frame[b]
  IN in.ref.start[b] = in.frameOffs[f] + BlockOfs(in, b) - BlockOfs(in, in.first[f])

LEMMA BlocksStart ==
  ASSUME NEW in \in Inputs, NEW b \in Blocks(in)
  PROVE  StartsAt(in, b)
<1> DEFINE Bad == {d \in Blocks(in) : ~ StartsAt(in, d)}
<1>1. SUFFICES ASSUME Bad # {} PROVE FALSE
  OBVIOUS
<1>2. PICK d \in Bad : \A e \in Bad : d <= e
  <2>1. Bad \in SUBSET Nat
    BY BlockFacts
  <2> QED BY <1>1, <2>1, Least
<1>3. d \in Blocks(in) /\ ~ StartsAt(in, d)
  OBVIOUS
<1> DEFINE f == in.ref.frame[d]
<1>4. f \in FramesOf(in) /\ in.frameOffs[f] \in Nat
  BY <1>3, InputOK DEF PlacesOK
<1>5. in.ref.start[d] = IF in.first[f] = d THEN in.frameOffs[f] ELSE in.ref.start[d - 1] + BlockSize(in, d - 1)
  BY <1>3, InputOK DEF PlacesOK
<1>6. d \in Nat /\ d < in.blocks /\ in.blocks \in Nat
  BY <1>3, BlockFacts
<1>7. in.first[f] \in Nat /\ in.first[f] <= d
  BY <1>3, <1>4, FrameOfBlock, FirstSorted DEF FramesOf
<1>8. CASE in.first[f] = d
  <2>1. BlockOfs(in, d) \in Nat
    BY <1>3, BlockFacts
  <2>2. in.ref.start[d] = in.frameOffs[f]
    BY <1>5, <1>8
  <2>3. in.ref.start[d] = in.frameOffs[f] + BlockOfs(in, d) - BlockOfs(in, in.first[f])
    BY <1>4, <1>8, <2>1, <2>2
  <2> QED BY <1>3, <2>3 DEF StartsAt
<1>9. CASE in.first[f] # d
  <2>1. d - 1 \in Blocks(in) /\ d > 0 /\ in.first[f] <= d - 1
    BY <1>6, <1>7, <1>9 DEF Blocks
  <2>2. f + 1 < in.frameCount => d < in.first[f + 1] /\ in.first[f + 1] \in Nat
    <3>1. f + 1 < in.frameCount => d < in.first[f + 1]
      BY <1>3, <1>4, FrameOfBlock
    <3>2. f + 1 < in.frameCount => f + 1 \in 0 .. in.frameCount - 1
      BY <1>4, FirstSorted DEF FramesOf
    <3> QED BY <3>1, <3>2, FirstSorted
  <2>3. f + 1 < in.frameCount => d - 1 < in.first[f + 1]
    BY <2>2, <1>6
  <2>4. in.ref.frame[d - 1] = f
    BY <2>1, <2>3, <1>4, FrameOfBlock
  <2>5. StartsAt(in, d - 1)
    BY <2>1, <1>2, <1>6
  <2>6. in.ref.start[d - 1] = in.frameOffs[f] + BlockOfs(in, d - 1) - BlockOfs(in, in.first[f])
    BY <2>4, <2>5 DEF StartsAt
  <2>7. in.ref.start[d] = in.ref.start[d - 1] + BlockSize(in, d - 1)
    BY <1>5, <1>9
  <2>8. BlockOfs(in, d) = in.blockSizePrefix[d - 1]
    BY <2>1 DEF BlockOfs
  <2>9. BlockSize(in, d - 1) = in.blockSizePrefix[d - 1] - BlockOfs(in, d - 1)
    BY DEF BlockSize
  <2>10. BlockOfs(in, in.first[f]) \in Nat
    <3>1. in.first[f] \in Blocks(in)
      BY <1>6, <1>7 DEF Blocks
    <3> QED BY <3>1, BlockFacts
  <2>11. in.blockSizePrefix[d - 1] \in Nat /\ BlockOfs(in, d - 1) \in Nat
    BY <2>1, BlockFacts, InputOK DEF SizesOK
  <2>12. in.ref.start[d] = in.frameOffs[f] + BlockOfs(in, d) - BlockOfs(in, in.first[f])
    BY <1>4, <2>6, <2>7, <2>8, <2>9, <2>10, <2>11
  <2> QED BY <1>3, <2>12 DEF StartsAt
<1> QED BY <1>8, <1>9

\* ComputeDestBlockOffsets finds the place of every block.
LEMMA DestIsStart ==
  ASSUME input \in Inputs, NEW b \in Blocks(input)
  PROVE  DestOffset(b) = input.ref.start[b]
<1> DEFINE f == BinarySearch(input.first, input.frameCount, b)
<1>1. b \in Nat
  BY BlockFacts
<1>2. f \in 0 .. input.frameCount - 1 /\ input.first[f] <= b /\ (f + 1 < input.frameCount => b < input.first[f + 1])
  <2> DEFINE n == input.frameCount
             first == input.first
  <2>1. /\ n \in Nat /\ n > 0 /\ first \in [0 .. n - 1 -> Nat] /\ first[0] <= b
        /\ \A i, j \in 0 .. n - 1 : i <= j => first[i] <= first[j]
    BY <1>1, FirstSorted DEF FramesOf
  <2> HIDE DEF n, first
  <2>2. LET r == BinarySearch(first, n, b)
        IN r \in 0 .. n - 1 /\ first[r] <= b /\ (r + 1 < n => b < first[r + 1])
    BY <1>1, <2>1, BinarySearchFinds
  <2> QED BY <2>2 DEF n, first
<1> HIDE DEF f
<1>3. input.ref.frame[b] = f
  BY <1>2, FrameOfBlock DEF FramesOf
<1> USE DEF f
<1> QED BY <1>3, BlocksStart DEF DestOffset, StartsAt

------------------------------------------------------------------------------
(* Raw and RLE blocks. *)

Copied == {"raw", "rle"}

\* The block that the thread of byte i of the raw, or RLE, blocks finds.
FoundBy(in, t, i) == BinarySearch(in.bytesPrefix[t], in.blockCount[t], i)

LEMMA CopiedFacts ==
  ASSUME NEW in \in Inputs, NEW t \in Copied
  PROVE  /\ in.blockCount[t] \in Nat /\ in.bytes[t] \in Nat
         /\ in.bytesPrefix[t] \in [0 .. in.blockCount[t] - 1 -> Nat]
         /\ in.blockCount[t] = 0 => in.bytes[t] = 0
         /\ in.blockCount[t] > 0 => in.bytesPrefix[t][0] = 0
         /\ \A j \in BlocksOf(in, t) :
              /\ in.blockIndex[t][j] \in Blocks(in)
              /\ in.bytesPrefix[t][j] + BlockSize(in, in.blockIndex[t][j]) =
                   IF j + 1 < in.blockCount[t] THEN in.bytesPrefix[t][j + 1] ELSE in.bytes[t]
<1>1. LayoutOK(in) /\ SizesOK(in)
  BY InputOK
<1>2. t \in Kinds
  BY DEF Copied, Kinds
<1>3. in.blockCount[t] \in Nat
  BY <1>1, <1>2 DEF LayoutOK
<1>4. \A j \in BlocksOf(in, t) : in.blockIndex[t][j] \in Blocks(in)
  BY <1>1, <1>2 DEF LayoutOK
<1>5. /\ in.bytesPrefix[t] \in [BlocksOf(in, t) -> Nat] /\ in.bytes[t] \in Nat
      /\ in.blockCount[t] = 0 => in.bytes[t] = 0
      /\ in.blockCount[t] > 0 => in.bytesPrefix[t][0] = 0
      /\ \A j \in BlocksOf(in, t) :
           in.bytesPrefix[t][j] + BlockSize(in, in.blockIndex[t][j]) =
             IF j + 1 < in.blockCount[t] THEN in.bytesPrefix[t][j + 1] ELSE in.bytes[t]
  BY <1>1 DEF SizesOK, Copied
<1> QED BY <1>3, <1>4, <1>5 DEF BlocksOf

LEMMA BytesSorted ==
  ASSUME NEW in \in Inputs, NEW t \in Copied
  PROVE  \A i, j \in BlocksOf(in, t) : i <= j => in.bytesPrefix[t][i] <= in.bytesPrefix[t][j]
<1> DEFINE n == in.blockCount[t]
           z == n - 1
           s == in.bytesPrefix[t]
<1>1. n \in Nat /\ z \in Int /\ s \in [0 .. z -> Nat]
  BY CopiedFacts
<1>2. ASSUME NEW i \in 0 .. z, i + 1 <= z PROVE s[i] <= s[i + 1]
  <2>1. i \in BlocksOf(in, t)
    BY DEF BlocksOf
  <2>2. s[i] + BlockSize(in, in.blockIndex[t][i]) = s[i + 1] /\ in.blockIndex[t][i] \in Blocks(in)
    BY <2>1, <1>2, CopiedFacts
  <2>3. BlockSize(in, in.blockIndex[t][i]) \in Nat
    BY <2>2, BlockFacts
  <2>4. s[i] \in Nat
    BY <1>1
  <2> HIDE DEF n, z, s
  <2> QED BY <2>2, <2>3, <2>4
<1> HIDE DEF n, z, s
<1>3. \A i, j \in 0 .. z : i <= j => s[i] <= s[j]
  BY <1>1, <1>2, Sorted
<1> QED BY <1>3 DEF n, z, s, BlocksOf

LEMMA FillFinds ==
  ASSUME NEW in \in Inputs, NEW t \in Copied, NEW i \in 0 .. in.bytes[t] - 1
  PROVE  LET r == FoundBy(in, t, i)
         IN /\ r \in BlocksOf(in, t) /\ in.bytesPrefix[t][r] <= i
            /\ r + 1 < in.blockCount[t] => i < in.bytesPrefix[t][r + 1]
<1> DEFINE n == in.blockCount[t]
           s == in.bytesPrefix[t]
<1>1. /\ n \in Nat /\ n > 0 /\ s \in [0 .. n - 1 -> Nat] /\ s[0] <= i /\ i \in Nat
      /\ \A j, k \in 0 .. n - 1 : j <= k => s[j] <= s[k]
  BY CopiedFacts, BytesSorted DEF BlocksOf
<1> HIDE DEF n, s
<1>2. LET r == BinarySearch(s, n, i)
      IN r \in 0 .. n - 1 /\ s[r] <= i /\ (r + 1 < n => i < s[r + 1])
  BY <1>1, BinarySearchFinds
<1> QED BY <1>2 DEF n, s, FoundBy, BlocksOf

\* What such a thread stores is what the decoder has there.
LEMMA FillStores ==
  ASSUME NEW in \in Inputs, NEW t \in Copied, NEW j \in BlocksOf(in, t), NEW k \in Nat,
         k < BlockSize(in, in.blockIndex[t][j])
  PROVE  LET p == in.ref.start[in.blockIndex[t][j]] + k
         IN p \in DOMAIN in.ref.content /\ in.ref.content[p] = Byte(t, j, k)
<1> DEFINE b == in.blockIndex[t][j]
<1>1. b \in Blocks(in)
  BY CopiedFacts
<1>2. BlockSize(in, b) \in Nat /\ in.ref.start[b] \in Nat
  BY <1>1, BlockFacts
<1>3. k \in 0 .. BlockSize(in, b) - 1
  BY <1>2
<1>4. in.ref.content[in.ref.start[b] + k] = Byte(t, j, k)
  BY <1>3, InputOK DEF ContentOK, Copied
<1>5. in.ref.start[b] + k \in in.ref.start[b] .. in.ref.start[b] + BlockSize(in, b) - 1
  BY <1>2, <1>3
<1>6. in.ref.start[b] + k \in DOMAIN in.ref.content
  <2>1. \A d \in Blocks(in) : \A p \in in.ref.start[d] .. in.ref.start[d] + BlockSize(in, d) - 1 :
          p \in DOMAIN in.ref.content
    BY InputOK DEF PlacesOK
  <2> HIDE DEF b
  <2> QED BY <1>1, <1>5, <2>1
<1> QED BY <1>4, <1>6

\* No byte of such a block is without its thread.
LEMMA FillReaches ==
  ASSUME NEW in \in Inputs, NEW t \in Copied, NEW j \in BlocksOf(in, t),
         NEW p \in Extent(in, in.blockIndex[t][j])
  PROVE  \E i \in 0 .. in.bytes[t] - 1 :
           /\ FoundBy(in, t, i) = j
           /\ i - in.bytesPrefix[t][j] \in Nat
           /\ i - in.bytesPrefix[t][j] < BlockSize(in, in.blockIndex[t][j])
           /\ p = in.ref.start[in.blockIndex[t][j]] + (i - in.bytesPrefix[t][j])
<1> DEFINE b == in.blockIndex[t][j]
           s == in.bytesPrefix[t]
           n == in.blockCount[t]
           i == s[j] + (p - in.ref.start[b])
           r == FoundBy(in, t, i)
<1>1. b \in Blocks(in) /\ n \in Nat /\ j \in 0 .. n - 1 /\ s \in [0 .. n - 1 -> Nat] /\ in.bytes[t] \in Nat
  BY CopiedFacts DEF BlocksOf
<1>2. BlockSize(in, b) \in Nat /\ in.ref.start[b] \in Nat
  BY <1>1, BlockFacts
<1>3. p - in.ref.start[b] \in Nat /\ p - in.ref.start[b] < BlockSize(in, b) /\ p \in Nat
  BY <1>2 DEF Extent
<1>4. s[j] + BlockSize(in, b) = IF j + 1 < n THEN s[j + 1] ELSE in.bytes[t]
  BY CopiedFacts
<1>5. s[j] \in Nat
  BY <1>1
<1>6. \A k, m \in 0 .. n - 1 : k <= m => s[k] <= s[m]
  BY BytesSorted DEF BlocksOf
<1>7. s[j] + BlockSize(in, b) <= in.bytes[t]
  <2>1. CASE j + 1 < n
    <3> DEFINE last == n - 1
    <3>1. last \in 0 .. n - 1 /\ j + 1 \in 0 .. n - 1 /\ last \in BlocksOf(in, t) /\ ~ (last + 1 < n)
      BY <1>1, <2>1 DEF BlocksOf
    <3>2. s[j + 1] <= s[last]
      <4>1. j + 1 <= last
        BY <3>1, <2>1, <1>1
      <4> HIDE DEF last, s, n
      <4> QED BY <3>1, <4>1, <1>6
    <3>3. s[last] + BlockSize(in, in.blockIndex[t][last]) = in.bytes[t] /\ in.blockIndex[t][last] \in Blocks(in)
      BY <3>1, CopiedFacts
    <3>4. BlockSize(in, in.blockIndex[t][last]) \in Nat /\ s[last] \in Nat /\ s[j + 1] \in Nat
      BY <3>1, <3>3, <1>1, BlockFacts
    <3> HIDE DEF last, s, n, b
    <3> QED BY <1>4, <2>1, <3>2, <3>3, <3>4
  <2> QED BY <2>1, <1>4, <1>5, <1>2
<1>8. i \in 0 .. in.bytes[t] - 1
  <2> DEFINE k == p - in.ref.start[b]
             size == BlockSize(in, b)
             from == s[j]
  <2>1. k \in Nat /\ k < size /\ size \in Nat /\ from \in Nat /\ in.bytes[t] \in Nat /\ from + size <= in.bytes[t]
    BY <1>1, <1>2, <1>3, <1>5, <1>7
  <2>2. i = from + k
    OBVIOUS
  <2> HIDE DEF k, size, from, i
  <2> QED BY <2>1, <2>2
<1>9. r \in 0 .. n - 1 /\ s[r] <= i /\ (r + 1 < n => i < s[r + 1])
  <2> HIDE DEF i
  <2> QED BY <1>8, FillFinds DEF BlocksOf
<1>10. r = j
  <2> HIDE DEF r, s, n, b
  <2>1. s[j] <= i /\ i < s[j] + BlockSize(in, b) /\ i \in Nat
    BY <1>3, <1>5, <1>2
  <2>2. ASSUME r < j PROVE FALSE
    <3>1. r + 1 \in 0 .. n - 1 /\ r + 1 <= j /\ r + 1 < n
      BY <2>2, <1>1, <1>9
    <3>2. s[r + 1] <= s[j] /\ i < s[r + 1] /\ s[r + 1] \in Nat
      BY <3>1, <1>1, <1>6, <1>9
    <3> HIDE DEF i
    <3> QED BY <3>2, <2>1, <1>5
  <2>3. ASSUME r > j PROVE FALSE
    <3>1. j + 1 \in 0 .. n - 1 /\ j + 1 <= r /\ j + 1 < n
      BY <2>3, <1>1, <1>9
    <3>2. s[j + 1] <= s[r] /\ s[j + 1] = s[j] + BlockSize(in, b) /\ s[r] \in Nat
      BY <3>1, <1>1, <1>4, <1>6, <1>9
    <3> HIDE DEF i
    <3> QED BY <3>2, <2>1, <1>2, <1>5, <1>9
  <2> QED BY <2>2, <2>3, <1>1, <1>9
<1>11. i - s[j] = p - in.ref.start[b] /\ p = in.ref.start[b] + (i - s[j])
  <2> HIDE DEF b, s
  <2> QED BY <1>1, <1>2, <1>3, <1>5
<1> HIDE DEF i
<1> QED BY <1>3, <1>8, <1>10, <1>11
------------------------------------------------------------------------------
(* The inductive invariant. *)

\* A byte of the output that is what the decoder has there.
Stored(in, o, p) == p \in DOMAIN in.ref.content /\ o[p] = in.ref.content[p]

CmpOf(in, c)   == in.blockIndex["cmp"][c]
StartOf(in, c) == in.ref.start[CmpOf(in, c)]
EndOf(in, c)   == StartOf(in, c) + BlockSize(in, CmpOf(in, c))

Maps   == UNION {[S -> Nat] : S \in SUBSET Nat}
Copies == [beg : Nat, end : Nat, lit : Maps, back : Maps, latch : Nat]

\* Where a match of block c may take its bytes from.
Source(in, c, q) == Reaches(in, CmpOf(in, c), q)

\* The byte before beg that byte p repeats, when d of them are.
Wrapped(beg, d, p) == beg - d + ((p - beg) % d)

\* A copy of block c: byte p of it, from a literal, from further back than the
\* pass, or from the bytes before the copy.
GoodByte(in, c, x, p) ==
  /\ p \in DOMAIN x.lit => in.ref.content[p] = Literal(in, c, x.lit[p])
  /\ p \notin DOMAIN x.lit /\ x.latch = 0 =>
       /\ x.back[p] \in Nat \ {0}
       /\ p - x.back[p] < x.beg \/ x.back[p] >= LaneCount
       /\ Source(in, c, p - x.back[p])
       /\ in.ref.content[p] = in.ref.content[p - x.back[p]]
  /\ p \notin DOMAIN x.lit /\ x.latch > 0 =>
       in.ref.content[p] = in.ref.content[Wrapped(x.beg, x.latch, p)]

GoodCopy(in, c, x) ==
  /\ StartOf(in, c) <= x.beg /\ x.beg <= x.end /\ x.end <= EndOf(in, c)
  /\ \A p \in x.beg .. x.end - 1 : GoodByte(in, c, x, p)
  /\ x.latch > 0 => \A j \in 0 .. x.latch - 1 : Source(in, c, x.beg - x.latch + j)

\* Copies of block c that fill [from, to), one after the other.
GoodPlan(in, c, plan, from, to) ==
  /\ plan \in Seq(Copies) /\ Len(plan) > 0
  /\ plan[1].beg = from /\ plan[Len(plan)].end = to
  /\ \A i \in 1 .. Len(plan) : GoodCopy(in, c, plan[i])
  /\ \A i \in 1 .. Len(plan) - 1 : plan[i].end = plan[i + 1].beg

\* A copy that has begun.
PassOK(in, x, ps) ==
  /\ ps.done \in 0 .. x.end - x.beg
  /\ \A p \in ps.lanes : /\ p \in x.beg .. x.beg + ps.done - 1
                         /\ x.beg + ps.done <= p + LaneCount
  /\ ps.latch # <<>> =>
       \A j \in 0 .. x.latch - 1 : ps.latch[j] = in.ref.content[x.beg - x.latch + j]
  /\ ps.lanes # {} /\ x.latch > 0 => ps.latch # <<>>

\* Where the wave stands in its block.
PositionOK(in, r) ==
  /\ r.phase = "sequences" =>
       /\ r.seq \in SeqBeg(in, r.cmp) .. SeqEnd(in, r.cmp)
       /\ r.dst = in.ref.at[r.cmp][r.seq] /\ r.lit = in.ref.lit[r.cmp][r.seq]
  /\ r.phase = "rest" =>
       r.seq = SeqEnd(in, r.cmp) /\ r.dst = EndOf(in, r.cmp) /\ r.lit = in.litSize[r.cmp]

\* All before it is stored, but for the bytes of the lanes.
Mark(r, plan, ps) == IF plan = <<>> THEN r.dst ELSE plan[1].beg + ps.done

WaveInv(in, k, o, w, r, plan, ps) ==
  /\ r.phase \in {"between", "sequences", "rest"}
  /\ r.cmp \in in.cmpFirst[w] .. CmpEnd(in, w)
  /\ \A d \in in.cmpFirst[w] .. r.cmp - 1 : \A p \in Extent(in, CmpOf(in, d)) : Stored(in, o, p)
  /\ r.phase = "between" => plan = <<>>
  /\ r.phase # "between" =>
       /\ k = "execute" /\ r.cmp < CmpEnd(in, w)
       /\ PositionOK(in, r)
       /\ \A p \in StartOf(in, r.cmp) .. Mark(r, plan, ps) - 1 : p \notin ps.lanes => Stored(in, o, p)
  /\ plan = <<>> => ps = Fresh
  /\ plan # <<>> => GoodPlan(in, r.cmp, plan, plan[1].beg, r.dst) /\ PassOK(in, plan[1], ps)

CopiedStored(in, o) ==
  \A t \in Copied : \A j \in BlocksOf(in, t) :
    \A p \in Extent(in, in.blockIndex[t][j]) : Stored(in, o, p)

\* A thread of a raw, or RLE, byte that has ended.
FillDone(in, o, t, i) ==
  LET j == FoundBy(in, t, i)
      k == i - in.bytesPrefix[t][j]
      b == in.blockIndex[t][j]
  IN k < BlockSize(in, b) => Stored(in, o, in.ref.start[b] + k)

KernelInv ==
  /\ kernel \in {"dest", "fill", "execute"}
  /\ ran \subseteq Threads(kernel)
  /\ destOffs \in [Blocks(input) -> Nat \cup {NoOffset}]
  /\ \A b \in Blocks(input) : (kernel = "dest" /\ b \notin ran) \/ destOffs[b] = input.ref.start[b]
  /\ kernel = "fill" =>
       \A t \in Copied : \A i \in 0 .. input.bytes[t] - 1 :
         <<t, i>> \in ran => FillDone(input, out, t, i)
  /\ kernel = "execute" => CopiedStored(input, out)

OutInv ==
  /\ out = [p \in 0 .. input.outSize - 1 |-> out[p]]
  /\ \A p \in DOMAIN out : out[p] # Unwritten => Stored(input, out, p)

\* The records have the fields that they begin with.
ShapeInv ==
  /\ DOMAIN reg = Waves /\ \A w \in Waves : DOMAIN reg[w] = {"phase", "cmp", "seq", "dst", "lit"}
  /\ DOMAIN pass = Waves /\ \A w \in Waves : DOMAIN pass[w] = {"done", "lanes", "latch"}
  /\ todo \in [Waves -> Seq(Copies)]

IInv ==
  /\ input \in Inputs
  /\ KernelInv
  /\ OutInv
  /\ ShapeInv
  /\ \A w \in Waves : WaveInv(input, kernel, out, w, reg[w], todo[w], pass[w])
------------------------------------------------------------------------------
(* Compressed blocks: their sequences, and where these may reach. *)

LEMMA CmpFacts ==
  ASSUME NEW in \in Inputs, NEW c \in BlocksOf(in, "cmp")
  PROVE  /\ CmpOf(in, c) \in Blocks(in)
         /\ StartOf(in, c) \in Nat /\ EndOf(in, c) \in Nat /\ StartOf(in, c) <= EndOf(in, c)
         /\ BlockSize(in, CmpOf(in, c)) \in Nat
         /\ in.litSize[c] \in Nat
         /\ SeqBeg(in, c) \in Nat /\ SeqEnd(in, c) \in Nat
         /\ SeqBeg(in, c) <= SeqEnd(in, c) /\ SeqEnd(in, c) <= in.sequences
<1>1. LayoutOK(in) /\ SequencesOK(in)
  BY InputOK
<1>2. CmpOf(in, c) \in Blocks(in)
  BY <1>1 DEF LayoutOK, Kinds, CmpOf
<1>3. BlockSize(in, CmpOf(in, c)) \in Nat /\ StartOf(in, c) \in Nat
  BY <1>2, BlockFacts DEF StartOf
<1>4. /\ in.litSize[c] \in Nat /\ in.sequences \in Nat /\ in.streams \in Nat
      /\ in.seqStart \in [0 .. in.streams - 1 -> 0 .. in.sequences]
      /\ in.stream[c] \in {NoStream} \cup (0 .. in.streams - 1)
      /\ SeqBeg(in, c) <= SeqEnd(in, c)
  BY <1>1 DEF SequencesOK
<1>5. SeqBeg(in, c) \in Nat
  <2>1. CASE in.stream[c] = NoStream
    BY <2>1 DEF SeqBeg
  <2>2. CASE in.stream[c] # NoStream
    <3>1. in.seqStart[in.stream[c]] \in 0 .. in.sequences
      BY <1>4, <2>2
    <3> QED BY <3>1, <2>2, <1>4 DEF SeqBeg
  <2> QED BY <2>1, <2>2
<1>6. SeqEnd(in, c) \in Nat /\ SeqEnd(in, c) <= in.sequences
  <2>1. CASE in.stream[c] = NoStream
    BY <2>1, <1>4 DEF SeqEnd
  <2>2. CASE in.stream[c] # NoStream /\ in.stream[c] + 1 = in.streams
    BY <2>2, <1>4 DEF SeqEnd
  <2>3. CASE in.stream[c] # NoStream /\ in.stream[c] + 1 # in.streams
    <3>1. in.stream[c] + 1 \in 0 .. in.streams - 1
      BY <2>3, <1>4
    <3>2. in.seqStart[in.stream[c] + 1] \in 0 .. in.sequences
      BY <1>4, <3>1
    <3> QED BY <3>2, <2>3, <1>4 DEF SeqEnd
  <2> QED BY <2>1, <2>2, <2>3
<1> QED BY <1>2, <1>3, <1>4, <1>5, <1>6 DEF EndOf

\* What the decoder says of a block.
LEMMA DecoderFacts ==
  ASSUME NEW in \in Inputs, NEW c \in BlocksOf(in, "cmp")
  PROVE  LET at  == in.ref.at[c]
             lit == in.ref.lit[c]
             z   == SeqEnd(in, c)
         IN /\ at \in [SeqBeg(in, c) .. z -> Nat] /\ lit \in [SeqBeg(in, c) .. z -> Nat]
            /\ at[SeqBeg(in, c)] = StartOf(in, c) /\ lit[SeqBeg(in, c)] = 0
            /\ lit[z] <= in.litSize[c]
            /\ EndOf(in, c) = at[z] + in.litSize[c] - lit[z]
            /\ \A k \in 0 .. in.litSize[c] - lit[z] - 1 :
                 in.ref.content[at[z] + k] = Literal(in, c, lit[z] + k)
BY InputOK DEF ContentOK, StartOf, EndOf, CmpOf

LEMMA SequenceFacts ==
  ASSUME NEW in \in Inputs, NEW c \in BlocksOf(in, "cmp"),
         NEW i \in SeqBeg(in, c) .. SeqEnd(in, c) - 1
  PROVE  LET at  == in.ref.at[c]
             lit == in.ref.lit[c]
             s   == in.seqs[i]
         IN /\ s.llen \in Nat /\ s.mlen \in Nat /\ s.offs \in Nat /\ s.offs > 0
            /\ at[i] \in Nat /\ lit[i] \in Nat
            /\ at[i + 1] = at[i] + s.llen + s.mlen /\ lit[i + 1] = lit[i] + s.llen
            /\ at[i + 1] <= EndOf(in, c)
            /\ \A k \in 0 .. s.llen - 1 : in.ref.content[at[i] + k] = Literal(in, c, lit[i] + k)
            /\ \A p \in at[i] + s.llen .. at[i + 1] - 1 :
                 Source(in, c, p - s.offs) /\ in.ref.content[p] = in.ref.content[p - s.offs]
<1>1. SequencesOK(in) /\ ContentOK(in)
  BY InputOK
<1>2. i \in 0 .. in.sequences - 1
  BY CmpFacts, <1>1 DEF SequencesOK
<1>3. in.seqs[i] \in [llen : Nat, mlen : Nat, offs : Nat \ {0}]
  BY <1>1, <1>2 DEF SequencesOK
<1>4. i \in SeqBeg(in, c) .. SeqEnd(in, c)
  BY CmpFacts
<1>5. in.ref.at[c][i] \in Nat /\ in.ref.lit[c][i] \in Nat
  BY <1>4, DecoderFacts
<1>6. LET at  == in.ref.at[c]
          lit == in.ref.lit[c]
          s   == in.seqs[i]
      IN /\ at[i + 1] = at[i] + s.llen + s.mlen /\ lit[i + 1] = lit[i] + s.llen
         /\ at[i + 1] <= EndOf(in, c)
         /\ \A k \in 0 .. s.llen - 1 : in.ref.content[at[i] + k] = Literal(in, c, lit[i] + k)
         /\ \A p \in at[i] + s.llen .. at[i + 1] - 1 :
              Source(in, c, p - s.offs) /\ in.ref.content[p] = in.ref.content[p - s.offs]
  BY <1>1 DEF ContentOK, EndOf, StartOf, CmpOf, Source
<1>7. in.seqs[i].llen \in Nat /\ in.seqs[i].mlen \in Nat /\ in.seqs[i].offs \in Nat /\ in.seqs[i].offs > 0
  BY <1>3
<1> QED BY <1>5, <1>6, <1>7, Zenon

\* A sequence begins in its block and takes its literals from those there are.
LEMMA PositionInside ==
  ASSUME NEW in \in Inputs, NEW c \in BlocksOf(in, "cmp"), NEW i \in SeqBeg(in, c) .. SeqEnd(in, c)
  PROVE  /\ in.ref.at[c][i] \in Nat /\ in.ref.lit[c][i] \in Nat
         /\ StartOf(in, c) <= in.ref.at[c][i] /\ in.ref.at[c][i] <= EndOf(in, c)
         /\ in.ref.lit[c][i] <= in.litSize[c]
<1> DEFINE a == SeqBeg(in, c)
           z == SeqEnd(in, c)
           at == in.ref.at[c]
           lit == in.ref.lit[c]
<1>1. /\ a \in Nat /\ z \in Nat /\ a <= z /\ in.litSize[c] \in Nat
      /\ at \in [a .. z -> Nat] /\ lit \in [a .. z -> Nat]
      /\ at[a] = StartOf(in, c) /\ lit[z] <= in.litSize[c]
      /\ EndOf(in, c) = at[z] + in.litSize[c] - lit[z]
  BY CmpFacts, DecoderFacts
<1>2. ASSUME NEW j \in a .. z, j + 1 <= z PROVE at[j] <= at[j + 1] /\ lit[j] <= lit[j + 1]
  <2> DEFINE s == in.seqs[j]
  <2>1. j \in a .. z - 1
    BY <1>1, <1>2
  <2>2. /\ s.llen \in Nat /\ s.mlen \in Nat /\ at[j] \in Nat /\ lit[j] \in Nat
        /\ at[j + 1] = at[j] + s.llen + s.mlen /\ lit[j + 1] = lit[j] + s.llen
    BY <2>1, SequenceFacts
  <2> HIDE DEF at, lit, s
  <2> QED BY <2>2
<1> HIDE DEF a, z, at, lit
<1>3. \A j, k \in a .. z : j <= k => at[j] <= at[k]
  <2>1. z \in Int /\ \A j \in a .. z : j + 1 <= z => at[j] <= at[j + 1]
    BY <1>1, <1>2
  <2> QED BY <1>1, <2>1, Sorted
<1>4. \A j, k \in a .. z : j <= k => lit[j] <= lit[k]
  <2>1. z \in Int /\ \A j \in a .. z : j + 1 <= z => lit[j] <= lit[j + 1]
    BY <1>1, <1>2
  <2> QED BY <1>1, <2>1, Sorted
<1>5. i \in a .. z /\ a \in a .. z /\ z \in a .. z /\ a <= i /\ i <= z
  BY <1>1 DEF a, z
<1>6. at[a] <= at[i] /\ at[i] <= at[z] /\ lit[i] <= lit[z] /\ at[i] \in Nat /\ at[z] \in Nat /\ lit[i] \in Nat /\ lit[z] \in Nat
  BY <1>1, <1>3, <1>4, <1>5
<1>7. at[i] <= EndOf(in, c) /\ lit[i] <= in.litSize[c]
  BY <1>1, <1>6
<1> QED BY <1>1, <1>6, <1>7 DEF at, lit
------------------------------------------------------------------------------
(* Remainders. *)

LEMMA Multiple == ASSUME NEW d \in Nat, NEW k \in Int, k >= 1 PROVE d * k >= d
OBVIOUS

LEMMA Divide ==
  ASSUME NEW n \in Nat, NEW d \in Nat, d > 0
  PROVE  n = d * (n \div d) + (n % d) /\ n \div d \in Int /\ n % d \in 0 .. d - 1
OBVIOUS

LEMMA RemainderUnique ==
  ASSUME NEW d \in Nat, d > 0, NEW q \in Int, NEW k \in Int,
         NEW r \in 0 .. d - 1, NEW s \in 0 .. d - 1, d * q + r = d * k + s
  PROVE  r = s
<1>1. d * (q - k) = s - r
  OBVIOUS
<1>2. ASSUME q - k >= 1 PROVE FALSE
  <2>1. d * (q - k) >= d
    BY <1>2, Multiple
  <2> QED BY <2>1, <1>1
<1>3. ASSUME k - q >= 1 PROVE FALSE
  <2>1. d * (k - q) >= d
    BY <1>3, Multiple
  <2>2. d * (k - q) = r - s
    OBVIOUS
  <2> QED BY <2>1, <2>2
<1>4. q = k
  BY <1>2, <1>3
<1> QED BY <1>4

LEMMA RemainderRepeats ==
  ASSUME NEW n \in Nat, NEW d \in Nat, d > 0, n >= d
  PROVE  (n - d) % d = n % d
<1> DEFINE m == n - d
           q == n \div d
           r == n % d
           k == m \div d
           s == m % d
<1>1. m \in Nat /\ n = m + d
  OBVIOUS
<1>2. n = d * q + r /\ q \in Int /\ r \in 0 .. d - 1
  BY Divide
<1>3. m = d * k + s /\ k \in Int /\ s \in 0 .. d - 1
  <2> HIDE DEF m
  <2> QED BY Divide, <1>1
<1> HIDE DEF m, q, r, k, s
<1>4. d * (k + 1) = d * k + d /\ d * k \in Int /\ d * (k + 1) \in Int /\ k + 1 \in Int
  BY <1>3
<1>5. d * q + r = d * (k + 1) + s
  BY <1>1, <1>2, <1>3, <1>4
<1>6. r = s
  BY <1>2, <1>3, <1>4, <1>5, RemainderUnique
<1> QED BY <1>6 DEF r, s, m

\* Bytes that repeat those d before them repeat the first d.
Repeating(f, beg, end, d) == \A p \in beg .. end - 1 : f[p] = f[p - d]
Wrapping(f, beg, end, d)  == \A p \in beg .. end - 1 : f[p] = f[Wrapped(beg, d, p)]

LEMMA Repeats ==
  ASSUME NEW d \in Nat, d > 0, NEW beg \in Nat, NEW end \in Nat, NEW f, Repeating(f, beg, end, d)
  PROVE  Wrapping(f, beg, end, d)
<1> USE DEF Repeating, Wrapping
<1> DEFINE P(p) == f[p] = f[Wrapped(beg, d, p)]
           Bad == {p \in beg .. end - 1 : ~ P(p)}
<1>1. SUFFICES ASSUME Bad # {} PROVE FALSE
  OBVIOUS
<1>2. PICK p \in Bad : \A m \in Bad : p <= m
  <2>1. Bad \in SUBSET Nat
    OBVIOUS
  <2> QED BY <1>1, <2>1, Least
<1>3. p \in beg .. end - 1 /\ ~ P(p) /\ f[p] = f[p - d]
  OBVIOUS
<1>4. CASE p - beg < d
  <2>1. (p - beg) % d = p - beg
    BY <1>3, <1>4
  <2>2. Wrapped(beg, d, p) = p - d
    BY <1>3, <2>1 DEF Wrapped
  <2> QED BY <1>3, <2>2
<1>5. CASE p - beg >= d
  <2>1. p - d \in beg .. end - 1 /\ p - d < p /\ (p - d) - beg = (p - beg) - d /\ p - beg \in Nat
    BY <1>3, <1>5
  <2>2. P(p - d)
    BY <2>1, <1>2, <1>3
  <2>3. ((p - beg) - d) % d = (p - beg) % d
    BY <2>1, <1>5, RemainderRepeats
  <2>4. Wrapped(beg, d, p - d) = Wrapped(beg, d, p)
    BY <2>1, <2>3, Zenon DEF Wrapped
  <2> QED BY <1>3, <2>2, <2>4
<1>6. p - beg \in Int
  BY <1>3
<1> QED BY <1>4, <1>5, <1>6
------------------------------------------------------------------------------
(* The copies that the waves make are good ones. *)

LEMMA MapFrom ==
  ASSUME NEW S \in SUBSET Nat, NEW f \in [S -> Nat] PROVE f \in Maps
BY DEF Maps

LEMMA EmptyMap == <<>> \in Maps /\ DOMAIN <<>> = {}
<1>1. <<>> \in [{} -> Nat] /\ DOMAIN <<>> = {}
  OBVIOUS
<1> QED BY <1>1, MapFrom

\* The n bytes from dst are the literals from lit.
LiteralsAt(in, c, dst, lit, n) ==
  \A k \in 0 .. n - 1 : in.ref.content[dst + k] = Literal(in, c, lit + k)

LEMMA GoodLiterals ==
  ASSUME NEW in \in Inputs, NEW c \in BlocksOf(in, "cmp"),
         NEW dst \in Nat, NEW lit \in Nat, NEW n \in Nat,
         StartOf(in, c) <= dst, dst + n <= EndOf(in, c),
         LiteralsAt(in, c, dst, lit, n)
  PROVE  LET x == CopyLiterals(dst, lit, n, EndOf(in, c))
         IN x \in Copies /\ x.beg = dst /\ x.end = dst + n /\ GoodCopy(in, c, x)
<1> DEFINE x == CopyLiterals(dst, lit, n, EndOf(in, c))
           map == [p \in dst .. dst + n - 1 |-> lit + p - dst]
<1>1. EndOf(in, c) \in Nat
  BY CmpFacts
<1>2. Least2(dst + n, EndOf(in, c)) = dst + n
  BY <1>1 DEF Least2
<1>3. x = [beg |-> dst, end |-> dst + n, lit |-> map, back |-> <<>>, latch |-> 0]
  <2> DEFINE Copy(last) == [beg |-> dst, end |-> last, lit |-> [p \in dst .. last - 1 |-> lit + p - dst],
                            back |-> <<>>, latch |-> 0]
  <2>1. x = Copy(Least2(dst + n, EndOf(in, c)))
    BY DEF CopyLiterals
  <2>2. x = Copy(dst + n)
    <3> HIDE DEF Copy, x
    <3> QED BY <1>2, <2>1
  <2> QED BY <2>2
<1>4. map \in Maps
  <2>1. map \in [dst .. dst + n - 1 -> Nat]
    OBVIOUS
  <2>2. dst .. dst + n - 1 \in SUBSET Nat
    OBVIOUS
  <2> QED BY <2>1, <2>2, MapFrom
<1>5. x \in Copies
  BY <1>3, <1>4, EmptyMap DEF Copies
<1>6. ASSUME NEW p \in dst .. dst + n - 1 PROVE p \in DOMAIN map /\ in.ref.content[p] = Literal(in, c, map[p])
  <2> DEFINE k == p - dst
  <2>1. k \in 0 .. n - 1 /\ dst + k = p /\ map[p] = lit + k
    OBVIOUS
  <2> HIDE DEF k, map
  <2>2. in.ref.content[dst + k] = Literal(in, c, lit + k)
    BY <2>1 DEF LiteralsAt
  <2> QED BY <2>1, <2>2 DEF map
<1>7. ASSUME NEW p \in dst .. dst + n - 1 PROVE GoodByte(in, c, x, p)
  <2> HIDE DEF map, x
  <2> QED BY <1>3, <1>6 DEF GoodByte
<1>8. GoodCopy(in, c, x)
  <2> HIDE DEF map, x
  <2> QED BY <1>3, <1>7 DEF GoodCopy
<1> HIDE DEF map
<1> QED BY <1>3, <1>5, <1>8

LEMMA GoodMatch ==
  ASSUME NEW in \in Inputs, NEW c \in BlocksOf(in, "cmp"), NEW dst \in Nat, NEW s,
         s.mlen \in Nat, s.offs \in Nat, s.offs > 0,
         StartOf(in, c) <= dst, dst + s.mlen <= EndOf(in, c),
         \A p \in dst .. dst + s.mlen - 1 :
           Source(in, c, p - s.offs) /\ in.ref.content[p] = in.ref.content[p - s.offs]
  PROVE  LET x == MatchCopy(dst, s, EndOf(in, c))
         IN x \in Copies /\ x.beg = dst /\ x.end = dst + s.mlen /\ GoodCopy(in, c, x)
<1> DEFINE x == MatchCopy(dst, s, EndOf(in, c))
           map == [p \in dst .. dst + s.mlen - 1 |-> s.offs]
<1>1. EndOf(in, c) \in Nat /\ LaneCount \in Nat /\ LaneCount > 0
  BY CmpFacts, LaneAssumption
<1>2. Least2(dst + s.mlen, EndOf(in, c)) = dst + s.mlen
  BY <1>1 DEF Least2
<1>3. CASE FarEnough(s)
  <2>1. x = [beg |-> dst, end |-> dst + s.mlen, lit |-> <<>>, back |-> map, latch |-> 0]
    <3> DEFINE Copy(last) == [beg |-> dst, end |-> last, lit |-> <<>>,
                              back |-> [p \in dst .. last - 1 |-> s.offs], latch |-> 0]
    <3>1. x = Copy(Least2(dst + s.mlen, EndOf(in, c)))
      BY <1>3 DEF MatchCopy
    <3>2. x = Copy(dst + s.mlen)
      <4> HIDE DEF Copy, x
      <4> QED BY <1>2, <3>1
    <3>3. Copy(dst + s.mlen) = [beg |-> dst, end |-> dst + s.mlen, lit |-> <<>>, back |-> map, latch |-> 0]
      <4>1. dst .. (dst + s.mlen) - 1 = dst .. dst + s.mlen - 1
        OBVIOUS
      <4>2. [p \in dst .. (dst + s.mlen) - 1 |-> s.offs] = map
        BY <4>1
      <4> HIDE DEF map
      <4> QED BY <4>2
    <3> HIDE DEF x, Copy, map
    <3> QED BY <3>2, <3>3
  <2>2. map \in Maps
    <3>1. map \in [dst .. dst + s.mlen - 1 -> Nat] /\ dst .. dst + s.mlen - 1 \in SUBSET Nat
      OBVIOUS
    <3> QED BY <3>1, MapFrom
  <2>3. x \in Copies
    BY <2>1, <2>2, EmptyMap DEF Copies
  <2>4. ASSUME NEW p \in dst .. dst + s.mlen - 1 PROVE p - s.offs < dst \/ s.offs >= LaneCount
    BY <1>1, <1>3 DEF FarEnough, Least2
  <2>5. \A p \in dst .. dst + s.mlen - 1 : map[p] = s.offs
    OBVIOUS
  <2> HIDE DEF map, x
  <2>6. ASSUME NEW p \in dst .. dst + s.mlen - 1 PROVE GoodByte(in, c, x, p)
    <3>1. map[p] = s.offs /\ s.offs \in Nat \ {0} /\ p \notin {}
      BY <2>5
    <3> QED BY <2>1, <2>4, <3>1, EmptyMap DEF GoodByte
  <2>7. GoodCopy(in, c, x)
    BY <2>1, <2>6 DEF GoodCopy
  <2> QED BY <2>1, <2>3, <2>7 DEF x
<1>4. CASE ~ FarEnough(s)
  <2>1. x = [beg |-> dst, end |-> dst + s.mlen, lit |-> <<>>, back |-> <<>>, latch |-> s.offs]
    BY <1>2, <1>4 DEF MatchCopy
  <2>2. x \in Copies
    BY <2>1, EmptyMap DEF Copies
  <2>3. s.offs < s.mlen
    BY <1>1, <1>4 DEF FarEnough, Least2
  <2>4. \A p \in dst .. dst + s.mlen - 1 :
          in.ref.content[p] = in.ref.content[Wrapped(dst, s.offs, p)]
    <3>1. s.offs \in Nat /\ s.offs > 0 /\ dst + s.mlen \in Nat
      OBVIOUS
    <3>2. Repeating(in.ref.content, dst, dst + s.mlen, s.offs)
      BY DEF Repeating
    <3>3. Wrapping(in.ref.content, dst, dst + s.mlen, s.offs)
      BY ONLY dst \in Nat, <3>1, <3>2, Repeats
    <3> QED BY <3>3 DEF Wrapping
  <2>5. ASSUME NEW j \in 0 .. s.offs - 1 PROVE Source(in, c, dst - s.offs + j)
    <3>1. dst + j \in dst .. dst + s.mlen - 1 /\ (dst + j) - s.offs = dst - s.offs + j
      BY <2>3
    <3> QED BY <3>1
  <2> HIDE DEF x
  <2>6. ASSUME NEW p \in dst .. dst + s.mlen - 1 PROVE GoodByte(in, c, x, p)
    <3>1. x.beg = dst /\ x.latch = s.offs /\ x.lit = <<>> /\ p \notin DOMAIN x.lit
      BY <2>1, EmptyMap
    <3>2. in.ref.content[p] = in.ref.content[Wrapped(x.beg, x.latch, p)]
      BY <3>1, <2>4, Zenon
    <3>3. ~ (p \in DOMAIN x.lit) /\ x.latch # 0 /\ x.latch > 0
      BY <3>1
    <3> QED BY <3>2, <3>3, Zenon DEF GoodByte
  <2>7. GoodCopy(in, c, x)
    BY <2>1, <2>5, <2>6 DEF GoodCopy
  <2> QED BY <2>1, <2>2, <2>7 DEF x
<1> QED BY <1>3, <1>4
\* Sequence s, whose literals begin at lit and whose output begins at dst.
SequenceAt(in, c, dst, lit, s) ==
  /\ dst \in Nat /\ lit \in Nat
  /\ s.llen \in Nat /\ s.mlen \in Nat /\ s.offs \in Nat /\ s.offs > 0
  /\ StartOf(in, c) <= dst /\ dst + Total(s) <= EndOf(in, c)
  /\ LiteralsAt(in, c, dst, lit, s.llen)
  /\ \A p \in dst + s.llen .. (dst + Total(s)) - 1 :
       Source(in, c, p - s.offs) /\ in.ref.content[p] = in.ref.content[p - s.offs]

LEMMA SequencesPlaced ==
  ASSUME NEW in \in Inputs, NEW c \in BlocksOf(in, "cmp"),
         NEW i \in SeqBeg(in, c) .. SeqEnd(in, c) - 1
  PROVE  LET at  == in.ref.at[c]
             lit == in.ref.lit[c]
             s   == in.seqs[i]
         IN /\ SequenceAt(in, c, at[i], lit[i], s)
            /\ at[i + 1] = at[i] + Total(s) /\ lit[i + 1] = lit[i] + s.llen
            /\ i + 1 \in SeqBeg(in, c) .. SeqEnd(in, c)
<1> DEFINE at == in.ref.at[c]
           lit == in.ref.lit[c]
           s == in.seqs[i]
<1>1. SeqBeg(in, c) \in Nat /\ SeqEnd(in, c) \in Nat /\ i \in SeqBeg(in, c) .. SeqEnd(in, c)
  BY CmpFacts
<1>2. StartOf(in, c) <= at[i]
  BY <1>1, PositionInside
<1>3. /\ s.llen \in Nat /\ s.mlen \in Nat /\ s.offs \in Nat /\ s.offs > 0
      /\ at[i] \in Nat /\ lit[i] \in Nat
      /\ at[i + 1] = at[i] + s.llen + s.mlen /\ lit[i + 1] = lit[i] + s.llen
      /\ at[i + 1] <= EndOf(in, c)
  BY SequenceFacts
<1>4. \A k \in 0 .. s.llen - 1 : in.ref.content[at[i] + k] = Literal(in, c, lit[i] + k)
  BY SequenceFacts
<1>5. \A p \in at[i] + s.llen .. at[i + 1] - 1 :
        Source(in, c, p - s.offs) /\ in.ref.content[p] = in.ref.content[p - s.offs]
  BY SequenceFacts
<1> HIDE DEF at, lit, s
<1>6. at[i + 1] = at[i] + Total(s)
  BY <1>3 DEF Total
<1>7. SequenceAt(in, c, at[i], lit[i], s)
  <2>1. at[i] + Total(s) <= EndOf(in, c)
    BY <1>3, <1>6
  <2>2. \A p \in at[i] + s.llen .. (at[i] + Total(s)) - 1 :
          Source(in, c, p - s.offs) /\ in.ref.content[p] = in.ref.content[p - s.offs]
    BY <1>5, <1>6
  <2> QED BY <1>2, <1>3, <1>4, <2>1, <2>2, Zenon DEF SequenceAt, LiteralsAt
<1> QED BY <1>1, <1>3, <1>6, <1>7 DEF at, lit, s

LEMMA GoodFused ==
  ASSUME NEW in \in Inputs, NEW c \in BlocksOf(in, "cmp"), NEW dst, NEW lit, NEW s,
         SequenceAt(in, c, dst, lit, s), s.offs >= Total(s)
  PROVE  LET x == Fused(dst, lit, s)
         IN x \in Copies /\ x.beg = dst /\ x.end = dst + Total(s) /\ GoodCopy(in, c, x)
<1> DEFINE x == Fused(dst, lit, s)
           mid == dst + s.llen
           end == dst + Total(s)
           lits == [p \in dst .. dst + s.llen - 1 |-> lit + p - dst]
           back == [p \in dst + s.llen .. dst + Total(s) - 1 |-> s.offs]
<1>1. /\ dst \in Nat /\ lit \in Nat /\ s.llen \in Nat /\ s.mlen \in Nat /\ s.offs \in Nat /\ s.offs > 0
      /\ StartOf(in, c) <= dst /\ end <= EndOf(in, c)
      /\ \A k \in 0 .. s.llen - 1 : in.ref.content[dst + k] = Literal(in, c, lit + k)
      /\ \A p \in mid .. end - 1 :
           Source(in, c, p - s.offs) /\ in.ref.content[p] = in.ref.content[p - s.offs]
  BY Zenon DEF SequenceAt, LiteralsAt
<1>2. mid \in Nat /\ end \in Nat /\ mid <= end /\ dst <= mid /\ s.offs >= end - dst
  BY <1>1 DEF Total
<1>3. x = [beg |-> dst, end |-> end, lit |-> lits, back |-> back, latch |-> 0]
  BY Zenon DEF Fused
<1>4. lits \in Maps /\ back \in Maps
  <2>1. lits \in [dst .. mid - 1 -> Nat] /\ back \in [mid .. end - 1 -> Nat]
    <3>1. \A p \in dst .. dst + s.llen - 1 : lit + p - dst \in Nat
      BY <1>1
    <3>2. lits \in [dst .. dst + s.llen - 1 -> Nat]
      BY <3>1
    <3>3. back \in [dst + s.llen .. dst + Total(s) - 1 -> Nat]
      BY <1>1
    <3>4. /\ dst .. dst + s.llen - 1 = dst .. mid - 1
          /\ dst + s.llen .. dst + Total(s) - 1 = mid .. end - 1
      BY <1>1 DEF Total
    <3> QED BY <3>2, <3>3, <3>4, Zenon
  <2>2. dst .. mid - 1 \in SUBSET Nat /\ mid .. end - 1 \in SUBSET Nat
    BY <1>1, <1>2
  <2> QED BY <2>1, <2>2, MapFrom
<1>5. \A p \in mid .. end - 1 : back[p] = s.offs
  BY <1>1 DEF Total
<1>6. ASSUME NEW p \in dst .. mid - 1
      PROVE  p \in DOMAIN lits /\ in.ref.content[p] = Literal(in, c, lits[p])
  <2> DEFINE k == p - dst
  <2>1. k \in 0 .. s.llen - 1 /\ dst + k = p /\ lits[p] = lit + k /\ p \in DOMAIN lits
    BY <1>1
  <2> HIDE DEF k, lits
  <2>2. in.ref.content[dst + k] = Literal(in, c, lit + k)
    BY <2>1, <1>1
  <2> QED BY <2>1, <2>2
<1>7. DOMAIN lits = dst .. mid - 1
  BY <1>1
<1> HIDE DEF lits, back, mid, end, x
<1>8. x \in Copies
  BY <1>1, <1>2, <1>3, <1>4 DEF Copies
<1>9. ASSUME NEW p \in dst .. end - 1 PROVE GoodByte(in, c, x, p)
  <2>1. CASE p \in dst .. mid - 1
    BY <2>1, <1>3, <1>6 DEF GoodByte
  <2>2. CASE p \notin dst .. mid - 1
    <3>1. p \in mid .. end - 1 /\ p \notin DOMAIN x.lit /\ x.latch = 0 /\ x.back = back /\ x.beg = dst
      BY <2>2, <1>1, <1>2, <1>3, <1>7
    <3>2. x.back[p] = s.offs /\ p - s.offs < x.beg
      BY <3>1, <1>1, <1>2, <1>5
    <3>3. x.back[p] \in Nat \ {0} /\ p - x.back[p] < x.beg /\ Source(in, c, p - x.back[p])
          /\ in.ref.content[p] = in.ref.content[p - x.back[p]]
      BY <3>1, <3>2, <1>1
    <3> QED BY <3>1, <3>3 DEF GoodByte
  <2> QED BY <2>1, <2>2
<1>10. GoodCopy(in, c, x)
  BY <1>1, <1>2, <1>3, <1>9 DEF GoodCopy
<1> QED BY <1>3, <1>8, <1>10 DEF x, end

LEMMA GoodFusedPair ==
  ASSUME NEW in \in Inputs, NEW c \in BlocksOf(in, "cmp"), NEW dst, NEW lit, NEW s, NEW t,
         SequenceAt(in, c, dst, lit, s), SequenceAt(in, c, dst + Total(s), lit + s.llen, t),
         PairFits(dst, s, t, EndOf(in, c))
  PROVE  LET x == FusedPair(dst, lit, s, t)
         IN x \in Copies /\ x.beg = dst /\ x.end = dst + Total(s) + Total(t) /\ GoodCopy(in, c, x)
<1> DEFINE x == FusedPair(dst, lit, s, t)
           mid == dst + Total(s)
           end == mid + Total(t)
           L == (dst .. dst + s.llen - 1) \cup (mid .. mid + t.llen - 1)
           M == (dst + s.llen .. mid - 1) \cup (mid + t.llen .. end - 1)
           lits == [p \in L |-> IF p < mid THEN lit + p - dst ELSE lit + s.llen + p - mid]
           back == [p \in M |-> IF p < mid THEN s.offs ELSE t.offs]
<1>1. /\ dst \in Nat /\ lit \in Nat /\ s.llen \in Nat /\ s.mlen \in Nat /\ s.offs \in Nat /\ s.offs > 0
      /\ StartOf(in, c) <= dst
      /\ \A k \in 0 .. s.llen - 1 : in.ref.content[dst + k] = Literal(in, c, lit + k)
      /\ \A p \in dst + s.llen .. mid - 1 :
           Source(in, c, p - s.offs) /\ in.ref.content[p] = in.ref.content[p - s.offs]
  BY Zenon DEF SequenceAt, LiteralsAt
<1>2. /\ t.llen \in Nat /\ t.mlen \in Nat /\ t.offs \in Nat /\ t.offs > 0
      /\ end <= EndOf(in, c)
      /\ \A k \in 0 .. t.llen - 1 : in.ref.content[mid + k] = Literal(in, c, lit + s.llen + k)
      /\ \A p \in mid + t.llen .. end - 1 :
           Source(in, c, p - t.offs) /\ in.ref.content[p] = in.ref.content[p - t.offs]
  BY Zenon DEF SequenceAt, LiteralsAt
<1>3. /\ Total(s) = s.llen + s.mlen /\ Total(t) = t.llen + t.mlen
      /\ mid \in Nat /\ end \in Nat /\ mid = dst + s.llen + s.mlen /\ end = mid + t.llen + t.mlen
      /\ s.offs >= mid - dst /\ t.offs >= end - dst
  BY <1>1, <1>2 DEF Total, PairFits
<1>4. x = [beg |-> dst, end |-> end, lit |-> lits, back |-> back, latch |-> 0]
  BY DEF FusedPair
<1>5. lits \in Maps /\ back \in Maps
  <2>1. lits \in [L -> Nat]
    <3> HIDE DEF mid, end
    <3> QED BY <1>1, <1>2, <1>3
  <2>2. back \in [M -> Nat]
    <3> HIDE DEF mid, end
    <3> QED BY <1>1, <1>2, <1>3
  <2>3. L \in SUBSET Nat /\ M \in SUBSET Nat
    <3> HIDE DEF mid, end
    <3> QED BY <1>1, <1>2, <1>3
  <2> HIDE DEF lits, back, L, M
  <2> QED BY <2>1, <2>2, <2>3, MapFrom
<1>6. DOMAIN lits = L /\ \A p \in L : lits[p] = IF p < mid THEN lit + p - dst ELSE lit + s.llen + p - mid
  OBVIOUS
<1>7. \A p \in M : back[p] = IF p < mid THEN s.offs ELSE t.offs
  OBVIOUS
<1> HIDE DEF lits, back, mid, end, x
<1>8. x \in Copies
  BY <1>1, <1>3, <1>4, <1>5 DEF Copies
<1>9. ASSUME NEW p \in L PROVE p \in DOMAIN lits /\ in.ref.content[p] = Literal(in, c, lits[p])
  <2>1. CASE p < mid
    <3>1. p \in dst .. dst + s.llen - 1 /\ lits[p] = lit + p - dst
      BY <2>1, <1>1, <1>2, <1>3, <1>6
    <3> DEFINE k == p - dst
    <3>2. k \in 0 .. s.llen - 1 /\ dst + k = p /\ lits[p] = lit + k
      BY <3>1, <1>1
    <3> HIDE DEF k, L
    <3> QED BY <3>2, <1>1, <1>6
  <2>2. CASE ~ (p < mid)
    <3>1. p \in mid .. mid + t.llen - 1 /\ lits[p] = lit + s.llen + p - mid
      BY <2>2, <1>1, <1>2, <1>3, <1>6
    <3> DEFINE k == p - mid
    <3>2. k \in 0 .. t.llen - 1 /\ mid + k = p /\ lits[p] = lit + s.llen + k
      BY <3>1, <1>1, <1>2, <1>3
    <3> HIDE DEF k, L
    <3> QED BY <3>2, <1>2, <1>6
  <2> QED BY <2>1, <2>2
<1>10. ASSUME NEW p \in M
       PROVE  /\ back[p] \in Nat \ {0} /\ p - back[p] < dst /\ Source(in, c, p - back[p])
              /\ in.ref.content[p] = in.ref.content[p - back[p]]
  <2>1. CASE p < mid
    <3>1. p \in dst + s.llen .. mid - 1 /\ back[p] = s.offs
      BY <2>1, <1>1, <1>2, <1>3, <1>7
    <3> QED BY <3>1, <1>1, <1>3
  <2>2. CASE ~ (p < mid)
    <3>1. p \in mid + t.llen .. end - 1 /\ back[p] = t.offs
      BY <2>2, <1>1, <1>2, <1>3, <1>7
    <3> QED BY <3>1, <1>1, <1>2, <1>3
  <2> QED BY <2>1, <2>2
<1>11. ASSUME NEW p \in dst .. end - 1 PROVE GoodByte(in, c, x, p)
  <2>1. CASE p \in L
    <3>1. p \in DOMAIN x.lit /\ in.ref.content[p] = Literal(in, c, x.lit[p])
      BY <2>1, <1>4, <1>9
    <3> QED BY <3>1, Zenon DEF GoodByte
  <2>2. CASE p \notin L
    <3>1. p \in M
      BY <2>2, <1>1, <1>2, <1>3
    <3>2. p \notin DOMAIN x.lit /\ x.latch = 0 /\ x.back = back /\ x.beg = dst
      <4> HIDE DEF L
      <4> QED BY <2>2, <1>4, <1>6
    <3>3. x.back[p] \in Nat \ {0} /\ p - x.back[p] < x.beg /\ Source(in, c, p - x.back[p])
          /\ in.ref.content[p] = in.ref.content[p - x.back[p]]
      BY <3>1, <3>2, <1>10
    <3> QED BY <3>2, <3>3 DEF GoodByte
  <2> QED BY <2>1, <2>2
<1>12. GoodCopy(in, c, x)
  BY <1>1, <1>2, <1>3, <1>4, <1>11 DEF GoodCopy
<1> QED BY <1>4, <1>8, <1>12 DEF x, end, mid
\* Plans of one copy and of two, and one plan after another.
LEMMA PlanOne ==
  ASSUME NEW in, NEW c, NEW x \in Copies, GoodCopy(in, c, x)
  PROVE  GoodPlan(in, c, <<x>>, x.beg, x.end)
<1> DEFINE plan == <<x>>
<1>1. plan \in Seq(Copies) /\ Len(plan) = 1 /\ plan[1] = x
  OBVIOUS
<1> HIDE DEF plan
<1>2. \A i \in 1 .. Len(plan) : i = 1
  BY <1>1
<1> QED BY <1>1, <1>2 DEF GoodPlan, plan

LEMMA PlanJoin ==
  ASSUME NEW in, NEW c, NEW u, NEW v, NEW from, NEW mid, NEW to,
         GoodPlan(in, c, u, from, mid), GoodPlan(in, c, v, mid, to)
  PROVE  GoodPlan(in, c, u \o v, from, to)
<1> DEFINE plan == u \o v
           m == Len(u)
           n == Len(v)
<1>1. u \in Seq(Copies) /\ v \in Seq(Copies) /\ m \in Nat /\ n \in Nat /\ m > 0 /\ n > 0
  BY DEF GoodPlan
<1>2. /\ u[1].beg = from /\ u[m].end = mid /\ v[1].beg = mid /\ v[n].end = to
      /\ \A i \in 1 .. m : GoodCopy(in, c, u[i])
      /\ \A i \in 1 .. n : GoodCopy(in, c, v[i])
      /\ \A i \in 1 .. m - 1 : u[i].end = u[i + 1].beg
      /\ \A i \in 1 .. n - 1 : v[i].end = v[i + 1].beg
  BY DEF GoodPlan
<1>3. /\ plan \in Seq(Copies) /\ Len(plan) = m + n
      /\ \A i \in 1 .. m : plan[i] = u[i]
      /\ \A i \in m + 1 .. m + n : plan[i] = v[i - m]
  BY <1>1
<1> HIDE DEF plan, m, n
<1>4. plan[1] = u[1] /\ plan[m + n] = v[n]
  <2>1. 1 \in 1 .. m /\ m + n \in m + 1 .. m + n /\ (m + n) - m = n
    BY <1>1
  <2> QED BY <2>1, <1>3
<1>5. ASSUME NEW i \in 1 .. m + n PROVE GoodCopy(in, c, plan[i])
  <2>1. CASE i \in 1 .. m
    BY <2>1, <1>2, <1>3
  <2>2. CASE i \notin 1 .. m
    <3>1. i \in m + 1 .. m + n /\ i - m \in 1 .. n
      BY <2>2, <1>1
    <3> QED BY <3>1, <1>2, <1>3
  <2> QED BY <2>1, <2>2
<1>6. ASSUME NEW i \in 1 .. (m + n) - 1 PROVE plan[i].end = plan[i + 1].beg
  <2>1. CASE i < m
    <3>1. i \in 1 .. m /\ i + 1 \in 1 .. m /\ i \in 1 .. m - 1
      BY <2>1, <1>1
    <3> QED BY <3>1, <1>2, <1>3
  <2>2. CASE i = m
    <3>1. i \in 1 .. m /\ i + 1 \in m + 1 .. m + n /\ (i + 1) - m = 1
      BY <2>2, <1>1
    <3> QED BY <3>1, <2>2, <1>2, <1>3
  <2>3. CASE i > m
    <3>1. i \in m + 1 .. m + n /\ i + 1 \in m + 1 .. m + n /\ i - m \in 1 .. n - 1 /\ (i + 1) - m = (i - m) + 1
      BY <2>3, <1>1
    <3> QED BY <3>1, <1>2, <1>3
  <2> QED BY <2>1, <2>2, <2>3, <1>1
<1>7. m + n > 0
  BY <1>1
<1> QED BY <1>2, <1>3, <1>4, <1>5, <1>6, <1>7 DEF GoodPlan, plan

LEMMA PlanTwo ==
  ASSUME NEW in, NEW c, NEW x \in Copies, NEW y \in Copies,
         GoodCopy(in, c, x), GoodCopy(in, c, y), x.end = y.beg
  PROVE  GoodPlan(in, c, <<x, y>>, x.beg, y.end)
<1>1. GoodPlan(in, c, <<x>>, x.beg, x.end) /\ GoodPlan(in, c, <<y>>, y.beg, y.end)
  BY PlanOne
<1>2. GoodPlan(in, c, <<x>> \o <<y>>, x.beg, y.end)
  BY <1>1, PlanJoin
<1>3. <<x>> \o <<y>> = <<x, y>>
  <2> DEFINE u == <<x>> \o <<y>>
             v == <<x, y>>
  <2>1. u \in Seq(Copies) /\ Len(u) = 2 /\ u[1] = x /\ u[2] = y
    OBVIOUS
  <2>2. v \in Seq(Copies) /\ Len(v) = 2 /\ v[1] = x /\ v[2] = y
    OBVIOUS
  <2> HIDE DEF u, v
  <2>3. u \in [1 .. 2 -> Copies] /\ v \in [1 .. 2 -> Copies] /\ \A i \in 1 .. 2 : u[i] = v[i]
    BY <2>1, <2>2
  <2>4. u = v
    BY <2>3
  <2> QED BY <2>4 DEF u, v
<1> QED BY <1>2, <1>3

LEMMA PlanApart ==
  ASSUME NEW in \in Inputs, NEW c \in BlocksOf(in, "cmp"), NEW dst, NEW lit, NEW s,
         SequenceAt(in, c, dst, lit, s)
  PROVE  GoodPlan(in, c, <<CopyLiterals(dst, lit, s.llen, EndOf(in, c)),
                           MatchCopy(dst + s.llen, s, EndOf(in, c))>>, dst, dst + Total(s))
<1> DEFINE x == CopyLiterals(dst, lit, s.llen, EndOf(in, c))
           mid == dst + s.llen
           y == MatchCopy(mid, s, EndOf(in, c))
<1>1. /\ dst \in Nat /\ lit \in Nat /\ s.llen \in Nat /\ s.mlen \in Nat /\ s.offs \in Nat /\ s.offs > 0
      /\ StartOf(in, c) <= dst /\ dst + Total(s) <= EndOf(in, c)
      /\ LiteralsAt(in, c, dst, lit, s.llen)
      /\ \A p \in mid .. (dst + Total(s)) - 1 :
           Source(in, c, p - s.offs) /\ in.ref.content[p] = in.ref.content[p - s.offs]
  BY Zenon DEF SequenceAt
<1>2. /\ StartOf(in, c) \in Nat /\ EndOf(in, c) \in Nat
      /\ Total(s) = s.llen + s.mlen /\ dst + Total(s) = mid + s.mlen
      /\ mid \in Nat /\ StartOf(in, c) <= mid /\ mid <= EndOf(in, c) /\ mid + s.mlen <= EndOf(in, c)
  BY <1>1, CmpFacts DEF Total
<1> HIDE DEF mid, x, y
<1>3. x \in Copies /\ x.beg = dst /\ x.end = mid /\ GoodCopy(in, c, x)
  <2>1. dst + s.llen = mid
    BY DEF mid
  <2>2. dst + s.llen <= EndOf(in, c)
    BY <2>1, <1>2
  <2>3. x = CopyLiterals(dst, lit, s.llen, EndOf(in, c))
    BY DEF x
  <2> QED BY <1>1, <2>1, <2>2, <2>3, GoodLiterals
<1>4. y \in Copies /\ y.beg = mid /\ y.end = mid + s.mlen /\ GoodCopy(in, c, y)
  <2>1. \A p \in mid .. mid + s.mlen - 1 :
           Source(in, c, p - s.offs) /\ in.ref.content[p] = in.ref.content[p - s.offs]
    <3>1. mid + s.mlen - 1 = (dst + Total(s)) - 1
      BY <1>1, <1>2
    <3> QED BY <3>1, <1>1
  <2> QED BY <1>1, <1>2, <2>1, GoodMatch DEF y
<1>5. GoodPlan(in, c, <<x, y>>, x.beg, y.end)
  BY <1>3, <1>4, PlanTwo
<1> QED BY <1>2, <1>3, <1>4, <1>5 DEF x, y, mid

LEMMA PlanExecute ==
  ASSUME NEW in \in Inputs, NEW c \in BlocksOf(in, "cmp"), NEW dst, NEW lit, NEW s,
         SequenceAt(in, c, dst, lit, s)
  PROVE  GoodPlan(in, c, Execute(dst, lit, s, EndOf(in, c)), dst, dst + Total(s))
<1> DEFINE fused == s.offs >= Total(s) /\ Total(s) <= LaneCount /\ dst + Total(s) <= EndOf(in, c)
<1>1. CASE fused
  <2>1. Execute(dst, lit, s, EndOf(in, c)) = <<Fused(dst, lit, s)>>
    BY <1>1 DEF Execute
  <2>2. s.offs >= Total(s)
    BY <1>1
  <2> QED BY <2>1, <2>2, GoodFused, PlanOne
<1>2. CASE ~ fused
  <2>1. Execute(dst, lit, s, EndOf(in, c)) =
          <<CopyLiterals(dst, lit, s.llen, EndOf(in, c)), MatchCopy(dst + s.llen, s, EndOf(in, c))>>
    BY <1>2 DEF Execute
  <2> QED BY <2>1, PlanApart
<1> QED BY <1>1, <1>2

LEMMA PlanExecutePair ==
  ASSUME NEW in \in Inputs, NEW c \in BlocksOf(in, "cmp"), NEW dst, NEW lit, NEW s, NEW t,
         SequenceAt(in, c, dst, lit, s), SequenceAt(in, c, dst + Total(s), lit + s.llen, t)
  PROVE  GoodPlan(in, c, ExecutePair(dst, lit, s, t, EndOf(in, c)), dst, dst + Total(s) + Total(t))
<1>1. CASE PairFits(dst, s, t, EndOf(in, c))
  <2>1. ExecutePair(dst, lit, s, t, EndOf(in, c)) = <<FusedPair(dst, lit, s, t)>>
    BY <1>1 DEF ExecutePair
  <2> QED BY <1>1, <2>1, GoodFusedPair, PlanOne
<1>2. CASE ~ PairFits(dst, s, t, EndOf(in, c))
  <2> DEFINE mid == dst + Total(s)
  <2>1. ExecutePair(dst, lit, s, t, EndOf(in, c)) =
          Execute(dst, lit, s, EndOf(in, c)) \o Execute(mid, lit + s.llen, t, EndOf(in, c))
    BY <1>2 DEF ExecutePair
  <2>2. GoodPlan(in, c, Execute(dst, lit, s, EndOf(in, c)), dst, mid)
    BY PlanExecute
  <2>3. GoodPlan(in, c, Execute(mid, lit + s.llen, t, EndOf(in, c)), mid, mid + Total(t))
    BY PlanExecute
  <2> QED BY <2>1, <2>2, <2>3, PlanJoin
<1> QED BY <1>1, <1>2
------------------------------------------------------------------------------
(* The waves: which blocks each has, and what these may reach. *)

WavesOf(in) == 0 .. in.Frames - 1

LEMMA CmpFirst ==
  ASSUME NEW in \in Inputs, NEW f \in FramesOf(in)
  PROVE  /\ in.cmpFirst[f] \in Nat /\ in.blockCount["cmp"] \in Nat
         /\ in.cmpFirst[f] <= in.blockCount["cmp"]
         /\ \A c \in BlocksOf(in, "cmp") : in.cmpFirst[f] <= c <=> in.first[f] <= CmpOf(in, c)
BY InputOK DEF LayoutOK, Kinds, CmpOf

LEMMA WaveFacts ==
  ASSUME NEW in \in Inputs, NEW w \in WavesOf(in)
  PROVE  /\ w \in FramesOf(in) /\ in.cmpFirst[w] \in Nat /\ CmpEnd(in, w) \in Nat
         /\ in.cmpFirst[w] <= CmpEnd(in, w)
         /\ in.cmpFirst[w] .. CmpEnd(in, w) - 1 \subseteq BlocksOf(in, "cmp")
<1>1. in.frameCount \in Nat /\ in.Frames \in 0 .. in.frameCount
  BY InputOK DEF LayoutOK
<1>2. w \in FramesOf(in)
  BY <1>1 DEF WavesOf, FramesOf
<1>3. in.cmpFirst[w] \in Nat /\ in.blockCount["cmp"] \in Nat /\ in.cmpFirst[w] <= in.blockCount["cmp"]
  BY <1>2, CmpFirst
<1>4. CASE w + 1 < in.Frames
  <2> DEFINE v == w + 1
             z == in.cmpFirst[v]
  <2>1. v \in FramesOf(in) /\ w <= v
    BY <1>1, <1>4 DEF WavesOf, FramesOf
  <2>2. z \in Nat /\ z <= in.blockCount["cmp"]
    BY <2>1, CmpFirst
  <2>3. CmpEnd(in, w) = z
    BY <1>4 DEF CmpEnd
  <2> HIDE DEF v, z
  <2>4. ASSUME z < in.cmpFirst[w] PROVE FALSE
    <3>1. z \in BlocksOf(in, "cmp")
      BY <2>2, <2>4, <1>3 DEF BlocksOf
    <3>2. in.first[v] <= CmpOf(in, z)
      BY <3>1, <2>1, <2>2, CmpFirst DEF z
    <3>3. in.first[w] <= in.first[v] /\ in.first[w] \in Nat /\ in.first[v] \in Nat
      BY <2>1, <1>2, FirstSorted DEF FramesOf
    <3>4. CmpOf(in, z) \in Nat
      BY <3>1, CmpFacts, BlockFacts
    <3>5. in.first[w] <= CmpOf(in, z)
      BY <3>2, <3>3, <3>4
    <3>6. in.cmpFirst[w] <= z
      BY <3>1, <3>5, <1>2, CmpFirst
    <3> QED BY <3>6, <2>4, <2>2, <1>3
  <2> QED BY <1>2, <1>3, <2>2, <2>3, <2>4 DEF BlocksOf
<1>5. CASE ~ (w + 1 < in.Frames)
  <2>1. CmpEnd(in, w) = in.blockCount["cmp"]
    BY <1>5 DEF CmpEnd
  <2> QED BY <1>2, <1>3, <2>1 DEF BlocksOf
<1> QED BY <1>4, <1>5

\* All that a block may reach is there when the raw and RLE blocks are, the
\* blocks of its wave before it, and what it reaches of itself.
LEMMA SourceStored ==
  ASSUME NEW in \in Inputs, NEW w \in WavesOf(in), NEW c \in BlocksOf(in, "cmp"), in.cmpFirst[w] <= c,
         NEW q, Source(in, c, q), NEW o, CopiedStored(in, o),
         \A d \in in.cmpFirst[w] .. c - 1 : \A p \in Extent(in, CmpOf(in, d)) : Stored(in, o, p),
         q \in Extent(in, CmpOf(in, c)) => Stored(in, o, q)
  PROVE  Stored(in, o, q)
<1> DEFINE b == CmpOf(in, c)
           d == in.ref.owner[q]
           f == in.ref.frame[b]
<1>1. q \in DOMAIN in.ref.content /\ in.ref.frame[d] = f /\ d <= b
  BY DEF Source, Reaches
<1>2. d \in Blocks(in) /\ q \in Extent(in, d)
  <2>1. PlacesOK(in)
    BY InputOK
  <2> QED BY <1>1, <2>1 DEF PlacesOK, Extent
<1>3. b \in Blocks(in) /\ b \in Nat /\ d \in Nat
  BY <1>2, CmpFacts, BlockFacts
<1>4. f \in FramesOf(in)
  BY <1>3, InputOK DEF PlacesOK
<1>5. LayoutOK(in)
  BY InputOK
<1>6. PICK t \in Kinds : \E j \in BlocksOf(in, t) : in.blockIndex[t][j] = d
  BY <1>2, <1>5 DEF LayoutOK
<1>7. PICK i \in BlocksOf(in, t) : in.blockIndex[t][i] = d
  BY <1>6
<1>8. CASE t \in Copied
  BY <1>2, <1>7, <1>8 DEF CopiedStored
<1>9. CASE t = "cmp"
  <2>1. i \in BlocksOf(in, "cmp") /\ CmpOf(in, i) = d
    BY <1>7, <1>9 DEF CmpOf
  <2>2. i \in Nat /\ c \in Nat
    BY <2>1 DEF BlocksOf
  <2>3. ASSUME c < i PROVE FALSE
    <3>1. b < d
      BY <2>1, <2>3, <1>5 DEF LayoutOK, CmpOf
    <3> QED BY <3>1, <1>1, <1>3
  <2>4. CASE i = c
    BY <2>4, <2>1, <1>2
  <2>5. CASE i < c
    <3>1. w \in FramesOf(in) /\ in.cmpFirst[w] \in Nat
      BY WaveFacts
    <3>2. in.first[w] <= b /\ in.first[w] \in Nat /\ in.first[f] \in Nat
      BY <3>1, <1>4, CmpFirst, FirstSorted DEF FramesOf
    <3>3. in.frameCount \in Nat /\ f \in Nat /\ w \in Nat /\ w < in.frameCount
      BY <3>1, <1>4, FirstSorted DEF FramesOf
    <3>4. ASSUME f < w PROVE FALSE
      <4>1. f + 1 \in FramesOf(in) /\ f + 1 <= w /\ f + 1 < in.frameCount
        BY <3>3, <3>4 DEF FramesOf
      <4>2. b < in.first[f + 1]
        BY <4>1, <1>3, <1>4, FrameOfBlock
      <4>3. in.first[f + 1] <= in.first[w] /\ in.first[f + 1] \in Nat
        BY <4>1, <3>1, FirstSorted DEF FramesOf
      <4> QED BY <4>2, <4>3, <3>2, <1>3
    <3>5. in.first[w] <= in.first[f]
      BY <3>1, <3>3, <3>4, <1>4, FirstSorted
    <3>6. in.first[f] <= d
      BY <1>1, <1>2, <1>4, FrameOfBlock
    <3>7. in.first[w] <= CmpOf(in, i)
      BY <3>2, <3>5, <3>6, <2>1, <1>3
    <3>8. in.cmpFirst[w] <= i
      BY <3>1, <3>7, <2>1, CmpFirst
    <3>9. i \in in.cmpFirst[w] .. c - 1
      BY <3>1, <3>8, <2>2, <2>5
    <3> QED BY <3>9, <2>1, <1>2
  <2> QED BY <2>2, <2>3, <2>4, <2>5
<1> QED BY <1>8, <1>9 DEF Kinds, Copied
------------------------------------------------------------------------------
(* What holds of the waves goes on to hold as bytes are added to the output. *)

Grown(in, o, o2) == \A p : Stored(in, o, p) => Stored(in, o2, p)

LEMMA WaveKept ==
  ASSUME NEW in, NEW k, NEW k2, NEW o, NEW o2, NEW w, NEW r, NEW plan, NEW ps,
         WaveInv(in, k, o, w, r, plan, ps), Grown(in, o, o2), k2 = "execute" \/ k # "execute"
  PROVE  WaveInv(in, k2, o2, w, r, plan, ps)
BY DEF WaveInv, Grown

LEMMA CopiedKept ==
  ASSUME NEW in, NEW o, NEW o2, CopiedStored(in, o), Grown(in, o, o2)
  PROVE  CopiedStored(in, o2)
BY DEF CopiedStored, Grown

LEMMA FillKept ==
  ASSUME NEW in, NEW o, NEW o2, NEW t, NEW i, FillDone(in, o, t, i), Grown(in, o, o2)
  PROVE  FillDone(in, o2, t, i)
BY DEF FillDone, Grown

LEMMA ContentInside ==
  ASSUME NEW in \in Inputs
  PROVE  in.outSize \in Nat /\ DOMAIN in.ref.content \subseteq 0 .. in.outSize - 1
BY InputOK DEF PlacesOK

\* A step that stores what the decoder has.
LEMMA StoreStep ==
  ASSUME input \in Inputs, OutInv, input' = input, NEW p \in DOMAIN input.ref.content,
         out' = [out EXCEPT ![p] = input.ref.content[p]]
  PROVE  OutInv' /\ Grown(input, out, out') /\ Stored(input, out', p)
<1>1. p \in DOMAIN out /\ DOMAIN input.ref.content \subseteq DOMAIN out /\ DOMAIN out = 0 .. input.outSize - 1
  BY ContentInside DEF OutInv
<1>2. DOMAIN out' = DOMAIN out /\ out'[p] = input.ref.content[p] /\ \A q \in DOMAIN out : q # p => out'[q] = out[q]
  BY <1>1
<1>3. Stored(input, out', p)
  BY <1>2 DEF Stored
<1>4. Grown(input, out, out')
  BY <1>1, <1>2 DEF Stored, Grown
<1>5. out' = [q \in 0 .. input.outSize - 1 |-> out'[q]]
  BY <1>1 DEF OutInv
<1>6. \A q \in DOMAIN out' : out'[q] # Unwritten => Stored(input, out', q)
  <2> SUFFICES ASSUME NEW q \in DOMAIN out', out'[q] # Unwritten PROVE Stored(input, out', q)
    OBVIOUS
  <2>1. CASE q = p
    BY <2>1, <1>3
  <2>2. CASE q # p
    BY <2>2, <1>2, <1>4 DEF OutInv, Grown
  <2> QED BY <2>1, <2>2
<1> QED BY <1>3, <1>4, <1>5, <1>6 DEF OutInv

LEMMA GrownSame == ASSUME NEW in, NEW o PROVE Grown(in, o, o)
BY DEF Grown

LEMMA InitInv == ASSUME Init PROVE IInv
<1>1. input \in Inputs
  BY DEF Init
<1>2. KernelInv
  <2>1. kernel = "dest" /\ ran = {} /\ destOffs = [b \in Blocks(input) |-> NoOffset]
    BY DEF Init
  <2> QED BY <2>1 DEF KernelInv
<1>3. OutInv
  <2>1. out = [p \in 0 .. input.outSize - 1 |-> Unwritten]
    BY DEF Init
  <2> QED BY <2>1 DEF OutInv
<1>4. Waves = WavesOf(input)
  BY DEF Waves, WavesOf
<1>5. ASSUME NEW w \in Waves
      PROVE  /\ reg[w] = [phase |-> "between", cmp |-> input.cmpFirst[w], seq |-> 0, dst |-> 0, lit |-> 0]
             /\ todo[w] = <<>> /\ pass[w] = Fresh
  BY DEF Init
<1>6. ShapeInv
  <2>1. /\ reg = [w \in Waves |-> [phase |-> "between", cmp |-> input.cmpFirst[w], seq |-> 0, dst |-> 0, lit |-> 0]]
        /\ pass = [w \in Waves |-> Fresh]
        /\ todo = [w \in Waves |-> <<>>]
    BY DEF Init
  <2>2. DOMAIN reg = Waves /\ \A w \in Waves : DOMAIN reg[w] = {"phase", "cmp", "seq", "dst", "lit"}
    BY <2>1
  <2>3. DOMAIN pass = Waves /\ \A w \in Waves : DOMAIN pass[w] = {"done", "lanes", "latch"}
    BY <2>1 DEF Fresh
  <2> QED BY <2>1, <2>2, <2>3 DEF ShapeInv
<1>7. ASSUME NEW w \in Waves PROVE WaveInv(input, kernel, out, w, reg[w], todo[w], pass[w])
  <2>1. input.cmpFirst[w] \in input.cmpFirst[w] .. CmpEnd(input, w) /\ input.cmpFirst[w] \in Nat
    BY <1>1, <1>4, WaveFacts
  <2>2. reg[w].cmp = input.cmpFirst[w] /\ reg[w].phase = "between"
    <3> DEFINE r == [phase |-> "between", cmp |-> input.cmpFirst[w], seq |-> 0, dst |-> 0, lit |-> 0]
    <3>1. reg[w] = r
      BY <1>5
    <3>2. r.cmp = input.cmpFirst[w] /\ r.phase = "between"
      OBVIOUS
    <3> HIDE DEF r
    <3> QED BY <3>1, <3>2
  <2>3. input.cmpFirst[w] .. reg[w].cmp - 1 = {}
    BY <2>1, <2>2
  <2> QED BY <2>1, <2>2, <2>3, <1>5 DEF WaveInv
<1> QED BY <1>1, <1>2, <1>3, <1>6, <1>7 DEF IInv

------------------------------------------------------------------------------
(* The kernels before ExecuteSequences. *)

\* The waves have not begun, or nothing of them changes.
LEMMA WavesKept ==
  ASSUME IInv, input' = input, UNCHANGED <<reg, todo, pass>>, Grown(input, out, out'),
         kernel' = "execute" \/ kernel # "execute"
  PROVE  ShapeInv' /\ (\A w \in Waves : WaveInv(input, kernel, out, w, reg[w], todo[w], pass[w]))'
<1>1. Waves' = Waves
  BY DEF Waves
<1>2. ShapeInv'
  BY <1>1 DEF IInv, ShapeInv
<1>3. ASSUME NEW w \in Waves PROVE WaveInv(input, kernel', out', w, reg[w], todo[w], pass[w])
  <2>1. WaveInv(input, kernel, out, w, reg[w], todo[w], pass[w])
    BY DEF IInv
  <2> QED BY <2>1, WaveKept
<1> QED BY <1>1, <1>2, <1>3

LEMMA DestStep ==
  ASSUME IInv, NEW b \in Blocks(input), ComputeDestBlockOffset(b)
  PROVE  IInv'
<1>1. /\ kernel = "dest" /\ ran' = ran \cup {b} /\ destOffs' = [destOffs EXCEPT ![b] = DestOffset(b)]
      /\ UNCHANGED <<input, kernel, out, reg, todo, pass>>
  BY DEF ComputeDestBlockOffset
<1>2. input \in Inputs /\ KernelInv /\ OutInv
  BY DEF IInv
<1>3. DestOffset(b) = input.ref.start[b] /\ input.ref.start[b] \in Nat
  BY <1>2, DestIsStart, BlockFacts
<1>4. KernelInv'
  <2>1. destOffs \in [Blocks(input) -> Nat \cup {NoOffset}] /\ ran \subseteq Threads("dest")
    BY <1>1, <1>2 DEF KernelInv
  <2>2. destOffs' \in [Blocks(input) -> Nat \cup {NoOffset}]
    BY <1>1, <1>3, <2>1
  <2>3. ran' \subseteq Threads("dest") /\ Threads("dest") = Blocks(input)
    BY <1>1, <2>1 DEF Threads
  <2>4. ASSUME NEW d \in Blocks(input) PROVE d \notin ran' \/ destOffs'[d] = input.ref.start[d]
    BY <1>1, <1>2, <1>3, <2>1 DEF KernelInv
  <2> QED BY <1>1, <2>2, <2>3, <2>4 DEF KernelInv, Threads
<1>5. OutInv'
  BY <1>1, <1>2 DEF OutInv
<1>6. Grown(input, out, out')
  BY <1>1, GrownSame
<1>7. ShapeInv' /\ (\A w \in Waves : WaveInv(input, kernel, out, w, reg[w], todo[w], pass[w]))'
  BY <1>1, <1>6, WavesKept
<1> QED BY <1>1, <1>2, <1>4, <1>5, <1>7 DEF IInv

\* The pairs <<kind, byte>> of the second kernel.
LEMMA FillThreads ==
  ASSUME NEW x
  PROVE  x \in Threads("fill") <=> \E t \in Copied : \E i \in 0 .. input.bytes[t] - 1 : x = <<t, i>>
BY DEF Threads, Copied

LEMMA FillStep ==
  ASSUME IInv, NEW t \in Copied, NEW i \in 0 .. input.bytes[t] - 1, Fill(t, i)
  PROVE  IInv'
<1> DEFINE r == FoundBy(input, t, i)
           k == i - input.bytesPrefix[t][r]
           b == input.blockIndex[t][r]
<1>1. /\ kernel = "fill" /\ ran' = ran \cup {<<t, i>>}
      /\ out' = IF k >= BlockSize(input, b) THEN out ELSE [out EXCEPT ![destOffs[b] + k] = Byte(t, r, k)]
      /\ UNCHANGED <<input, kernel, destOffs, reg, todo, pass>>
  BY DEF Fill, FoundBy
<1>2. input \in Inputs /\ KernelInv /\ OutInv
  BY DEF IInv
<1>3. /\ r \in BlocksOf(input, t) /\ input.bytesPrefix[t][r] <= i /\ b \in Blocks(input)
      /\ input.bytesPrefix[t][r] \in Nat
  BY <1>2, FillFinds, CopiedFacts DEF BlocksOf
<1>4. k \in Nat /\ BlockSize(input, b) \in Nat
  <2>1. i \in Int
    OBVIOUS
  <2>2. BlockSize(input, b) \in Nat
    BY <1>2, <1>3, BlockFacts
  <2> QED BY <1>3, <2>1, <2>2
<1>5. OutInv' /\ Grown(input, out, out') /\ (k < BlockSize(input, b) => Stored(input, out', input.ref.start[b] + k))
  <2>1. CASE k >= BlockSize(input, b)
    <3>1. out' = out /\ ~ (k < BlockSize(input, b))
      BY <1>1, <1>4, <2>1
    <3> QED BY <3>1, <1>1, <1>2, GrownSame DEF OutInv
  <2>2. CASE ~ (k >= BlockSize(input, b))
    <3> DEFINE p == input.ref.start[b] + k
    <3>1. k < BlockSize(input, b)
      BY <1>4, <2>2
    <3>2. p \in DOMAIN input.ref.content /\ input.ref.content[p] = Byte(t, r, k)
      BY <1>2, <1>3, <1>4, <3>1, FillStores
    <3>3. destOffs[b] = input.ref.start[b]
      BY <1>1, <1>2, <1>3 DEF KernelInv
    <3>4. out' = [out EXCEPT ![p] = input.ref.content[p]]
      BY <1>1, <2>2, <3>2, <3>3
    <3> HIDE DEF p
    <3>5. OutInv' /\ Grown(input, out, out') /\ Stored(input, out', p)
      BY <1>1, <1>2, <3>2, <3>4, StoreStep
    <3> QED BY <3>5 DEF p
  <2> QED BY <2>1, <2>2
<1>6. KernelInv'
  <2>1. ran' \subseteq Threads("fill") /\ Threads("fill")' = Threads("fill")
    <3>1. <<t, i>> \in Threads("fill")
      BY FillThreads
    <3>2. ran \subseteq Threads("fill")
      BY <1>1, <1>2 DEF KernelInv
    <3>3. Threads("fill")' = Threads("fill")
      BY <1>1 DEF Threads
    <3> QED BY <1>1, <3>1, <3>2, <3>3
  <2>2. destOffs \in [Blocks(input) -> Nat \cup {NoOffset}] /\ \A d \in Blocks(input) : destOffs[d] = input.ref.start[d]
    BY <1>1, <1>2 DEF KernelInv
  <2>3. ASSUME NEW u \in Copied, NEW j \in 0 .. input.bytes[u] - 1, <<u, j>> \in ran'
        PROVE  FillDone(input, out', u, j)
    <3>1. CASE <<u, j>> = <<t, i>>
      <4>1. u = t /\ j = i
        BY <3>1
      <4> QED BY <4>1, <1>5 DEF FillDone
    <3>2. CASE <<u, j>> # <<t, i>>
      <4>1. FillDone(input, out, u, j)
        BY <3>2, <2>3, <1>1, <1>2 DEF KernelInv
      <4> QED BY <4>1, <1>5, FillKept
    <3> QED BY <3>1, <3>2
  <2> HIDE DEF r, k, b
  <2>4. kernel' = "fill" /\ input' = input /\ destOffs' = destOffs
    BY <1>1
  <2>5. ran' \subseteq Threads(kernel)'
    BY <2>1, <2>4 DEF Threads
  <2>6. \A u \in Copied : \A j \in 0 .. input.bytes[u] - 1 : <<u, j>> \in ran' => FillDone(input, out', u, j)
    BY <2>3
  <2> QED BY <2>2, <2>4, <2>5, <2>6 DEF KernelInv
<1>7. ShapeInv' /\ (\A w \in Waves : WaveInv(input, kernel, out, w, reg[w], todo[w], pass[w]))'
  BY <1>1, <1>5, WavesKept
<1> QED BY <1>1, <1>2, <1>5, <1>6, <1>7 DEF IInv

LEMMA StartFillStep ==
  ASSUME IInv, StartFill
  PROVE  IInv'
<1>1. /\ kernel = "dest" /\ ran = Threads("dest") /\ kernel' = "fill" /\ ran' = {}
      /\ UNCHANGED <<input, destOffs, out, reg, todo, pass>>
  BY DEF StartFill, Barrier
<1>2. input \in Inputs /\ KernelInv /\ OutInv
  BY DEF IInv
<1>3. KernelInv'
  <2>1. destOffs \in [Blocks(input) -> Nat \cup {NoOffset}] /\ \A d \in Blocks(input) : destOffs[d] = input.ref.start[d]
    BY <1>1, <1>2 DEF KernelInv, Threads
  <2> QED BY <1>1, <2>1 DEF KernelInv
<1>4. OutInv' /\ Grown(input, out, out')
  BY <1>1, <1>2, GrownSame DEF OutInv
<1>5. ShapeInv' /\ (\A w \in Waves : WaveInv(input, kernel, out, w, reg[w], todo[w], pass[w]))'
  BY <1>1, <1>4, WavesKept
<1> QED BY <1>1, <1>2, <1>3, <1>4, <1>5 DEF IInv

\* When the threads have ended, every byte of the raw and RLE blocks is there.
LEMMA StartExecuteStep ==
  ASSUME IInv, StartExecute
  PROVE  IInv'
<1>1. /\ kernel = "fill" /\ ran = Threads("fill") /\ kernel' = "execute" /\ ran' = {}
      /\ UNCHANGED <<input, destOffs, out, reg, todo, pass>>
  BY DEF StartExecute, Barrier
<1>2. input \in Inputs /\ KernelInv /\ OutInv
  BY DEF IInv
<1>3. CopiedStored(input, out)
  <2> SUFFICES ASSUME NEW t \in Copied, NEW j \in BlocksOf(input, t),
                      NEW p \in Extent(input, input.blockIndex[t][j])
               PROVE  Stored(input, out, p)
    BY DEF CopiedStored
  <2>1. PICK i \in 0 .. input.bytes[t] - 1 :
          /\ FoundBy(input, t, i) = j
          /\ i - input.bytesPrefix[t][j] \in Nat
          /\ i - input.bytesPrefix[t][j] < BlockSize(input, input.blockIndex[t][j])
          /\ p = input.ref.start[input.blockIndex[t][j]] + (i - input.bytesPrefix[t][j])
    BY <1>2, FillReaches
  <2>2. <<t, i>> \in ran
    BY <1>1, FillThreads
  <2>3. FillDone(input, out, t, i)
    BY <1>1, <1>2, <2>2 DEF KernelInv
  <2> QED BY <2>1, <2>3 DEF FillDone
<1>4. KernelInv'
  <2>1. destOffs \in [Blocks(input) -> Nat \cup {NoOffset}] /\ \A d \in Blocks(input) : destOffs[d] = input.ref.start[d]
    BY <1>1, <1>2 DEF KernelInv
  <2> QED BY <1>1, <1>3, <2>1 DEF KernelInv
<1>5. OutInv' /\ Grown(input, out, out')
  BY <1>1, <1>2, GrownSame DEF OutInv
<1>6. ShapeInv' /\ (\A w \in Waves : WaveInv(input, kernel, out, w, reg[w], todo[w], pass[w]))'
  BY <1>1, <1>5, WavesKept
<1> QED BY <1>1, <1>2, <1>4, <1>5, <1>6 DEF IInv

------------------------------------------------------------------------------
(* The waves of ExecuteSequences. *)

\* Only wave w takes the step.
LEMMA WaveStep ==
  ASSUME IInv, NEW w \in Waves, UNCHANGED <<input, kernel, ran, destOffs>>,
         OutInv', Grown(input, out, out'),
         ShapeInv',
         \A v \in Waves : v # w => reg'[v] = reg[v] /\ todo'[v] = todo[v] /\ pass'[v] = pass[v],
         WaveInv(input, kernel, out', w, reg'[w], todo'[w], pass'[w])
  PROVE  IInv'
<1>1. input \in Inputs /\ KernelInv
  BY DEF IInv
<1>2. Waves' = Waves
  BY DEF Waves
<1>4. KernelInv'
  <2>1. Threads(kernel)' = Threads(kernel)
    BY DEF Threads
  <2>2. kernel = "fill" =>
          \A t \in Copied : \A i \in 0 .. input.bytes[t] - 1 : <<t, i>> \in ran => FillDone(input, out', t, i)
    BY <1>1, FillKept DEF KernelInv
  <2>3. kernel = "execute" => CopiedStored(input, out')
    BY <1>1, CopiedKept DEF KernelInv
  <2> QED BY <1>1, <2>1, <2>2, <2>3 DEF KernelInv
<1>5. ASSUME NEW v \in Waves PROVE WaveInv(input, kernel, out', v, reg'[v], todo'[v], pass'[v])
  <2>1. CASE v = w
    BY <2>1
  <2>2. CASE v # w
    <3>1. WaveInv(input, kernel, out, v, reg[v], todo[v], pass[v])
      BY DEF IInv
    <3>2. WaveInv(input, kernel, out', v, reg[v], todo[v], pass[v])
      BY <3>1, WaveKept
    <3> QED BY <3>2, <2>2
  <2> QED BY <2>1, <2>2
<1> QED BY <1>1, <1>2, <1>4, <1>5 DEF IInv

\* A wave that has a block.
LEMMA BlockOfWave ==
  ASSUME IInv, NEW w \in Waves, kernel = "execute", reg[w].cmp < CmpEnd(input, w)
  PROVE  /\ input \in Inputs /\ w \in WavesOf(input)
         /\ reg[w].cmp \in BlocksOf(input, "cmp") /\ input.cmpFirst[w] <= reg[w].cmp
         /\ reg[w].cmp \in Nat /\ input.cmpFirst[w] \in Nat /\ CmpEnd(input, w) \in Nat
         /\ CmpBlock(w) = CmpOf(input, reg[w].cmp)
         /\ destOffs[CmpBlock(w)] = StartOf(input, reg[w].cmp)
         /\ DstEnd(w) = EndOf(input, reg[w].cmp)
         /\ CopiedStored(input, out)
<1>1. input \in Inputs /\ w \in WavesOf(input) /\ KernelInv /\ WaveInv(input, kernel, out, w, reg[w], todo[w], pass[w])
  BY DEF IInv, Waves, WavesOf
<1>2. reg[w].cmp \in input.cmpFirst[w] .. CmpEnd(input, w)
  BY <1>1 DEF WaveInv
<1>3. reg[w].cmp \in BlocksOf(input, "cmp") /\ input.cmpFirst[w] <= reg[w].cmp /\ reg[w].cmp \in Nat
      /\ input.cmpFirst[w] \in Nat /\ CmpEnd(input, w) \in Nat
  BY <1>1, <1>2, WaveFacts
<1>4. CmpBlock(w) = CmpOf(input, reg[w].cmp)
  BY DEF CmpBlock, CmpOf
<1>5. CmpBlock(w) \in Blocks(input)
  BY <1>1, <1>3, <1>4, CmpFacts
<1>6. destOffs[CmpBlock(w)] = input.ref.start[CmpBlock(w)] /\ CopiedStored(input, out)
  BY <1>1, <1>5 DEF KernelInv
<1> QED BY <1>1, <1>3, <1>4, <1>6 DEF StartOf, EndOf, DstEnd

\* A wave that is about to take its next copies, or block.
LEMMA Between ==
  ASSUME IInv, NEW w \in Waves, NEW ph, InPhase(w, ph)
  PROVE  /\ kernel = "execute" /\ todo[w] = <<>> /\ reg[w].phase = ph /\ reg[w].cmp < CmpEnd(input, w)
         /\ pass[w] = Fresh
         /\ WaveInv(input, kernel, out, w, reg[w], todo[w], pass[w])
         /\ ph # "between" =>
              /\ PositionOK(input, reg[w])
              /\ \A p \in StartOf(input, reg[w].cmp) .. reg[w].dst - 1 : Stored(input, out, p)
<1>1. /\ kernel = "execute" /\ todo[w] = <<>> /\ reg[w].phase = ph /\ reg[w].cmp < CmpEnd(input, w)
      /\ WaveInv(input, kernel, out, w, reg[w], todo[w], pass[w])
  BY DEF InPhase, IInv
<1>2. pass[w] = Fresh
  BY <1>1 DEF WaveInv
<1>3. ASSUME ph # "between"
      PROVE  /\ PositionOK(input, reg[w])
             /\ \A p \in StartOf(input, reg[w].cmp) .. reg[w].dst - 1 : Stored(input, out, p)
  <2>1. PositionOK(input, reg[w])
    BY <1>1, <1>3 DEF WaveInv
  <2>2. Mark(reg[w], todo[w], pass[w]) = reg[w].dst
    BY <1>1 DEF Mark
  <2>3. pass[w].lanes = {}
    BY <1>2 DEF Fresh
  <2>4. \A p \in StartOf(input, reg[w].cmp) .. Mark(reg[w], todo[w], pass[w]) - 1 :
          p \notin pass[w].lanes => Stored(input, out, p)
    BY <1>1, <1>3 DEF WaveInv
  <2> QED BY <2>1, <2>2, <2>3, <2>4
<1> QED BY <1>1, <1>2, <1>3

LEMMA LoadBlockStep ==
  ASSUME IInv, NEW w \in Waves, LoadBlock(w)
  PROVE  IInv'
<1> DEFINE c == reg[w].cmp
<1>1. /\ InPhase(w, "between")
      /\ reg' = [reg EXCEPT ![w].phase = "sequences", ![w].seq = SeqBeg(input, c),
                            ![w].dst = destOffs[CmpBlock(w)], ![w].lit = 0]
      /\ UNCHANGED <<input, kernel, ran, destOffs, out, todo, pass>>
  BY DEF LoadBlock
<1>2. /\ kernel = "execute" /\ todo[w] = <<>> /\ c < CmpEnd(input, w) /\ pass[w] = Fresh
      /\ WaveInv(input, kernel, out, w, reg[w], todo[w], pass[w])
  BY <1>1, Between
<1>3. /\ input \in Inputs /\ c \in BlocksOf(input, "cmp") /\ c \in Nat
      /\ destOffs[CmpBlock(w)] = StartOf(input, c)
  BY <1>2, BlockOfWave
<1>4. /\ StartOf(input, c) \in Nat /\ SeqBeg(input, c) \in Nat /\ SeqEnd(input, c) \in Nat
      /\ SeqBeg(input, c) <= SeqEnd(input, c)
      /\ input.ref.at[c][SeqBeg(input, c)] = StartOf(input, c) /\ input.ref.lit[c][SeqBeg(input, c)] = 0
  BY <1>3, CmpFacts, DecoderFacts
<1>5. ShapeInv /\ OutInv /\ w \in DOMAIN reg /\ Waves' = Waves
  BY <1>1 DEF IInv, ShapeInv, Waves
<1>6. /\ ShapeInv' /\ \A v \in Waves : v # w => reg'[v] = reg[v]
      /\ reg'[w].phase = "sequences" /\ reg'[w].cmp = c /\ reg'[w].seq = SeqBeg(input, c)
      /\ reg'[w].dst = StartOf(input, c) /\ reg'[w].lit = 0
  BY <1>1, <1>3, <1>5 DEF ShapeInv
<1>7. WaveInv(input, kernel, out, w, reg'[w], todo[w], pass[w])
  <2> DEFINE r == reg'[w]
  <2>1. r.phase = "sequences" /\ r.cmp = c /\ r.seq = SeqBeg(input, c) /\ r.dst = StartOf(input, c) /\ r.lit = 0
    BY <1>6
  <2> HIDE DEF r
  <2>2. PositionOK(input, r)
    BY <2>1, <1>4 DEF PositionOK
  <2>3. Mark(r, todo[w], pass[w]) = StartOf(input, c)
    BY <2>1, <1>2 DEF Mark
  <2>4. StartOf(input, c) .. Mark(r, todo[w], pass[w]) - 1 = {}
    BY <2>3, <1>4
  <2>5. WaveInv(input, kernel, out, w, r, todo[w], pass[w])
    BY <2>1, <2>2, <2>4, <1>2 DEF WaveInv
  <2> QED BY <2>5 DEF r
<1>8. OutInv' /\ Grown(input, out, out')
  BY <1>1, <1>5, GrownSame DEF OutInv
<1> QED BY <1>1, <1>6, <1>7, <1>8, WaveStep

\* A wave takes its next copies, and no other wave does anything.
TakesPlan(w, plan) ==
  /\ InPhase(w, "sequences") /\ UNCHANGED <<input, kernel, ran, destOffs, out, pass>>
  /\ todo' = [todo EXCEPT ![w] = plan]
  /\ GoodPlan(input, reg[w].cmp, plan, reg[w].dst, reg'[w].dst)
  /\ DOMAIN reg' = Waves /\ \A v \in Waves : DOMAIN reg'[v] = {"phase", "cmp", "seq", "dst", "lit"}
  /\ \A v \in Waves : v # w => reg'[v] = reg[v]
  /\ reg'[w].cmp = reg[w].cmp /\ reg'[w].phase \in {"sequences", "rest"} /\ PositionOK(input, reg'[w])

LEMMA PlanStep ==
  ASSUME IInv, NEW w \in Waves, NEW plan, TakesPlan(w, plan)
  PROVE  IInv'
<1> DEFINE c == reg[w].cmp
           r == reg'[w]
<1> USE DEF TakesPlan
<1>1. /\ kernel = "execute" /\ todo[w] = <<>> /\ c < CmpEnd(input, w) /\ pass[w] = Fresh
      /\ reg[w].phase = "sequences"
      /\ WaveInv(input, kernel, out, w, reg[w], todo[w], pass[w])
      /\ \A p \in StartOf(input, c) .. reg[w].dst - 1 : Stored(input, out, p)
  BY Between
<1>2. plan \in Seq(Copies) /\ Len(plan) \in Nat /\ Len(plan) > 0 /\ plan[1].beg = reg[w].dst
  BY DEF GoodPlan
<1>3. plan # <<>>
  BY <1>2
<1>4. plan[1] \in Copies
  BY <1>2
<1>5. ShapeInv /\ OutInv /\ Waves' = Waves
  BY DEF IInv, Waves
<1>6. ShapeInv'
  BY <1>2, <1>5 DEF ShapeInv
<1>7. todo'[w] = plan /\ \A v \in Waves : v # w => todo'[v] = todo[v]
  BY <1>5 DEF ShapeInv
<1>8. GoodCopy(input, c, plan[1])
  BY <1>2 DEF GoodPlan
<1>9. PassOK(input, plan[1], Fresh)
  <2>1. plan[1].beg \in Nat /\ plan[1].end \in Nat /\ plan[1].beg <= plan[1].end
    BY <1>4, <1>8 DEF Copies, GoodCopy
  <2>2. Fresh.done = 0 /\ Fresh.lanes = {} /\ Fresh.latch = <<>>
    BY DEF Fresh
  <2> QED BY <2>1, <2>2 DEF PassOK
<1>10. Mark(r, plan, Fresh) = reg[w].dst
  <2>1. Fresh.done = 0 /\ plan[1].beg \in Nat
    BY <1>4 DEF Fresh, Copies
  <2> QED BY <2>1, <1>2, <1>3 DEF Mark
<1>11. WaveInv(input, kernel, out, w, r, plan, pass[w])
  <2>1. r.cmp = c /\ r.phase \in {"sequences", "rest"} /\ PositionOK(input, r)
        /\ GoodPlan(input, r.cmp, plan, plan[1].beg, r.dst)
    BY <1>2
  <2> HIDE DEF r, c
  <2>2. \A p \in StartOf(input, r.cmp) .. Mark(r, plan, pass[w]) - 1 : p \notin pass[w].lanes => Stored(input, out, p)
    BY <2>1, <1>1, <1>10
  <2>3. c \in input.cmpFirst[w] .. CmpEnd(input, w)
        /\ \A d \in input.cmpFirst[w] .. c - 1 : \A p \in Extent(input, CmpOf(input, d)) : Stored(input, out, p)
    BY <1>1 DEF WaveInv, c
  <2> QED BY <2>1, <2>2, <2>3, <1>1, <1>3, <1>9 DEF WaveInv
<1>12. OutInv' /\ Grown(input, out, out')
  BY <1>5, GrownSame DEF OutInv
<1> HIDE DEF c, r
<1> QED BY <1>6, <1>7, <1>11, <1>12, WaveStep DEF r

LEMMA LoadPairStep ==
  ASSUME IInv, NEW w \in Waves, LoadPair(w)
  PROVE  IInv'
<1> DEFINE c == reg[w].cmp
           i == reg[w].seq
           s == input.seqs[i]
           t == input.seqs[i + 1]
           at == input.ref.at[c]
           lit == input.ref.lit[c]
           plan == ExecutePair(reg[w].dst, reg[w].lit, s, t, DstEnd(w))
<1>1. /\ InPhase(w, "sequences") /\ i + 1 < LastSeq(w)
      /\ todo' = [todo EXCEPT ![w] = plan]
      /\ reg' = [reg EXCEPT ![w].seq = @ + 2, ![w].dst = @ + Total(s) + Total(t),
                            ![w].lit = @ + s.llen + t.llen]
      /\ UNCHANGED <<input, kernel, ran, destOffs, out, pass>>
  BY DEF LoadPair
<1>2. kernel = "execute" /\ c < CmpEnd(input, w) /\ reg[w].phase = "sequences" /\ PositionOK(input, reg[w])
  BY <1>1, Between
<1>3. /\ input \in Inputs /\ c \in BlocksOf(input, "cmp") /\ DstEnd(w) = EndOf(input, c)
      /\ LastSeq(w) = SeqEnd(input, c)
  BY <1>2, BlockOfWave DEF LastSeq
<1>4. i \in SeqBeg(input, c) .. SeqEnd(input, c) /\ reg[w].dst = at[i] /\ reg[w].lit = lit[i]
  BY <1>2 DEF PositionOK
<1>5. i \in SeqBeg(input, c) .. SeqEnd(input, c) - 1 /\ i + 1 \in SeqBeg(input, c) .. SeqEnd(input, c) - 1
      /\ i \in Nat /\ (i + 1) + 1 = i + 2
  <2>1. SeqBeg(input, c) \in Nat /\ SeqEnd(input, c) \in Nat /\ i + 1 < SeqEnd(input, c)
    BY <1>1, <1>3, CmpFacts
  <2>2. i \in SeqBeg(input, c) .. SeqEnd(input, c)
    BY <1>4
  <2> HIDE DEF i, c
  <2> QED BY <2>1, <2>2
<1>6. SequenceAt(input, c, at[i], lit[i], s) /\ at[i + 1] = at[i] + Total(s) /\ lit[i + 1] = lit[i] + s.llen
  BY <1>3, <1>5, SequencesPlaced
<1>7. /\ SequenceAt(input, c, at[i + 1], lit[i + 1], t)
      /\ at[i + 2] = at[i + 1] + Total(t) /\ lit[i + 2] = lit[i + 1] + t.llen
      /\ i + 2 \in SeqBeg(input, c) .. SeqEnd(input, c)
  BY <1>3, <1>5, SequencesPlaced
<1>8. GoodPlan(input, c, plan, reg[w].dst, at[i + 2])
  <2>1. plan = ExecutePair(at[i], lit[i], s, t, EndOf(input, c))
    BY <1>3, <1>4
  <2>2. SequenceAt(input, c, at[i] + Total(s), lit[i] + s.llen, t) /\ at[i + 2] = at[i] + Total(s) + Total(t)
    BY <1>6, <1>7
  <2> HIDE DEF plan, at, lit, s, t, c
  <2> QED BY <2>1, <2>2, <1>3, <1>4, <1>6, PlanExecutePair
<1>9. /\ DOMAIN reg' = Waves /\ \A v \in Waves : DOMAIN reg'[v] = {"phase", "cmp", "seq", "dst", "lit"}
      /\ \A v \in Waves : v # w => reg'[v] = reg[v]
      /\ reg'[w].cmp = c /\ reg'[w].phase = "sequences" /\ reg'[w].seq = i + 2
      /\ reg'[w].dst = reg[w].dst + Total(s) + Total(t) /\ reg'[w].lit = reg[w].lit + s.llen + t.llen
  <2> ShapeInv
    BY DEF IInv
  <2> HIDE DEF s, t
  <2> QED BY <1>1, <1>2 DEF ShapeInv
<1> HIDE DEF plan, at, lit, s, t, c
<1>10. reg'[w].dst = at[i + 2] /\ reg'[w].lit = lit[i + 2]
  BY <1>4, <1>6, <1>7, <1>9
<1>11. PositionOK(input, reg'[w])
  BY <1>7, <1>9, <1>10 DEF PositionOK, at, lit
<1>12. GoodPlan(input, reg[w].cmp, plan, reg[w].dst, reg'[w].dst)
  BY <1>8, <1>10 DEF c
<1>13. reg'[w].cmp = reg[w].cmp /\ reg'[w].phase \in {"sequences", "rest"}
  BY <1>9 DEF c
<1> HIDE DEF i
<1>20. TakesPlan(w, plan)
  BY <1>1, <1>9, <1>11, <1>12, <1>13 DEF TakesPlan
<1> QED BY <1>20, PlanStep

LEMMA LoadOneStep ==
  ASSUME IInv, NEW w \in Waves, LoadOne(w)
  PROVE  IInv'
<1> DEFINE c == reg[w].cmp
           i == reg[w].seq
           s == input.seqs[i]
           at == input.ref.at[c]
           lit == input.ref.lit[c]
           plan == IF input.litType[c] = "rle"
                     THEN <<CopyLiterals(reg[w].dst, reg[w].lit, s.llen, DstEnd(w)),
                            MatchCopy(reg[w].dst + s.llen, s, DstEnd(w))>>
                     ELSE Execute(reg[w].dst, reg[w].lit, s, DstEnd(w))
<1>1. /\ InPhase(w, "sequences") /\ i < LastSeq(w)
      /\ todo' = [todo EXCEPT ![w] = plan]
      /\ reg' = [reg EXCEPT ![w].seq = @ + 1, ![w].dst = @ + Total(s), ![w].lit = @ + s.llen]
      /\ UNCHANGED <<input, kernel, ran, destOffs, out, pass>>
  BY DEF LoadOne
<1>2. kernel = "execute" /\ c < CmpEnd(input, w) /\ reg[w].phase = "sequences" /\ PositionOK(input, reg[w])
  BY <1>1, Between
<1>3. /\ input \in Inputs /\ c \in BlocksOf(input, "cmp") /\ DstEnd(w) = EndOf(input, c)
      /\ LastSeq(w) = SeqEnd(input, c)
  BY <1>2, BlockOfWave DEF LastSeq
<1>4. i \in SeqBeg(input, c) .. SeqEnd(input, c) /\ reg[w].dst = at[i] /\ reg[w].lit = lit[i]
  BY <1>2 DEF PositionOK
<1>5. i \in SeqBeg(input, c) .. SeqEnd(input, c) - 1
  <2>1. SeqBeg(input, c) \in Nat /\ SeqEnd(input, c) \in Nat /\ i < SeqEnd(input, c)
    BY <1>1, <1>3, CmpFacts
  <2>2. i \in SeqBeg(input, c) .. SeqEnd(input, c)
    BY <1>4
  <2> HIDE DEF i, c
  <2> QED BY <2>1, <2>2
<1>6. /\ SequenceAt(input, c, at[i], lit[i], s) /\ at[i + 1] = at[i] + Total(s) /\ lit[i + 1] = lit[i] + s.llen
      /\ i + 1 \in SeqBeg(input, c) .. SeqEnd(input, c)
  BY <1>3, <1>5, SequencesPlaced
<1>7. GoodPlan(input, c, plan, reg[w].dst, at[i + 1])
  <2>1. CASE input.litType[c] = "rle"
    <3>1. plan = <<CopyLiterals(at[i], lit[i], s.llen, EndOf(input, c)), MatchCopy(at[i] + s.llen, s, EndOf(input, c))>>
      BY <2>1, <1>3, <1>4
    <3> HIDE DEF plan, at, lit, s, c
    <3> QED BY <3>1, <1>3, <1>4, <1>6, PlanApart
  <2>2. CASE input.litType[c] # "rle"
    <3>1. plan = Execute(at[i], lit[i], s, EndOf(input, c))
      BY <2>2, <1>3, <1>4
    <3> HIDE DEF plan, at, lit, s, c
    <3> QED BY <3>1, <1>3, <1>4, <1>6, PlanExecute
  <2> QED BY <2>1, <2>2
<1>8. /\ DOMAIN reg' = Waves /\ \A v \in Waves : DOMAIN reg'[v] = {"phase", "cmp", "seq", "dst", "lit"}
      /\ \A v \in Waves : v # w => reg'[v] = reg[v]
      /\ reg'[w].cmp = c /\ reg'[w].phase = "sequences" /\ reg'[w].seq = i + 1
      /\ reg'[w].dst = reg[w].dst + Total(s) /\ reg'[w].lit = reg[w].lit + s.llen
  <2> ShapeInv
    BY DEF IInv
  <2> HIDE DEF s
  <2> QED BY <1>1, <1>2 DEF ShapeInv
<1> HIDE DEF plan, at, lit, s, c
<1>9. reg'[w].dst = at[i + 1] /\ reg'[w].lit = lit[i + 1]
  BY <1>4, <1>6, <1>8
<1>10. PositionOK(input, reg'[w])
  BY <1>6, <1>8, <1>9 DEF PositionOK, at, lit
<1>11. GoodPlan(input, reg[w].cmp, plan, reg[w].dst, reg'[w].dst)
  BY <1>7, <1>9 DEF c
<1>12. reg'[w].cmp = reg[w].cmp /\ reg'[w].phase \in {"sequences", "rest"}
  BY <1>8 DEF c
<1> HIDE DEF i
<1>20. TakesPlan(w, plan)
  BY <1>1, <1>8, <1>10, <1>11, <1>12 DEF TakesPlan
<1> QED BY <1>20, PlanStep

LEMMA LoadRestStep ==
  ASSUME IInv, NEW w \in Waves, LoadRest(w)
  PROVE  IInv'
<1> DEFINE c == reg[w].cmp
           z == SeqEnd(input, c)
           at == input.ref.at[c]
           lit == input.ref.lit[c]
           n == input.litSize[c] - reg[w].lit
           x == CopyLiterals(reg[w].dst, reg[w].lit, n, DstEnd(w))
<1>1. /\ InPhase(w, "sequences") /\ reg[w].seq = LastSeq(w)
      /\ todo' = [todo EXCEPT ![w] = <<x>>]
      /\ reg' = [reg EXCEPT ![w].phase = "rest", ![w].dst = @ + n, ![w].lit = @ + n]
      /\ UNCHANGED <<input, kernel, ran, destOffs, out, pass>>
  BY DEF LoadRest, Rest
<1>2. kernel = "execute" /\ c < CmpEnd(input, w) /\ reg[w].phase = "sequences" /\ PositionOK(input, reg[w])
  BY <1>1, Between
<1>3. /\ input \in Inputs /\ c \in BlocksOf(input, "cmp") /\ DstEnd(w) = EndOf(input, c)
      /\ LastSeq(w) = z
  BY <1>2, BlockOfWave DEF LastSeq
<1>4. /\ z \in SeqBeg(input, c) .. z /\ z \in Nat
      /\ reg[w].seq = z /\ reg[w].dst = at[z] /\ reg[w].lit = lit[z]
  BY <1>1, <1>2, <1>3, CmpFacts DEF PositionOK
<1>5. /\ at[z] \in Nat /\ lit[z] \in Nat /\ StartOf(input, c) <= at[z] /\ input.litSize[c] \in Nat
      /\ lit[z] <= input.litSize[c]
  BY <1>3, <1>4, PositionInside, CmpFacts
<1>6. /\ EndOf(input, c) = at[z] + input.litSize[c] - lit[z]
      /\ \A k \in 0 .. input.litSize[c] - lit[z] - 1 :
           input.ref.content[at[z] + k] = Literal(input, c, lit[z] + k)
  BY <1>3, DecoderFacts
<1>7. n \in Nat /\ n = input.litSize[c] - lit[z]
  BY <1>4, <1>5
<1>8. /\ DOMAIN reg' = Waves /\ \A v \in Waves : DOMAIN reg'[v] = {"phase", "cmp", "seq", "dst", "lit"}
      /\ \A v \in Waves : v # w => reg'[v] = reg[v]
      /\ reg'[w].cmp = c /\ reg'[w].phase = "rest" /\ reg'[w].seq = z
      /\ reg'[w].dst = reg[w].dst + n /\ reg'[w].lit = reg[w].lit + n
  <2> ShapeInv
    BY DEF IInv
  <2> HIDE DEF n, x
  <2> QED BY <1>1, <1>4 DEF ShapeInv
<1> HIDE DEF c, z, at, lit, n
<1>9. LiteralsAt(input, c, at[z], lit[z], n)
  <2>1. input.litSize[c] - lit[z] - 1 = n - 1
    BY <1>5, <1>7
  <2> QED BY <1>6, <2>1, <1>7 DEF LiteralsAt
<1>10. at[z] + n = EndOf(input, c) /\ lit[z] + n = input.litSize[c]
  BY <1>5, <1>6, <1>7
<1>11. x \in Copies /\ x.beg = at[z] /\ x.end = at[z] + n /\ GoodCopy(input, c, x)
  <2>1. x = CopyLiterals(at[z], lit[z], n, EndOf(input, c))
    BY <1>3, <1>4
  <2>2. at[z] + n <= EndOf(input, c)
    BY <1>3, <1>10, CmpFacts
  <2> HIDE DEF x
  <2> QED BY <2>1, <2>2, <1>3, <1>5, <1>7, <1>9, GoodLiterals
<1> HIDE DEF x
<1>12. GoodPlan(input, c, <<x>>, reg[w].dst, EndOf(input, c))
  BY <1>4, <1>10, <1>11, PlanOne
<1>13. reg'[w].dst = EndOf(input, c) /\ reg'[w].lit = input.litSize[c]
  BY <1>4, <1>8, <1>10
<1>14. PositionOK(input, reg'[w])
  BY <1>8, <1>13 DEF PositionOK, z
<1>15. GoodPlan(input, reg[w].cmp, <<x>>, reg[w].dst, reg'[w].dst)
  BY <1>12, <1>13 DEF c
<1>16. reg'[w].cmp = reg[w].cmp /\ reg'[w].phase \in {"sequences", "rest"}
  BY <1>8 DEF c
<1>20. TakesPlan(w, <<x>>)
  BY <1>1, <1>8, <1>14, <1>15, <1>16 DEF TakesPlan
<1> QED BY <1>20, PlanStep

LEMMA EndBlockStep ==
  ASSUME IInv, NEW w \in Waves, EndBlock(w)
  PROVE  IInv'
<1> DEFINE c == reg[w].cmp
           r == reg'[w]
<1>1. /\ InPhase(w, "rest") /\ reg' = [reg EXCEPT ![w].phase = "between", ![w].cmp = @ + 1]
      /\ UNCHANGED <<input, kernel, ran, destOffs, out, todo, pass>>
  BY DEF EndBlock
<1>2. /\ kernel = "execute" /\ todo[w] = <<>> /\ c < CmpEnd(input, w) /\ pass[w] = Fresh
      /\ reg[w].phase = "rest" /\ PositionOK(input, reg[w])
      /\ WaveInv(input, kernel, out, w, reg[w], todo[w], pass[w])
      /\ \A p \in StartOf(input, c) .. reg[w].dst - 1 : Stored(input, out, p)
  BY <1>1, Between
<1>3. /\ input \in Inputs /\ c \in BlocksOf(input, "cmp") /\ c \in Nat
      /\ input.cmpFirst[w] \in Nat /\ CmpEnd(input, w) \in Nat
  BY <1>2, BlockOfWave
<1>4. ShapeInv /\ OutInv /\ Waves' = Waves
  BY <1>1 DEF IInv, Waves
<1>5. ShapeInv' /\ (\A v \in Waves : v # w => reg'[v] = reg[v]) /\ r.phase = "between" /\ r.cmp = c + 1
  BY <1>1, <1>4 DEF ShapeInv
<1>6. \A p \in Extent(input, CmpOf(input, c)) : Stored(input, out, p)
  <2>1. reg[w].dst = EndOf(input, c)
    BY <1>2 DEF PositionOK
  <2>2. StartOf(input, c) \in Nat /\ BlockSize(input, CmpOf(input, c)) \in Nat
    BY <1>3, CmpFacts
  <2> HIDE DEF c
  <2>3. Extent(input, CmpOf(input, c)) = StartOf(input, c) .. reg[w].dst - 1
    BY <2>1, <2>2 DEF Extent, StartOf, EndOf
  <2> QED BY <2>3, <1>2
<1>7. WaveInv(input, kernel, out, w, r, todo[w], pass[w])
  <2>1. /\ c \in input.cmpFirst[w] .. CmpEnd(input, w)
        /\ \A d \in input.cmpFirst[w] .. c - 1 : \A p \in Extent(input, CmpOf(input, d)) : Stored(input, out, p)
    BY <1>2 DEF WaveInv
  <2> HIDE DEF c, r
  <2>2. r.cmp \in input.cmpFirst[w] .. CmpEnd(input, w)
    BY <2>1, <1>2, <1>3, <1>5
  <2>3. \A d \in input.cmpFirst[w] .. r.cmp - 1 : \A p \in Extent(input, CmpOf(input, d)) : Stored(input, out, p)
    <3> SUFFICES ASSUME NEW d \in input.cmpFirst[w] .. r.cmp - 1
                 PROVE  \A p \in Extent(input, CmpOf(input, d)) : Stored(input, out, p)
      OBVIOUS
    <3>1. d = c \/ d \in input.cmpFirst[w] .. c - 1
      BY <1>3, <1>5
    <3> QED BY <3>1, <2>1, <1>6
  <2> QED BY <2>2, <2>3, <1>2, <1>5 DEF WaveInv
<1>8. OutInv' /\ Grown(input, out, out')
  BY <1>1, <1>4, GrownSame DEF OutInv
<1> HIDE DEF c, r
<1>9. WaveInv(input, kernel, out', w, reg'[w], todo'[w], pass'[w])
  BY <1>1, <1>7 DEF r
<1> QED BY <1>1, <1>5, <1>8, <1>9, WaveStep

\* A wave that is making a copy.
LEMMA Copying ==
  ASSUME IInv, NEW w \in Waves, todo[w] # <<>>
  PROVE  LET x == Head(todo[w])
             c == reg[w].cmp
         IN /\ x = todo[w][1] /\ x \in Copies /\ todo[w] \in Seq(Copies)
            /\ kernel = "execute" /\ c < CmpEnd(input, w) /\ reg[w].phase # "between"
            /\ GoodPlan(input, c, todo[w], x.beg, reg[w].dst) /\ GoodCopy(input, c, x)
            /\ PassOK(input, x, pass[w])
            /\ \A p \in StartOf(input, c) .. x.beg + pass[w].done - 1 :
                 p \notin pass[w].lanes => Stored(input, out, p)
            /\ WaveInv(input, kernel, out, w, reg[w], todo[w], pass[w])
<1> DEFINE plan == todo[w]
<1>1. plan \in Seq(Copies) /\ WaveInv(input, kernel, out, w, reg[w], plan, pass[w])
  BY DEF IInv, ShapeInv
<1>2. Len(plan) \in Nat /\ Len(plan) > 0
  BY <1>1
<1>3. Head(plan) = plan[1] /\ plan[1] \in Copies
  BY <1>1, <1>2
<1> HIDE DEF plan
<1>4. plan # <<>>
  BY DEF plan
<1>5. reg[w].phase # "between" /\ GoodPlan(input, reg[w].cmp, plan, plan[1].beg, reg[w].dst)
      /\ PassOK(input, plan[1], pass[w])
  BY <1>1, <1>4 DEF WaveInv
<1>6. kernel = "execute" /\ reg[w].cmp < CmpEnd(input, w)
      /\ \A p \in StartOf(input, reg[w].cmp) .. Mark(reg[w], plan, pass[w]) - 1 :
           p \notin pass[w].lanes => Stored(input, out, p)
  BY <1>1, <1>5 DEF WaveInv
<1>7. Mark(reg[w], plan, pass[w]) = plan[1].beg + pass[w].done
  BY <1>4 DEF Mark
<1>8. GoodCopy(input, reg[w].cmp, plan[1])
  <2>1. 1 \in 1 .. Len(plan)
    BY <1>2
  <2> QED BY <2>1, <1>5 DEF GoodPlan
<1>9. \A p \in StartOf(input, reg[w].cmp) .. plan[1].beg + pass[w].done - 1 :
        p \notin pass[w].lanes => Stored(input, out, p)
  <2>1. plan[1].beg \in Nat /\ pass[w].done \in Nat
    BY <1>3, <1>5 DEF Copies, PassOK
  <2>2. plan[1].beg + pass[w].done - 1 = (plan[1].beg + pass[w].done) - 1
    BY <2>1
  <2> QED BY <2>2, <1>6, <1>7
<1> QED BY <1>1, <1>3, <1>5, <1>6, <1>8, <1>9 DEF plan

\* A source behind the copy has been stored, if no lane is about to store it.
LEMMA SourceReady ==
  ASSUME IInv, NEW w \in Waves, todo[w] # <<>>, NEW q, Source(input, reg[w].cmp, q),
         q < Head(todo[w]).beg + pass[w].done, q \notin pass[w].lanes
  PROVE  Stored(input, out, q)
<1> DEFINE c == reg[w].cmp
           x == Head(todo[w])
<1>1. /\ kernel = "execute" /\ c < CmpEnd(input, w) /\ x \in Copies /\ PassOK(input, x, pass[w])
      /\ \A p \in StartOf(input, c) .. x.beg + pass[w].done - 1 :
           p \notin pass[w].lanes => Stored(input, out, p)
      /\ WaveInv(input, kernel, out, w, reg[w], todo[w], pass[w])
  BY Copying
<1>2. /\ input \in Inputs /\ w \in WavesOf(input) /\ c \in BlocksOf(input, "cmp")
      /\ input.cmpFirst[w] <= c /\ CopiedStored(input, out)
  BY <1>1, BlockOfWave
<1>3. \A d \in input.cmpFirst[w] .. c - 1 : \A p \in Extent(input, CmpOf(input, d)) : Stored(input, out, p)
  BY <1>1 DEF WaveInv
<1>4. x.beg \in Nat /\ pass[w].done \in Nat
  BY <1>1 DEF Copies, PassOK
<1>5. StartOf(input, c) \in Nat /\ BlockSize(input, CmpOf(input, c)) \in Nat
  BY <1>2, CmpFacts
<1>6. ASSUME q \in Extent(input, CmpOf(input, c)) PROVE Stored(input, out, q)
  <2>1. q \in Int /\ StartOf(input, c) <= q
    BY <1>5, <1>6 DEF Extent, StartOf
  <2>2. q \in StartOf(input, c) .. x.beg + pass[w].done - 1
    <3> HIDE DEF x, c
    <3>1. q < x.beg + pass[w].done
      BY DEF x
    <3> QED BY <3>1, <2>1, <1>4, <1>5
  <2> QED BY <2>2, <1>1
<1> QED BY <1>2, <1>3, <1>6, SourceStored

LEMMA LatchStep ==
  ASSUME IInv, NEW w \in Waves, Latch(w)
  PROVE  IInv'
<1> DEFINE c == reg[w].cmp
           x == Head(todo[w])
           latched == [j \in 0 .. x.latch - 1 |-> out[x.beg - x.latch + j]]
           ps == pass'[w]
<1>1. /\ todo[w] # <<>> /\ x.latch > 0 /\ pass[w] = Fresh
      /\ pass' = [pass EXCEPT ![w].latch = latched]
      /\ UNCHANGED <<input, kernel, ran, destOffs, out, reg, todo>>
  BY DEF Latch
<1>2. /\ x = todo[w][1] /\ x \in Copies /\ GoodCopy(input, c, x) /\ PassOK(input, x, pass[w])
      /\ WaveInv(input, kernel, out, w, reg[w], todo[w], pass[w])
  BY <1>1, Copying
<1>3. ShapeInv /\ OutInv /\ Waves' = Waves
  BY <1>1 DEF IInv, Waves
<1>4. Fresh.done = 0 /\ Fresh.lanes = {}
  BY DEF Fresh
<1>5. /\ ShapeInv' /\ (\A v \in Waves : v # w => pass'[v] = pass[v])
      /\ ps.done = 0 /\ ps.lanes = {} /\ ps.latch = latched
  <2> HIDE DEF latched, x
  <2> QED BY <1>1, <1>3, <1>4 DEF ShapeInv
<1>6. \A j \in 0 .. x.latch - 1 : latched[j] = input.ref.content[x.beg - x.latch + j]
  <2> SUFFICES ASSUME NEW j \in 0 .. x.latch - 1
               PROVE  out[x.beg - x.latch + j] = input.ref.content[x.beg - x.latch + j]
    OBVIOUS
  <2> DEFINE q == x.beg - x.latch + j
  <2>1. Source(input, c, q)
    BY <1>1, <1>2 DEF GoodCopy
  <2>2. x.beg \in Nat /\ x.latch \in Nat
    BY <1>2 DEF Copies
  <2>3. q < x.beg + pass[w].done /\ q \notin pass[w].lanes
    BY <2>2, <1>1, <1>4
  <2> HIDE DEF q
  <2>4. Stored(input, out, q)
    BY <1>1, <2>1, <2>3, SourceReady
  <2> QED BY <2>4 DEF Stored, q
<1> HIDE DEF latched, ps
<1>7. PassOK(input, x, ps)
  <2>1. x.beg \in Nat /\ x.end \in Nat /\ x.beg <= x.end
    BY <1>2 DEF Copies, GoodCopy
  <2> HIDE DEF x
  <2> QED BY <2>1, <1>5, <1>6 DEF PassOK
<1>8. WaveInv(input, kernel, out, w, reg[w], todo[w], ps)
  <2>1. Mark(reg[w], todo[w], ps) = Mark(reg[w], todo[w], pass[w]) /\ ps.lanes = pass[w].lanes
    BY <1>1, <1>4, <1>5 DEF Mark
  <2>2. PassOK(input, todo[w][1], ps)
    BY <1>2, <1>7
  <2> QED BY <2>1, <2>2, <1>1, <1>2 DEF WaveInv
<1>9. OutInv' /\ Grown(input, out, out')
  BY <1>1, <1>3, GrownSame DEF OutInv
<1> QED BY <1>1, <1>5, <1>8, <1>9, WaveStep DEF ps

LEMMA StartPassStep ==
  ASSUME IInv, NEW w \in Waves, StartPass(w)
  PROVE  IInv'
<1> DEFINE c == reg[w].cmp
           x == Head(todo[w])
           done == pass[w].done
           first == x.beg + done
           last == Least2(first + LaneCount, x.end)
           ps == pass'[w]
<1>1. /\ todo[w] # <<>> /\ pass[w].lanes = {} /\ first < x.end
      /\ x.latch > 0 => pass[w].latch # <<>>
      /\ pass' = [pass EXCEPT ![w].done = last - x.beg, ![w].lanes = first .. last - 1]
      /\ UNCHANGED <<input, kernel, ran, destOffs, out, reg, todo>>
  BY DEF StartPass
<1>2. /\ x = todo[w][1] /\ x \in Copies /\ GoodCopy(input, c, x) /\ PassOK(input, x, pass[w])
      /\ WaveInv(input, kernel, out, w, reg[w], todo[w], pass[w])
      /\ \A p \in StartOf(input, c) .. first - 1 : p \notin pass[w].lanes => Stored(input, out, p)
  <2>1. /\ x = todo[w][1] /\ x \in Copies /\ GoodCopy(input, c, x) /\ PassOK(input, x, pass[w])
        /\ WaveInv(input, kernel, out, w, reg[w], todo[w], pass[w])
        /\ \A p \in StartOf(input, c) .. x.beg + done - 1 : p \notin pass[w].lanes => Stored(input, out, p)
    BY <1>1, Copying
  <2>2. x.beg \in Nat /\ done \in Nat
    BY <2>1 DEF Copies, PassOK
  <2>3. x.beg + done - 1 = first - 1
    BY <2>2
  <2> QED BY <2>1, <2>3
<1>3. ShapeInv /\ OutInv /\ Waves' = Waves
  BY <1>1 DEF IInv, Waves
<1>4. /\ ShapeInv' /\ (\A v \in Waves : v # w => pass'[v] = pass[v])
      /\ ps.done = last - x.beg /\ ps.lanes = first .. last - 1 /\ ps.latch = pass[w].latch
  <2> HIDE DEF first, last, x
  <2> QED BY <1>1, <1>3 DEF ShapeInv
<1>5. x.beg \in Nat /\ x.end \in Nat /\ x.latch \in Nat /\ done \in Nat /\ LaneCount \in Nat /\ LaneCount > 0
  BY <1>2, LaneAssumption DEF Copies, PassOK
<1>6. last \in Nat /\ first \in Nat /\ last <= x.end /\ last <= first + LaneCount /\ first < last /\ x.beg <= first
  BY <1>1, <1>5 DEF Least2
<1>7. StartOf(input, c) \in Nat
  <2>1. kernel = "execute" /\ c < CmpEnd(input, w)
    BY <1>1, Copying
  <2> QED BY <2>1, BlockOfWave, CmpFacts
<1> HIDE DEF ps, x, done, first, last, c
<1>8. x.beg + ps.done = last
  BY <1>4, <1>5, <1>6
<1>9. PassOK(input, x, ps)
  <2>1. ps.done \in 0 .. x.end - x.beg
    BY <1>4, <1>5, <1>6
  <2>2. \A p \in ps.lanes : p \in x.beg .. x.beg + ps.done - 1 /\ x.beg + ps.done <= p + LaneCount
    BY <1>4, <1>5, <1>6, <1>8
  <2> QED BY <2>1, <2>2, <1>1, <1>2, <1>4 DEF PassOK
<1>10. WaveInv(input, kernel, out, w, reg[w], todo[w], ps)
  <2>1. Mark(reg[w], todo[w], ps) = last
    BY <1>1, <1>2, <1>8 DEF Mark
  <2>2. PassOK(input, todo[w][1], ps)
    BY <1>2, <1>9
  <2>3. \A p \in StartOf(input, c) .. last - 1 : p \notin ps.lanes => Stored(input, out, p)
    BY <1>1, <1>2, <1>4, <1>6, <1>7
  <2> QED BY <2>1, <2>2, <2>3, <1>1, <1>2 DEF WaveInv, c
<1>11. OutInv' /\ Grown(input, out, out')
  BY <1>1, <1>3, GrownSame DEF OutInv
<1> QED BY <1>1, <1>4, <1>10, <1>11, WaveStep DEF ps

LEMMA PlanTail ==
  ASSUME NEW in, NEW c, NEW plan, NEW from, NEW to, GoodPlan(in, c, plan, from, to), Tail(plan) # <<>>
  PROVE  GoodPlan(in, c, Tail(plan), plan[1].end, to)
<1> DEFINE rest == Tail(plan)
           n == Len(plan)
<1>1. /\ plan \in Seq(Copies) /\ n \in Nat /\ n > 0 /\ plan[n].end = to
      /\ \A i \in 1 .. n : GoodCopy(in, c, plan[i])
      /\ \A i \in 1 .. n - 1 : plan[i].end = plan[i + 1].beg
  BY DEF GoodPlan
<1>2. rest \in Seq(Copies) /\ Len(rest) = n - 1 /\ \A i \in 1 .. n - 1 : rest[i] = plan[i + 1]
  BY <1>1
<1> HIDE DEF rest, n
<1>3. rest # <<>>
  BY DEF rest
<1>4. n > 1
  BY <1>1, <1>2, <1>3
<1>5. rest[1].beg = plan[1].end
  <2>1. 1 \in 1 .. n - 1
    BY <1>1, <1>4
  <2> QED BY <2>1, <1>1, <1>2
<1>6. rest[n - 1].end = to
  <2>1. n - 1 \in 1 .. n - 1 /\ (n - 1) + 1 = n
    BY <1>1, <1>4
  <2> QED BY <2>1, <1>1, <1>2
<1>7. ASSUME NEW i \in 1 .. n - 1 PROVE GoodCopy(in, c, rest[i])
  <2>1. i + 1 \in 1 .. n
    BY <1>1
  <2> QED BY <2>1, <1>1, <1>2
<1>8. ASSUME NEW i \in 1 .. (n - 1) - 1 PROVE rest[i].end = rest[i + 1].beg
  <2>1. i \in 1 .. n - 1 /\ i + 1 \in 1 .. n - 1
    BY <1>1
  <2> QED BY <2>1, <1>1, <1>2
<1>9. n - 1 > 0
  BY <1>1, <1>4
<1> QED BY <1>2, <1>5, <1>6, <1>7, <1>8, <1>9 DEF GoodPlan, rest

LEMMA EndCopyStep ==
  ASSUME IInv, NEW w \in Waves, EndCopy(w)
  PROVE  IInv'
<1> DEFINE c == reg[w].cmp
           x == Head(todo[w])
           rest == Tail(todo[w])
<1>1. /\ todo[w] # <<>> /\ pass[w].lanes = {} /\ x.beg + pass[w].done >= x.end
      /\ todo' = [todo EXCEPT ![w] = rest] /\ pass' = [pass EXCEPT ![w] = Fresh]
      /\ UNCHANGED <<input, kernel, ran, destOffs, out, reg>>
  BY DEF EndCopy
<1>2. /\ x = todo[w][1] /\ x \in Copies /\ todo[w] \in Seq(Copies) /\ reg[w].phase # "between"
      /\ GoodPlan(input, c, todo[w], x.beg, reg[w].dst) /\ GoodCopy(input, c, x) /\ PassOK(input, x, pass[w])
      /\ WaveInv(input, kernel, out, w, reg[w], todo[w], pass[w])
      /\ \A p \in StartOf(input, c) .. x.beg + pass[w].done - 1 :
           p \notin pass[w].lanes => Stored(input, out, p)
  BY <1>1, Copying
<1>3. ShapeInv /\ OutInv /\ Waves' = Waves
  BY <1>1 DEF IInv, Waves
<1>4. x.beg \in Nat /\ x.end \in Nat /\ pass[w].done \in Nat /\ x.beg + pass[w].done = x.end
  <2>1. x.beg \in Nat /\ x.end \in Nat
    BY <1>2 DEF Copies
  <2>2. pass[w].done \in 0 .. x.end - x.beg
    BY <1>2 DEF PassOK
  <2>3. x.beg + pass[w].done >= x.end
    BY <1>1
  <2> HIDE DEF x
  <2> QED BY <2>1, <2>2, <2>3
<1>5. \A p \in StartOf(input, c) .. x.end - 1 : Stored(input, out, p)
  <2>1. x.beg + pass[w].done - 1 = x.end - 1
    BY <1>4
  <2> QED BY <2>1, <1>1, <1>2
<1>6. Len(todo[w]) \in Nat /\ Len(todo[w]) > 0 /\ todo[w][Len(todo[w])].end = reg[w].dst
  BY <1>2 DEF GoodPlan
<1>7. rest \in Seq(Copies) /\ Len(rest) = Len(todo[w]) - 1
  BY <1>2, <1>6
<1>8. DOMAIN Fresh = {"done", "lanes", "latch"} /\ Fresh.done = 0 /\ Fresh.lanes = {} /\ Fresh.latch = <<>>
  BY DEF Fresh
<1>9. /\ ShapeInv' /\ todo'[w] = rest /\ pass'[w] = Fresh
      /\ \A v \in Waves : v # w => todo'[v] = todo[v] /\ pass'[v] = pass[v]
  <2> HIDE DEF rest
  <2> QED BY <1>1, <1>3, <1>7, <1>8 DEF ShapeInv
<1> HIDE DEF c, x, rest
<1>10. ASSUME rest = <<>> PROVE WaveInv(input, kernel, out, w, reg[w], rest, Fresh)
  <2>1. Len(todo[w]) = 1
    BY <1>6, <1>7, <1>10
  <2>2. reg[w].dst = x.end
    BY <2>1, <1>2, <1>6
  <2>3. Mark(reg[w], rest, Fresh) = x.end
    BY <2>2, <1>10 DEF Mark
  <2> QED BY <2>3, <1>2, <1>5, <1>8, <1>10 DEF WaveInv, c
<1>11. ASSUME rest # <<>> PROVE WaveInv(input, kernel, out, w, reg[w], rest, Fresh)
  <2>1. GoodPlan(input, c, rest, x.end, reg[w].dst)
    BY <1>2, <1>11, PlanTail DEF rest
  <2>2. rest[1].beg = x.end /\ rest \in Seq(Copies) /\ Len(rest) \in Nat /\ Len(rest) > 0
    BY <2>1 DEF GoodPlan
  <2>3. rest[1] \in Copies /\ 1 \in 1 .. Len(rest)
    BY <2>2
  <2>4. GoodCopy(input, c, rest[1])
    BY <2>1, <2>3 DEF GoodPlan
  <2>5. PassOK(input, rest[1], Fresh)
    <3>1. rest[1].beg \in Nat /\ rest[1].end \in Nat /\ rest[1].beg <= rest[1].end
      BY <2>3, <2>4 DEF Copies, GoodCopy
    <3> QED BY <3>1, <1>8 DEF PassOK
  <2>6. Mark(reg[w], rest, Fresh) = x.end
    BY <2>2, <1>4, <1>8, <1>11 DEF Mark
  <2>7. GoodPlan(input, reg[w].cmp, rest, rest[1].beg, reg[w].dst)
    BY <2>1, <2>2 DEF c
  <2>8. \A p \in StartOf(input, reg[w].cmp) .. Mark(reg[w], rest, Fresh) - 1 : p \notin Fresh.lanes => Stored(input, out, p)
    BY <2>6, <1>5 DEF c
  <2>9. WaveInv(input, kernel, out, w, reg[w], rest, Fresh)
    BY <2>5, <2>7, <2>8, <1>2, <1>11 DEF WaveInv
  <2> QED BY <2>9
<1>12. WaveInv(input, kernel, out, w, reg[w], rest, Fresh)
  BY <1>10, <1>11
<1>13. OutInv' /\ Grown(input, out, out')
  BY <1>1, <1>3, GrownSame DEF OutInv
<1>14. WaveInv(input, kernel, out', w, reg'[w], todo'[w], pass'[w])
  BY <1>1, <1>9, <1>12
<1> QED BY <1>1, <1>9, <1>13, <1>14, WaveStep

\* What a lane is about to store is what the decoder has there.
LEMMA ValueRight ==
  ASSUME IInv, NEW w \in Waves, NEW p \in pass[w].lanes
  PROVE  /\ todo[w] # <<>>
         /\ p \in DOMAIN input.ref.content
         /\ p \in Head(todo[w]).beg .. Head(todo[w]).end - 1
         /\ Value(w, Head(todo[w]), p) = input.ref.content[p]
<1> DEFINE c == reg[w].cmp
           x == Head(todo[w])
           done == pass[w].done
<1>1. todo[w] # <<>>
  <2>1. WaveInv(input, kernel, out, w, reg[w], todo[w], pass[w])
    BY DEF IInv
  <2> QED BY <2>1 DEF WaveInv, Fresh
<1>2. /\ x \in Copies /\ kernel = "execute" /\ c < CmpEnd(input, w)
      /\ GoodCopy(input, c, x) /\ PassOK(input, x, pass[w])
  BY <1>1, Copying
<1>3. input \in Inputs /\ c \in BlocksOf(input, "cmp")
  BY <1>2, BlockOfWave
<1>4. x.beg \in Nat /\ x.end \in Nat /\ x.latch \in Nat /\ done \in 0 .. x.end - x.beg
      /\ LaneCount \in Nat /\ LaneCount > 0
  BY <1>2, LaneAssumption DEF Copies, PassOK
<1>5. p \in x.beg .. x.beg + done - 1 /\ x.beg + done <= p + LaneCount
  BY <1>2 DEF PassOK
<1>6. p \in x.beg .. x.end - 1 /\ p \in Nat
  BY <1>4, <1>5
<1>7. p \in DOMAIN input.ref.content
  <2>1. StartOf(input, c) \in Nat /\ StartOf(input, c) <= x.beg /\ x.end <= EndOf(input, c)
        /\ CmpOf(input, c) \in Blocks(input) /\ BlockSize(input, CmpOf(input, c)) \in Nat
    BY <1>2, <1>3, CmpFacts DEF GoodCopy
  <2> HIDE DEF c, x
  <2>2. p \in input.ref.start[CmpOf(input, c)] .. input.ref.start[CmpOf(input, c)] + BlockSize(input, CmpOf(input, c)) - 1
    BY <2>1, <1>4, <1>6 DEF StartOf, EndOf
  <2>3. PlacesOK(input)
    BY <1>3, InputOK
  <2> QED BY <2>1, <2>2, <2>3 DEF PlacesOK
<1>8. GoodByte(input, c, x, p)
  BY <1>2, <1>6 DEF GoodCopy
<1>9. ASSUME p \in DOMAIN x.lit PROVE Value(w, x, p) = input.ref.content[p]
  BY <1>8, <1>9 DEF GoodByte, Value
<1>10. ASSUME p \notin DOMAIN x.lit, x.latch = 0 PROVE Value(w, x, p) = input.ref.content[p]
  <2> DEFINE q == p - x.back[p]
  <2>1. /\ x.back[p] \in Nat \ {0} /\ (q < x.beg \/ x.back[p] >= LaneCount)
        /\ Source(input, c, q) /\ input.ref.content[p] = input.ref.content[q]
    BY <1>8, <1>10, Zenon DEF GoodByte
  <2>2. q < x.beg + done /\ q \notin pass[w].lanes
    <3>1. q \in Int /\ q < x.beg + done
      BY <2>1, <1>4, <1>5, <1>6
    <3>2. ASSUME q \in pass[w].lanes PROVE FALSE
      <4>1. q \in x.beg .. x.beg + done - 1 /\ x.beg + done <= q + LaneCount
        BY <3>2, <1>2 DEF PassOK
      <4> QED BY <4>1, <2>1, <1>4, <1>5, <1>6
    <3> QED BY <3>1, <3>2
  <2>3. Stored(input, out, q)
    <3> HIDE DEF q
    <3> QED BY <2>1, <2>2, <1>1, SourceReady
  <2>4. Value(w, x, p) = out[q]
    BY <1>10 DEF Value
  <2> QED BY <2>1, <2>3, <2>4 DEF Stored
<1>11. ASSUME p \notin DOMAIN x.lit, x.latch > 0 PROVE Value(w, x, p) = input.ref.content[p]
  <2> DEFINE j == (p - x.beg) % x.latch
  <2>1. input.ref.content[p] = input.ref.content[Wrapped(x.beg, x.latch, p)]
    <3>1. x.latch # 0
      BY <1>4, <1>11
    <3> QED BY <3>1, <1>8, <1>11 DEF GoodByte
  <2>2. j \in 0 .. x.latch - 1
    <3>1. p - x.beg \in Nat
      BY <1>4, <1>6
    <3> QED BY <3>1, <1>4, <1>11, Divide
  <2>3. Wrapped(x.beg, x.latch, p) = x.beg - x.latch + j
    BY DEF Wrapped
  <2>4. Value(w, x, p) = pass[w].latch[j]
    <3>1. x.latch # 0
      BY <1>4, <1>11
    <3> QED BY <3>1, <1>11 DEF Value
  <2>5. \A m \in 0 .. x.latch - 1 : pass[w].latch[m] = input.ref.content[x.beg - x.latch + m]
    BY <1>2, <1>11 DEF PassOK
  <2> HIDE DEF j
  <2> QED BY <2>1, <2>2, <2>3, <2>4, <2>5
<1> QED BY <1>1, <1>4, <1>6, <1>7, <1>9, <1>10, <1>11

LEMMA LaneStep ==
  ASSUME IInv, NEW w \in Waves, NEW p \in pass[w].lanes, Lane(w, p)
  PROVE  IInv'
<1> DEFINE x == Head(todo[w])
           ps == pass'[w]
<1>1. /\ todo[w] # <<>> /\ out' = [out EXCEPT ![p] = Value(w, x, p)]
      /\ pass' = [pass EXCEPT ![w].lanes = @ \ {p}]
      /\ UNCHANGED <<input, kernel, ran, destOffs, reg, todo>>
  BY DEF Lane
<1>2. p \in DOMAIN input.ref.content /\ Value(w, x, p) = input.ref.content[p]
  BY ValueRight
<1>3. /\ x = todo[w][1] /\ PassOK(input, x, pass[w])
      /\ WaveInv(input, kernel, out, w, reg[w], todo[w], pass[w])
  BY <1>1, Copying
<1>4. ShapeInv /\ OutInv /\ Waves' = Waves /\ input \in Inputs
  BY <1>1 DEF IInv, Waves
<1>5. OutInv' /\ Grown(input, out, out') /\ Stored(input, out', p)
  <2>1. out' = [out EXCEPT ![p] = input.ref.content[p]]
    BY <1>1, <1>2
  <2> QED BY <2>1, <1>1, <1>2, <1>4, StoreStep
<1>6. /\ ShapeInv' /\ (\A v \in Waves : v # w => pass'[v] = pass[v])
      /\ ps.done = pass[w].done /\ ps.lanes = pass[w].lanes \ {p} /\ ps.latch = pass[w].latch
  BY <1>1, <1>4 DEF ShapeInv
<1>7. WaveInv(input, kernel, out', w, reg[w], todo[w], pass[w])
  BY <1>3, <1>5, WaveKept
<1> HIDE DEF x, ps
<1>8. PassOK(input, x, ps)
  BY <1>3, <1>6 DEF PassOK
<1>9. WaveInv(input, kernel, out', w, reg[w], todo[w], ps)
  <2>1. Mark(reg[w], todo[w], ps) = Mark(reg[w], todo[w], pass[w])
    BY <1>6 DEF Mark
  <2>2. PassOK(input, todo[w][1], ps)
    BY <1>3, <1>8
  <2>3. reg[w].phase # "between" =>
          \A q \in StartOf(input, reg[w].cmp) .. Mark(reg[w], todo[w], ps) - 1 :
            q \notin ps.lanes => Stored(input, out', q)
    <3>1. reg[w].phase # "between" =>
            \A q \in StartOf(input, reg[w].cmp) .. Mark(reg[w], todo[w], pass[w]) - 1 :
              q \notin pass[w].lanes => Stored(input, out', q)
      BY <1>7 DEF WaveInv
    <3>2. \A q : q \notin ps.lanes => q \notin pass[w].lanes \/ q = p
      BY <1>6
    <3> QED BY <3>1, <3>2, <2>1, <1>5
  <2> QED BY <2>2, <2>3, <1>1, <1>7 DEF WaveInv
<1>10. WaveInv(input, kernel, out', w, reg'[w], todo'[w], pass'[w])
  BY <1>1, <1>9 DEF ps
<1> QED BY <1>1, <1>5, <1>6, <1>10, WaveStep

------------------------------------------------------------------------------

LEMMA NextInv == ASSUME IInv, [Next]_vars PROVE IInv'
<1>1. CASE \E b \in Blocks(input) : ComputeDestBlockOffset(b)
  BY <1>1, DestStep
<1>2. CASE \E t \in {"raw", "rle"} : \E i \in 0 .. input.bytes[t] - 1 : Fill(t, i)
  BY <1>2, FillStep DEF Copied
<1>3. CASE StartFill
  BY <1>3, StartFillStep
<1>4. CASE StartExecute
  BY <1>4, StartExecuteStep
<1>5. CASE \E w \in Waves : Wave(w)
  <2>1. PICK w \in Waves : Wave(w)
    BY <1>5
  <2>2. CASE LoadBlock(w)
    BY <2>2, LoadBlockStep
  <2>3. CASE LoadPair(w)
    BY <2>3, LoadPairStep
  <2>4. CASE LoadOne(w)
    BY <2>4, LoadOneStep
  <2>5. CASE LoadRest(w)
    BY <2>5, LoadRestStep
  <2>6. CASE EndBlock(w)
    BY <2>6, EndBlockStep
  <2>7. CASE Latch(w)
    BY <2>7, LatchStep
  <2>8. CASE StartPass(w)
    BY <2>8, StartPassStep
  <2>9. CASE EndCopy(w)
    BY <2>9, EndCopyStep
  <2>10. CASE \E p \in pass[w].lanes : Lane(w, p)
    BY <2>10, LaneStep
  <2> QED BY <2>1, <2>2, <2>3, <2>4, <2>5, <2>6, <2>7, <2>8, <2>9, <2>10 DEF Wave
<1>6. CASE UNCHANGED vars
  <2>1. UNCHANGED <<input, kernel, ran, destOffs, out, reg, todo, pass>>
    BY <1>6 DEF vars
  <2>2. ShapeInv' /\ (\A w \in Waves : WaveInv(input, kernel, out, w, reg[w], todo[w], pass[w]))'
    BY <2>1, GrownSame, WavesKept
  <2>3. input \in Inputs /\ KernelInv /\ OutInv
    BY DEF IInv
  <2>4. KernelInv'
    BY <2>1, <2>3 DEF KernelInv, Threads
  <2>5. OutInv'
    BY <2>1, <2>3 DEF OutInv
  <2> QED BY <2>1, <2>2, <2>3, <2>4, <2>5 DEF IInv
<1> QED BY <1>1, <1>2, <1>3, <1>4, <1>5, <1>6 DEF Next

LEMMA Invariant == Spec => []IInv
<1>1. Init => IInv
  BY InitInv
<1>2. IInv /\ [Next]_vars => IInv'
  BY NextInv
<1> QED BY <1>1, <1>2, PTL DEF Spec

\* The kernels, their threads and the registers of the waves stay in range:
\* a wave has a block of its own, a sequence of it, literals that there are and
\* a place inside the block; the lanes of a pass are inside their copy.
THEOREM TypeCorrect == Spec => []TypeOK
<1>1. IInv => TypeOK
  <2> SUFFICES ASSUME IInv PROVE TypeOK
    OBVIOUS
  <2>1. input \in Inputs /\ KernelInv /\ OutInv
    BY DEF IInv
  <2>2. ASSUME NEW w \in Waves
        PROVE  reg[w].phase \in {"between", "sequences", "rest"} /\ reg[w].cmp \in input.cmpFirst[w] .. CmpEnd(input, w)
    BY DEF IInv, WaveInv
  <2>3. ASSUME NEW w \in Waves, reg[w].phase # "between"
        PROVE  /\ reg[w].seq \in SeqBeg(input, reg[w].cmp) .. LastSeq(w)
               /\ reg[w].lit \in 0 .. input.litSize[reg[w].cmp]
               /\ reg[w].dst \in destOffs[CmpBlock(w)] .. DstEnd(w)
    <3> DEFINE c == reg[w].cmp
    <3>1. kernel = "execute" /\ c < CmpEnd(input, w) /\ PositionOK(input, reg[w])
      BY <2>3 DEF IInv, WaveInv
    <3>2. /\ c \in BlocksOf(input, "cmp") /\ LastSeq(w) = SeqEnd(input, c)
          /\ destOffs[CmpBlock(w)] = StartOf(input, c) /\ DstEnd(w) = EndOf(input, c)
      BY <3>1, BlockOfWave DEF LastSeq
    <3>3. /\ StartOf(input, c) \in Nat /\ EndOf(input, c) \in Nat /\ StartOf(input, c) <= EndOf(input, c)
          /\ input.litSize[c] \in Nat
          /\ SeqBeg(input, c) \in Nat /\ SeqEnd(input, c) \in Nat /\ SeqBeg(input, c) <= SeqEnd(input, c)
      BY <2>1, <3>2, CmpFacts
    <3>4. CASE reg[w].phase = "sequences"
      <4>1. /\ reg[w].seq \in SeqBeg(input, c) .. SeqEnd(input, c)
            /\ reg[w].dst = input.ref.at[c][reg[w].seq] /\ reg[w].lit = input.ref.lit[c][reg[w].seq]
        BY <3>1, <3>4 DEF PositionOK
      <4>2. /\ reg[w].dst \in Nat /\ reg[w].lit \in Nat
            /\ StartOf(input, c) <= reg[w].dst /\ reg[w].dst <= EndOf(input, c) /\ reg[w].lit <= input.litSize[c]
        BY <4>1, <2>1, <3>2, PositionInside
      <4>3. reg[w].lit \in 0 .. input.litSize[c] /\ reg[w].dst \in StartOf(input, c) .. EndOf(input, c)
        <5> HIDE DEF c
        <5> QED BY <3>3, <4>2
      <4> QED BY <3>2, <4>1, <4>3
    <3>5. CASE reg[w].phase = "rest"
      BY <3>1, <3>2, <3>3, <3>5 DEF PositionOK
    <3> QED BY <2>2, <2>3, <3>4, <3>5
  <2>4. ASSUME NEW w \in Waves
        PROVE  pass[w].lanes # {} => pass[w].lanes \subseteq Head(todo[w]).beg .. Head(todo[w]).end - 1
    BY ValueRight
  <2> QED BY <2>1, <2>2, <2>3, <2>4 DEF TypeOK, KernelInv, OutInv
<1> QED BY <1>1, Invariant, PTL

\* No byte that is written, or about to be, is other than the sequential decoder's.
THEOREM WritesSequential == Spec => []BytesSequential
<1>1. IInv => BytesSequential
  <2> SUFFICES ASSUME IInv PROVE BytesSequential
    OBVIOUS
  <2>1. \A p \in DOMAIN out : out[p] # Unwritten => p \in DOMAIN input.ref.content /\ out[p] = input.ref.content[p]
    BY DEF IInv, OutInv, Stored
  <2>2. \A w \in Waves : \A p \in pass[w].lanes : Value(w, Head(todo[w]), p) = input.ref.content[p]
    BY ValueRight
  <2> QED BY <2>1, <2>2 DEF BytesSequential
<1> QED BY <1>1, Invariant, PTL

\* Every compressed block has a wave.
LEMMA WaveOfBlock ==
  ASSUME NEW in \in Inputs, NEW c \in BlocksOf(in, "cmp")
  PROVE  \E w \in WavesOf(in) : c \in in.cmpFirst[w] .. CmpEnd(in, w) - 1
<1>1. /\ in.frameCount \in Nat /\ in.Frames \in 0 .. in.frameCount /\ in.blocks \in Nat
      /\ (in.blocks > 0 => in.Frames > 0) /\ in.blockCount["cmp"] \in Nat
      /\ in.cmpFirst \in [FramesOf(in) -> Nat] /\ in.cmpFirst[0] = 0
  BY InputOK DEF LayoutOK, Kinds
<1>2. c \in Nat /\ c < in.blockCount["cmp"]
  BY <1>1 DEF BlocksOf
<1>3. in.Frames > 0
  <2>1. CmpOf(in, c) \in Blocks(in)
    BY CmpFacts
  <2> QED BY <2>1, <1>1 DEF Blocks
<1> DEFINE n == in.Frames
           s == [f \in 0 .. n - 1 |-> in.cmpFirst[f]]
<1>4. n \in Nat /\ n > 0 /\ s \in [0 .. n - 1 -> Nat] /\ s[0] <= c
  BY <1>1, <1>2, <1>3 DEF FramesOf
<1>5. ASSUME NEW i \in 0 .. n - 1, i + 1 <= n - 1 PROVE s[i] <= s[i + 1]
  <2>1. i \in WavesOf(in) /\ i + 1 < in.Frames /\ i + 1 \in 0 .. n - 1
    BY <1>4, <1>5 DEF WavesOf
  <2>2. CmpEnd(in, i) = in.cmpFirst[i + 1]
    BY <2>1 DEF CmpEnd
  <2>3. in.cmpFirst[i] <= CmpEnd(in, i)
    BY <2>1, WaveFacts
  <2> QED BY <2>1, <2>2, <2>3
<1>6. \A f \in 0 .. n - 1 : s[f] = in.cmpFirst[f]
  OBVIOUS
<1> HIDE DEF n, s
<1>7. \A i, j \in 0 .. n - 1 : i <= j => s[i] <= s[j]
  <2>1. n - 1 \in Int
    BY <1>4
  <2>2. PICK z \in Int : z = n - 1
    BY <2>1
  <2>3. s \in [0 .. z -> Nat] /\ \A i \in 0 .. z : i + 1 <= z => s[i] <= s[i + 1]
    BY <2>2, <1>4, <1>5
  <2>4. \A i, j \in 0 .. z : i <= j => s[i] <= s[j]
    BY <2>3, Sorted
  <2> QED BY <2>2, <2>4
<1>8. LET r == BinarySearch(s, n, c)
      IN r \in 0 .. n - 1 /\ s[r] <= c /\ (r + 1 < n => c < s[r + 1])
  BY <1>2, <1>4, <1>7, BinarySearchFinds
<1>9. PICK w \in 0 .. n - 1 : s[w] <= c /\ (w + 1 < n => c < s[w + 1])
  BY <1>8
<1>10. w \in WavesOf(in)
  BY DEF n, WavesOf
<1>11. in.cmpFirst[w] <= c /\ in.cmpFirst[w] \in Nat /\ CmpEnd(in, w) \in Nat
  BY <1>6, <1>9, <1>10, WaveFacts
<1>12. c < CmpEnd(in, w)
  <2>1. CASE w + 1 < n
    <3>1. w + 1 \in 0 .. n - 1
      BY <2>1, <1>4
    <3>2. s[w + 1] = in.cmpFirst[w + 1] /\ c < s[w + 1]
      BY <3>1, <2>1, <1>6, <1>9
    <3> QED BY <3>2, <2>1 DEF CmpEnd, n
  <2>2. CASE ~ (w + 1 < n)
    BY <2>2, <1>2 DEF CmpEnd, n
  <2> QED BY <2>1, <2>2
<1>13. c \in in.cmpFirst[w] .. CmpEnd(in, w) - 1
  BY <1>2, <1>11, <1>12
<1> QED BY <1>10, <1>13

\* When the waves have ended no byte of any frame is missing.
THEOREM OutputComplete == Spec => []FramesComplete
<1>1. IInv => FramesComplete
  <2> SUFFICES ASSUME IInv, Ended, NEW p \in DOMAIN input.ref.content
               PROVE  out[p] = input.ref.content[p]
    BY DEF FramesComplete
  <2>1. input \in Inputs /\ kernel = "execute" /\ CopiedStored(input, out)
    BY DEF IInv, Ended, KernelInv
  <2> DEFINE d == input.ref.owner[p]
  <2>2. d \in Blocks(input) /\ p \in Extent(input, d)
    <3>1. PlacesOK(input)
      BY <2>1, InputOK
    <3> QED BY <3>1 DEF PlacesOK, Extent
  <2>3. PICK t \in Kinds : \E j \in BlocksOf(input, t) : input.blockIndex[t][j] = d
    BY <2>1, <2>2, InputOK DEF LayoutOK
  <2>4. PICK i \in BlocksOf(input, t) : input.blockIndex[t][i] = d
    BY <2>3
  <2>5. CASE t \in Copied
    BY <2>1, <2>2, <2>4, <2>5 DEF CopiedStored, Stored
  <2>6. CASE t = "cmp"
    <3>1. PICK w \in WavesOf(input) : i \in input.cmpFirst[w] .. CmpEnd(input, w) - 1
      BY <2>1, <2>4, <2>6, WaveOfBlock
    <3>2. w \in Waves
      BY DEF Waves, WavesOf
    <3>3. reg[w].cmp = CmpEnd(input, w)
      BY <3>2 DEF Ended
    <3>4. \A c \in input.cmpFirst[w] .. reg[w].cmp - 1 : \A q \in Extent(input, CmpOf(input, c)) : Stored(input, out, q)
      BY <3>2 DEF IInv, WaveInv
    <3> QED BY <3>1, <3>3, <3>4, <2>2, <2>4, <2>6 DEF CmpOf, Stored
  <2> QED BY <2>5, <2>6 DEF Kinds, Copied
<1> QED BY <1>1, Invariant, PTL

=============================================================================
