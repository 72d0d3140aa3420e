------------------------ MODULE ParseCompressedBlocks ------------------------
(***************************************************************************)
(* The ParseCompressedBlocks kernel: one thread per compressed block reads *)
(* the block's headers and finds room for what later kernels decode.  Some *)
(* places are given in block order (ordered appends, the look-back of      *)
(* PrefixSumLookback), others in whatever order the waves get to an atomic *)
(* counter: literal bytes, Huffman tables and FSE tables.  The kernels     *)
(* that follow have to find their way back from one numbering to another.  *)
(*                                                                         *)
(* One process per wave; one action per atomic whose result is used, with  *)
(* the counters nobody reads before the barrier added along.  Parsing of   *)
(* bits is abstracted: a block is what its headers say.                    *)
(***************************************************************************)
EXTENDS GroupSearch, FiniteSets, FiniteSetsExt

CONSTANTS
  NumBlocks,        \* compressedBlockCount
  WaveSize,         \* lanes of a wave
  RleTables,        \* kzstdgpu_FseRleTableCount
  LiteralsPerGroup, \* literal streams a group decodes
  Inputs,           \* records: blocks, what the headers say, and frameStart,
                    \* the number of compressed blocks before each frame
  None,             \* the word ~0
  Repeat            \* kzstdgpu_FseProbTableIndex_Repeat

Blocks   == 0 .. NumBlocks - 1
Waves    == 0 .. TgCount(NumBlocks, WaveSize) - 1
FseTypes == {"LLen", "Offs", "MLen"}

Lanes(w) == {b \in Blocks : b \div WaveSize = w}

\* tree: how the block's Huffman table is given; streams and size: of its
\* Huffman-compressed literals; seqs: its sequences; mode: of each FSE table.
Header == [tree : {"raw", "fse", "direct", "treeless"}, streams : {0, 1, 4},
           size : Nat, seqs : Nat,
           mode : [FseTypes -> {"default", "rle", "fse", "repeat"}]]

ASSUME ParametersAssumption ==
  /\ NumBlocks \in Nat \ {0} /\ WaveSize \in Nat \ {0} /\ RleTables \in Nat \ {0}
  /\ LiteralsPerGroup \in Nat \ {0}

ASSUME HeadersAssumption ==
  \A in \in Inputs :
    /\ in.blocks \in [Blocks -> Header]
    /\ \A b \in Blocks :
         /\ in.blocks[b].tree = "raw" <=> in.blocks[b].streams = 0
         \* below six bytes the size of a fourth stream would be negative
         /\ in.blocks[b].streams = 4 => in.blocks[b].size >= 6
         /\ in.blocks[b].tree = "treeless" =>
              \E a \in Blocks : a < b /\ in.blocks[a].tree \in {"fse", "direct"}
    /\ LET frames == DOMAIN in.frameStart
       IN /\ IsFiniteSet(frames) /\ 0 \in frames /\ in.frameStart[0] = 0
          /\ in.frameStart \in [0 .. Cardinality(frames) - 1 -> Nat]
          /\ \A f, g \in frames : f <= g => in.frameStart[f] <= in.frameStart[g]

ASSUME NoneAssumption == None \notin Nat

VARIABLES
  input,            \* the compressed blocks
  pc,               \* where each wave is
  counters,         \* inoutCounters[0]
  litStream,        \* each lane's hufLitStreamStart
  slot,             \* each lane's fseTableIndexHufW
  hufRefs,          \* HufRefs: the block whose weights are in the slot
  litRefs,          \* LitRefs: where each literal stream is decoded to
  hufWIdToHufLitId, \* memset to ~0 before
  hufLitIdToLitStreamId,
  seqStream,        \* each lane's seqStreamIndex
  fseIndex,         \* each lane's fseTableIndexLLen, Offs, MLen
  perSeqStream,     \* SeqStart, BlockId and FseIds of each sequence stream
  seqStreamMinIdx   \* PerFrameSeqStreamMinIdx, memset to ~0 before

literalVars  == <<litStream, slot, hufRefs, litRefs, hufWIdToHufLitId,
                  hufLitIdToLitStreamId>>
sequenceVars == <<seqStream, fseIndex, perSeqStream, seqStreamMinIdx>>

vars == <<input, pc, counters, literalVars, sequenceVars>>

Tree(b)  == input.blocks[b].tree
Frames   == DOMAIN input.frameStart

\* The lanes of a set for which a test of the header holds.
HasHuffman(S)   == {b \in S : Tree(b) # "raw"}
HasFseTree(S)   == {b \in S : Tree(b) = "fse"}
HasRawTree(S)   == {b \in S : Tree(b) = "direct"}
HufLits(S)      == HasFseTree(S) \cup HasRawTree(S)
HasSequences(S) == {b \in S : input.blocks[b].seqs > 0}
NewTables(S, t) == {b \in HasSequences(S) : input.blocks[b].mode[t] = "fse"}

Streams(S)   == MapThenSumSet(LAMBDA b : input.blocks[b].streams, S)
Bytes(S)     == MapThenSumSet(LAMBDA b : input.blocks[b].size, S)
Sequences(S) == MapThenSumSet(LAMBDA b : input.blocks[b].seqs, S)

\* A bug: an inclusive prefix.
MutBefore(S, b) == {a \in S : a <= b}

\* WavePrefixSum over the active lanes S; and, over all the blocks, what
\* zstdgpu_OrderedAppendIndex returns (PrefixSumLookback shows that it does).
Before(S, b) == {a \in S : a < b}

\* A bug: the chunks have no room for the default table.
MutComputeFseIndex(t, index) ==
  RleTables + index + (CASE t = "LLen" -> NumBlocks
                         [] t = "Offs" -> 2 * NumBlocks
                         [] t = "MLen" -> 3 * NumBlocks)

\* Every type has a chunk of NumBlocks + 1 tables; Huffman weights have the first.
ComputeFseIndex(t, index) ==
  RleTables + index + (CASE t = "LLen" -> NumBlocks
                         [] t = "Offs" -> 2 * NumBlocks + 1
                         [] t = "MLen" -> 3 * NumBlocks + 2)

------------------------------------------------------------------------------

Slots == 0 .. NumBlocks - 1

Init ==
  /\ input \in Inputs
  /\ pc = [w \in Waves |-> "streams"]
  /\ counters = [HUF_Streams |-> 0, DecodedBytes |-> 0, FseHufW |-> 0,
                 HUF_WgtStreams |-> 0, HufLit |-> 0, Seq_Streams |-> 0,
                 DecodedItems |-> 0, Fse |-> [t \in FseTypes |-> 1]]
  /\ litStream = [b \in Blocks |-> None]
  /\ slot = [b \in Blocks |-> None]
  /\ hufRefs = [s \in Slots |-> None]
  /\ litRefs = << >>
  /\ hufWIdToHufLitId = [s \in Slots |-> None]
  /\ hufLitIdToLitStreamId = << >>
  /\ seqStream = [b \in Blocks |-> None]
  /\ fseIndex = [b \in Blocks |-> [t \in FseTypes |-> None]]
  /\ perSeqStream = << >>
  /\ seqStreamMinIdx = [f \in Frames |-> None]

\* A look-back ends when every earlier wave has got as far and published.
Order == << "streams", "bytes", "fseTrees", "rawTrees", "hufLits", "sequences",
            "LLen", "Offs", "MLen", "finish", "done" >>
Rank(step) == CHOOSE i \in DOMAIN Order : Order[i] = step

Step(w, step) ==
  /\ pc[w] = step
  /\ pc' = [pc EXCEPT ![w] = Order[Rank(step) + 1]]
  /\ UNCHANGED input

OrderedStep(w, step) ==
  /\ Step(w, step)
  /\ \A v \in Waves : v < w => Rank(pc[v]) >= Rank(step)

\* Updates f at the lanes S.
Set(f, S, Value(_)) == [b \in DOMAIN f |-> IF b \in S THEN Value(b) ELSE f[b]]

AppendLitStreams(w) ==
  /\ OrderedStep(w, "streams")
  /\ litStream' = Set(litStream, Lanes(w), LAMBDA b : Streams(Before(Blocks, b)))
  /\ UNCHANGED <<counters, slot, hufRefs, litRefs, hufWIdToHufLitId,
                 hufLitIdToLitStreamId, sequenceVars>>

OwnStreams(b) == litStream[b] .. litStream[b] + input.blocks[b].streams - 1

\* The streams of a block with four of them have the sizes the code gives them.
LiteralRange(b, offs, s) ==
  LET i == s - litStream[b]
      size == input.blocks[b].size
      quarter == (size + 3) \div 4
  IN [offs |-> offs + i * quarter,
      size |-> IF i < input.blocks[b].streams - 1 THEN quarter ELSE size - i * quarter]

Merge(f, g) == [x \in DOMAIN f \cup DOMAIN g |-> IF x \in DOMAIN g THEN g[x] ELSE f[x]]

\* Room for the decoded bytes, in the order the waves arrive.
AllocLiteralBytes(w) ==
  LET H == HasHuffman(Lanes(w))
      Offs(b) == counters.DecodedBytes + Bytes(Before(H, b))
      new == [s \in UNION {OwnStreams(b) : b \in H} |->
                LET b == CHOOSE c \in H : s \in OwnStreams(c)
                IN LiteralRange(b, Offs(b), s)]
  IN /\ Step(w, "bytes")
     /\ counters' = [counters EXCEPT !.HUF_Streams = @ + Streams(H),
                                     !.DecodedBytes = @ + Bytes(H)]
     /\ litRefs' = Merge(litRefs, new)
     /\ UNCHANGED <<litStream, slot, hufRefs, hufWIdToHufLitId,
                    hufLitIdToLitStreamId, sequenceVars>>

StoreWeights(S, SlotOf(_)) ==
  /\ slot' = Set(slot, S, SlotOf)
  /\ hufRefs' = [s \in Slots |-> IF \E b \in S : SlotOf(b) = s
                                   THEN CHOOSE b \in S : SlotOf(b) = s ELSE hufRefs[s]]
  /\ UNCHANGED <<litStream, litRefs, hufWIdToHufLitId, hufLitIdToLitStreamId,
                 sequenceVars>>

\* FSE-compressed weights take the slots from the bottom ...
AllocFseTrees(w) ==
  LET T == HasFseTree(Lanes(w))
  IN /\ Step(w, "fseTrees")
     /\ counters' = [counters EXCEPT !.FseHufW = @ + Cardinality(T)]
     /\ StoreWeights(T, LAMBDA b : counters.FseHufW + Cardinality(Before(T, b)))

\* Bugs: one slot above the top; from the bottom as well.
MutRawTreeSlot(n)  == NumBlocks - n
MutRawTreeSlotUp(n) == n

RawTreeSlot(n) == NumBlocks - 1 - n

\* ... and uncompressed weights from the top.
AllocRawTrees(w) ==
  LET T == HasRawTree(Lanes(w))
  IN /\ Step(w, "rawTrees")
     /\ counters' = [counters EXCEPT !.HUF_WgtStreams = @ + Cardinality(T)]
     /\ StoreWeights(T, LAMBDA b : RawTreeSlot(counters.HUF_WgtStreams
                                           + Cardinality(Before(T, b))))

\* A bug: they are numbered in the order of arrival.
MutHufLitId(w, b) == counters.HufLit + Cardinality(Before(HufLits(Lanes(w)), b))

HufLitId(w, b) == Cardinality(Before(HufLits(Blocks), b))

\* Literals with a table of their own are numbered in block order; the table's
\* slot leads to that number, and the number to the first stream.
AppendHufLits(w) ==
  LET T == HufLits(Lanes(w))
      Id(b) == HufLitId(w, b)
  IN /\ OrderedStep(w, "hufLits")
     /\ counters' = [counters EXCEPT !.HufLit = @ + Cardinality(T)]
     /\ hufWIdToHufLitId' =
          [s \in Slots |-> IF \E b \in T : slot[b] = s
                             THEN Id(CHOOSE b \in T : slot[b] = s)
                             ELSE hufWIdToHufLitId[s]]
     /\ hufLitIdToLitStreamId' =
          Merge(hufLitIdToLitStreamId,
                [id \in {Id(b) : b \in T} |-> litStream[CHOOSE b \in T : Id(b) = id]])
     /\ UNCHANGED <<litStream, slot, hufRefs, litRefs, sequenceVars>>

AppendSequences(w) ==
  LET T == HasSequences(Lanes(w))
  IN /\ OrderedStep(w, "sequences")
     /\ counters' = [counters EXCEPT !.Seq_Streams = @ + Cardinality(T),
                                     !.DecodedItems = @ + Sequences(T)]
     /\ seqStream' = Set(seqStream, T,
                         LAMBDA b : Cardinality(Before(HasSequences(Blocks), b)))
     /\ UNCHANGED <<literalVars, fseIndex, perSeqStream, seqStreamMinIdx>>

\* The table of one type.  An RLE table is the one of its symbol (here 0);
\* a Repeat is left to PropagateFseIndex.
AllocFseTables(w, t) ==
  LET T == NewTables(Lanes(w), t)
      Index(b) == LET mode == input.blocks[b].mode[t]
                  IN CASE mode = "fse" -> ComputeFseIndex(t, counters.Fse[t]
                                                            + Cardinality(Before(T, b)))
                       [] mode = "default" -> ComputeFseIndex(t, 0)
                       [] mode = "rle" -> 0
                       [] mode = "repeat" -> Repeat
  IN /\ Step(w, t)
     /\ counters' = [counters EXCEPT !.Fse[t] = @ + Cardinality(T)]
     /\ fseIndex' = Set(fseIndex, HasSequences(Lanes(w)),
                        LAMBDA b : [fseIndex[b] EXCEPT ![t] = Index(b)])
     /\ UNCHANGED <<literalVars, seqStream, perSeqStream, seqStreamMinIdx>>

\* A bug: the first block of a frame is taken for the last of the one before.
MutFrameOf(b) == Bisect(Cardinality(Frames), {m \in Frames : input.frameStart[m] < b})

FrameOf(b) == BinarySearch(input.frameStart, Cardinality(Frames), b)

\* The rest of what a sequence stream needs, and the first stream of the frame.
\* (The code stores the index of the block among all the blocks, which grows
\* with b.)
FinishSequences(w) ==
  LET T == HasSequences(Lanes(w))
      new == [s \in {seqStream[b] : b \in T} |->
                LET b == CHOOSE c \in T : seqStream[c] = s
                IN [start |-> Sequences(Before(Blocks, b)), block |-> b,
                    fseIds |-> fseIndex[b]]]
      Candidates(f) == {seqStream[b] : b \in {c \in T : FrameOf(c) = f}}
                         \cup ({seqStreamMinIdx[f]} \ {None})
  IN /\ Step(w, "finish")
     /\ perSeqStream' = Merge(perSeqStream, new)
     /\ seqStreamMinIdx' = [f \in Frames |-> IF Candidates(f) = {} THEN None
                                             ELSE Min(Candidates(f))]
     /\ UNCHANGED <<counters, literalVars, seqStream, fseIndex>>

Next ==
  \E w \in Waves :
    \/ AppendLitStreams(w)
    \/ AllocLiteralBytes(w)
    \/ AllocFseTrees(w)
    \/ AllocRawTrees(w)
    \/ AppendHufLits(w)
    \/ AppendSequences(w)
    \/ \E t \in FseTypes : AllocFseTables(w, t)
    \/ FinishSequences(w)

Safety == Init /\ [][Next]_vars

Spec == Safety /\ WF_vars(Next)

------------------------------------------------------------------------------
(* What the kernels behind the barrier make of it. *)

\* ComputePrefixSum: the groups that decode the literals of each table ...
StreamsOfHufLit(id) ==
  (IF id + 1 < counters.HufLit THEN hufLitIdToLitStreamId[id + 1]
                               ELSE counters.HUF_Streams) - hufLitIdToLitStreamId[id]

StreamsOfSlot(s) ==
  IF hufWIdToHufLitId[s] = None THEN 0 ELSE StreamsOfHufLit(hufWIdToHufLitId[s])

\* ... and their inclusive prefix sum, which sizes the dispatch.
LitGroupEnd ==
  [s \in Slots |-> MapThenSumSet(LAMBDA r : TgCount(StreamsOfSlot(r), LiteralsPerGroup),
                                 0 .. s)]

Groups == 0 .. LitGroupEnd[NumBlocks - 1] - 1

SlotOf(g) == SlotOfGroup(LitGroupEnd, NumBlocks, g)

\* DecompressLiterals: the streams that the threads of a group decode, with
\* the table in the group's slot.
StreamsOfGroup(g) ==
  LET s == SlotOf(g)
      first == (g - (IF s > 0 THEN LitGroupEnd[s - 1] ELSE 0)) * LiteralsPerGroup
      remain == Min({StreamsOfSlot(s) - first, LiteralsPerGroup})
      start == hufLitIdToLitStreamId[hufWIdToHufLitId[s]]
  IN start + first .. start + first + remain - 1

------------------------------------------------------------------------------

Done == \A w \in Waves : pc[w] = "done"

TypeOK ==
  /\ input.blocks \in [Blocks -> Header]
  /\ pc \in [Waves -> {Order[i] : i \in DOMAIN Order}]
  /\ \A c \in DOMAIN counters \ {"Fse"} : counters[c] \in Nat
  /\ litStream \in [Blocks -> Nat \cup {None}]
  /\ slot \in [Blocks -> Slots \cup {None}]
  /\ hufRefs \in [Slots -> Blocks \cup {None}]
  /\ hufWIdToHufLitId \in [Slots -> Nat \cup {None}]
  /\ seqStream \in [Blocks -> Nat \cup {None}]
  /\ seqStreamMinIdx \in [Frames -> Nat \cup {None}]

\* Tables taken from the two ends of one array never meet: the weights of a
\* block stay in the slot they were put in.
HuffmanSlotsDisjoint ==
  \A b \in Blocks : slot[b] # None => hufRefs[slot[b]] = b

\* At any time, whatever the order of the waves, the bytes given to two literal
\* streams do not overlap, and none reaches beyond the bytes counted.
LiteralRangesDisjoint ==
  \A s, t \in DOMAIN litRefs :
    /\ litRefs[s].size >= 0 /\ litRefs[s].offs + litRefs[s].size <= counters.DecodedBytes
    /\ s # t => \/ litRefs[s].offs + litRefs[s].size <= litRefs[t].offs
                \/ litRefs[t].offs + litRefs[t].size <= litRefs[s].offs

\* The block whose table the literals of b are compressed with.
TableOwner(b) ==
  CHOOSE a \in HufLits(Blocks) :
    a <= b /\ \A c \in HufLits(Blocks) : c <= b => c <= a

\* Every stream is decoded by exactly one thread, with the table of its own
\* block or, if it is treeless, of the last block before that has one, although
\* slots are in the order of arrival and streams in block order.
LiteralsDecodedOnceWithTheirTable ==
  Done =>
    /\ \A b \in HasHuffman(Blocks), i \in 0 .. 3 :
         i < input.blocks[b].streams =>
           /\ litStream[b] + i \in DOMAIN litRefs
           /\ \E g \in Groups :
                /\ {h \in Groups : litStream[b] + i \in StreamsOfGroup(h)} = {g}
                /\ hufRefs[SlotOf(g)] = TableOwner(b)
    /\ \A g \in Groups : StreamsOfGroup(g) \subseteq DOMAIN litRefs

\* The FSE tables of two blocks are never the same one, of any type; none is a
\* default or an RLE table, and all are inside FseInfos.
FseTablesDisjoint ==
  LET Fse(b, t) == b \in NewTables(Blocks, t) /\ fseIndex[b][t] # None
  IN \A b, c \in Blocks : \A t, u \in FseTypes :
       Fse(b, t) =>
         /\ fseIndex[b][t] \in RleTables .. RleTables + 4 * NumBlocks + 2
         /\ fseIndex[b][t] # ComputeFseIndex(u, 0)
         /\ Fse(c, u) /\ <<b, t>> # <<c, u>> => fseIndex[b][t] # fseIndex[c][u]
         /\ slot[c] # None => fseIndex[b][t] # RleTables + slot[c]

\* The sequence streams are the blocks with sequences, in block order; they
\* share out the items without a gap; and each frame knows its first one.
SequenceStreamsInOrder ==
  Done =>
    /\ DOMAIN perSeqStream = 0 .. counters.Seq_Streams - 1
    /\ \A s \in DOMAIN perSeqStream :
         LET last == s + 1 = counters.Seq_Streams
             end == IF last THEN counters.DecodedItems ELSE perSeqStream[s + 1].start
             b == perSeqStream[s].block
         IN /\ end - perSeqStream[s].start = input.blocks[b].seqs
            /\ ~last => b < perSeqStream[s + 1].block
    /\ {perSeqStream[s].block : s \in DOMAIN perSeqStream} = HasSequences(Blocks)
    /\ \A f \in Frames :
         LET own == {s \in DOMAIN perSeqStream :
                       /\ perSeqStream[s].block >= input.frameStart[f]
                       /\ f + 1 \in Frames =>
                            perSeqStream[s].block < input.frameStart[f + 1]}
         IN seqStreamMinIdx[f] = (IF own = {} THEN None ELSE Min(own))

==============================================================================
