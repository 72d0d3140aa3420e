---------------------------- MODULE BlockOutput ----------------------------
(***************************************************************************)
(* The kernels that write the decompressed bytes of a request:             *)
(*   ComputeDestBlockOffsets   where each block goes, a thread per block;  *)
(*   MemsetMemcpy              raw and RLE blocks, a thread per byte;      *)
(*   ExecuteSequences          compressed blocks, one wave per frame.      *)
(* A wave copies a sequence in passes of LaneCount bytes, one per lane, as *)
(* many sequences at once as the distances allow: a match may reach into   *)
(* bytes that the wave itself has just written.                            *)
(*                                                                         *)
(* The lanes of a pass take effect in any order; a pass ends before the    *)
(* next one starts.  Bytes are opaque: which literal, which raw byte.      *)
(***************************************************************************)
EXTENDS GroupSearch, Sequences

CONSTANTS
  LaneCount,   \* lanes of a wave of ExecuteSequences
  Inputs       \* requests: what the kernels before these leave, see LayoutOK,
               \* and ref, what a sequential decoder does with the same frames

ASSUME LaneAssumption == LaneCount \in Nat \ {0}

Kinds == {"raw", "rle", "cmp"}
NoStream  == -1                    \* ~0, no sequences
NoOffset  == -1                    \* a destination not yet computed
Unwritten == <<"unwritten", 0, 0>> \* a byte not yet written

Least2(a, b) == IF a < b THEN a ELSE b

\* A byte: the k-th of the i-th raw block, of the i-th RLE block, of the
\* literals of the i-th compressed block.
Byte(t, i, k)       == <<t, i, IF t = "rle" THEN 0 ELSE k>>
Literal(in, c, k)   == <<"cmp", c, IF in.litType[c] = "rle" THEN 0 ELSE k>>

\* From the inclusive prefix of the block sizes.
BlockOfs(in, b)  == IF b > 0 THEN in.blockSizePrefix[b - 1] ELSE 0
BlockSize(in, b) == in.blockSizePrefix[b] - BlockOfs(in, b)

Blocks(in)     == 0 .. in.blocks - 1
BlocksOf(in, t) == 0 .. in.blockCount[t] - 1
FramesOf(in)   == 0 .. in.frameCount - 1

\* A bug: the last wave takes the blocks of one frame, as the others do.
MutCmpEnd(in, w) ==
  IF w + 1 < in.frameCount THEN in.cmpFirst[w + 1] ELSE in.blockCount["cmp"]

\* The compressed blocks of a wave: the last one takes all that are left.
CmpEnd(in, w) == IF w + 1 < in.Frames THEN in.cmpFirst[w + 1] ELSE in.blockCount["cmp"]

\* The sequences of a compressed block.
SeqBeg(in, c) == IF in.stream[c] = NoStream THEN 0 ELSE in.seqStart[in.stream[c]]
SeqEnd(in, c) ==
  CASE in.stream[c] = NoStream -> 0
    [] in.stream[c] # NoStream /\ in.stream[c] + 1 = in.streams -> in.sequences
    [] in.stream[c] # NoStream /\ in.stream[c] + 1 # in.streams -> in.seqStart[in.stream[c] + 1]

\* The frames given, of which Frames begin as a frame of zstd does; the first
\* block of each, among all the blocks and among the compressed ones; and
\* the blocks of each kind, in order.
LayoutOK(in) ==
  /\ in.frameCount \in Nat \ {0} /\ in.blocks \in Nat
  /\ in.Frames \in 0 .. in.frameCount /\ (in.blocks > 0 => in.Frames > 0)
  /\ in.blockCount \in [Kinds -> Nat]
  /\ in.first \in [FramesOf(in) -> Nat] /\ in.first[0] = 0
  /\ in.cmpFirst \in [FramesOf(in) -> Nat] /\ in.cmpFirst[0] = 0
  /\ \A f \in FramesOf(in) \ {0} : in.first[f - 1] <= in.first[f]
  /\ \A t \in Kinds : in.blockIndex[t] \in [BlocksOf(in, t) -> Blocks(in)]
  /\ \A b \in Blocks(in) : \E t \in Kinds : \E i \in BlocksOf(in, t) : in.blockIndex[t][i] = b
  /\ \A t, u \in Kinds : \A i \in BlocksOf(in, t), j \in BlocksOf(in, u) :
       in.blockIndex[t][i] = in.blockIndex[u][j] => t = u /\ i = j
  /\ \A c, d \in BlocksOf(in, "cmp") :
       c < d => in.blockIndex["cmp"][c] < in.blockIndex["cmp"][d]
  /\ \A f \in FramesOf(in) :
       /\ in.cmpFirst[f] <= in.blockCount["cmp"]
       /\ \A c \in BlocksOf(in, "cmp") :
            in.cmpFirst[f] <= c <=> in.first[f] <= in.blockIndex["cmp"][c]

\* The prefixes over sizes: inclusive over all blocks, exclusive over the bytes
\* of the raw and of the RLE blocks.
SizesOK(in) ==
  /\ in.blockSizePrefix \in [Blocks(in) -> Nat]
  /\ \A b \in Blocks(in) : BlockSize(in, b) \in Nat
  /\ \A t \in {"raw", "rle"} :
       /\ in.bytesPrefix[t] \in [BlocksOf(in, t) -> Nat] /\ in.bytes[t] \in Nat
       /\ in.blockCount[t] = 0 => in.bytes[t] = 0
       /\ in.blockCount[t] > 0 => in.bytesPrefix[t][0] = 0
       /\ \A i \in BlocksOf(in, t) :
            in.bytesPrefix[t][i] + BlockSize(in, in.blockIndex[t][i]) =
              IF i + 1 < in.blockCount[t] THEN in.bytesPrefix[t][i + 1] ELSE in.bytes[t]

\* Literals and sequences of the compressed blocks.
SequencesOK(in) ==
  /\ in.streams \in Nat /\ in.sequences \in Nat
  /\ in.seqStart \in [0 .. in.streams - 1 -> 0 .. in.sequences]
  /\ in.seqs \in [0 .. in.sequences - 1 -> [llen : Nat, mlen : Nat, offs : Nat \ {0}]]
  /\ \A c \in BlocksOf(in, "cmp") :
       /\ in.litSize[c] \in Nat /\ in.litType[c] \in Kinds
       /\ in.stream[c] \in {NoStream} \cup (0 .. in.streams - 1)
       /\ SeqBeg(in, c) <= SeqEnd(in, c)

------------------------------------------------------------------------------
(* The sequential decoder: the frame of each block and where it starts; the *)
(* bytes of the output, and the block each belongs to; where the output and *)
(* the literals are before each sequence of a block and after the last one. *)

PlacesOK(in) ==
  /\ in.frameOffs \in [FramesOf(in) -> Nat]
  /\ in.ref.frame \in [Blocks(in) -> FramesOf(in)]
  /\ in.ref.start \in [Blocks(in) -> Nat]
  /\ in.outSize \in Nat /\ DOMAIN in.ref.content \subseteq 0 .. in.outSize - 1
  /\ in.ref.owner \in [DOMAIN in.ref.content -> Blocks(in)]
  /\ \A b \in Blocks(in) :
       /\ \A f \in FramesOf(in) :
            in.ref.frame[b] = f <=>
              /\ in.first[f] <= b
              /\ f + 1 < in.frameCount => b < in.first[f + 1]
       /\ in.ref.start[b] = IF in.first[in.ref.frame[b]] = b
                              THEN in.frameOffs[in.ref.frame[b]]
                              ELSE in.ref.start[b - 1] + BlockSize(in, b - 1)
       /\ \A p \in in.ref.start[b] .. in.ref.start[b] + BlockSize(in, b) - 1 :
            p \in DOMAIN in.ref.content /\ in.ref.owner[p] = b
  /\ \A p \in DOMAIN in.ref.content :
       LET b == in.ref.owner[p]
       IN p \in in.ref.start[b] .. in.ref.start[b] + BlockSize(in, b) - 1

\* Whether block b may reach back to byte q.
Reaches(in, b, q) ==
  /\ q \in DOMAIN in.ref.content
  /\ in.ref.frame[in.ref.owner[q]] = in.ref.frame[b]
  /\ in.ref.owner[q] <= b

ContentOK(in) ==
  /\ \A t \in {"raw", "rle"} : \A i \in BlocksOf(in, t) :
       LET b == in.blockIndex[t][i]
       IN \A k \in 0 .. BlockSize(in, b) - 1 : in.ref.content[in.ref.start[b] + k] = Byte(t, i, k)
  /\ \A c \in BlocksOf(in, "cmp") :
       LET b   == in.blockIndex["cmp"][c]
           at  == in.ref.at[c]
           lit == in.ref.lit[c]
       IN /\ at \in [SeqBeg(in, c) .. SeqEnd(in, c) -> Nat]
          /\ lit \in [SeqBeg(in, c) .. SeqEnd(in, c) -> Nat]
          /\ at[SeqBeg(in, c)] = in.ref.start[b] /\ lit[SeqBeg(in, c)] = 0
          /\ \A i \in SeqBeg(in, c) .. SeqEnd(in, c) - 1 :
               LET s == in.seqs[i]
               IN /\ at[i + 1] = at[i] + s.llen + s.mlen
                  /\ lit[i + 1] = lit[i] + s.llen
                  /\ at[i + 1] <= in.ref.start[b] + BlockSize(in, b)
                  /\ \A k \in 0 .. s.llen - 1 :
                       in.ref.content[at[i] + k] = Literal(in, c, lit[i] + k)
                  /\ \A p \in at[i] + s.llen .. at[i + 1] - 1 :
                       /\ Reaches(in, b, p - s.offs)
                       /\ in.ref.content[p] = in.ref.content[p - s.offs]
          /\ \A k \in 0 .. in.litSize[c] - lit[SeqEnd(in, c)] - 1 :
               in.ref.content[at[SeqEnd(in, c)] + k] = Literal(in, c, lit[SeqEnd(in, c)] + k)
          /\ lit[SeqEnd(in, c)] <= in.litSize[c]
          /\ in.ref.start[b] + BlockSize(in, b)
               = at[SeqEnd(in, c)] + in.litSize[c] - lit[SeqEnd(in, c)]

ASSUME InputsAssumption ==
  \A in \in Inputs : LayoutOK(in) /\ SizesOK(in) /\ SequencesOK(in) /\ PlacesOK(in) /\ ContentOK(in)

VARIABLES
  input,     \* the request
  kernel,    \* the kernel that runs: "dest", "fill" or "execute"
  ran,       \* the threads of it that have ended
  destOffs,  \* BlockDestOffs
  out,       \* UnCompressedFramesData
  reg,       \* of each wave: phase, cmpBlockIdx, seqIdx, dstOfs, litOfs
  todo,      \* of each wave: the copies it is about to make, see Copy
  pass       \* of each wave, in the first of them: bytes begun (done), lanes of
             \* the pass that have not stored, what the lanes latched

vars == <<input, kernel, ran, destOffs, out, reg, todo, pass>>

Waves     == 0 .. input.Frames - 1
CmpBlock(w) == input.blockIndex["cmp"][reg[w].cmp]
DstEnd(w) == destOffs[CmpBlock(w)] + BlockSize(input, CmpBlock(w))
LastSeq(w) == SeqEnd(input, reg[w].cmp)

Fresh == [done |-> 0, lanes |-> {}, latch |-> <<>>]

Init ==
  /\ input \in Inputs
  /\ kernel = "dest" /\ ran = {}
  /\ destOffs = [b \in Blocks(input) |-> NoOffset]
  /\ out = [p \in 0 .. input.outSize - 1 |-> Unwritten]
  /\ reg = [w \in Waves |-> [phase |-> "between", cmp |-> input.cmpFirst[w],
                             seq |-> 0, dst |-> 0, lit |-> 0]]
  /\ todo = [w \in Waves |-> <<>>]
  /\ pass = [w \in Waves |-> Fresh]

DestOffset(b) ==
  LET f == BinarySearch(input.first, input.frameCount, b)
  IN input.frameOffs[f] + BlockOfs(input, b) - BlockOfs(input, input.first[f])

ComputeDestBlockOffset(b) ==
  /\ kernel = "dest" /\ b \notin ran
  /\ ran' = ran \cup {b}
  /\ destOffs' = [destOffs EXCEPT ![b] = DestOffset(b)]
  /\ UNCHANGED <<input, kernel, out, reg, todo, pass>>

\* The thread of byte i of the raw, or of the RLE, blocks.
Fill(t, i) ==
  LET r == BinarySearch(input.bytesPrefix[t], input.blockCount[t], i)
      k == i - input.bytesPrefix[t][r]
      b == input.blockIndex[t][r]
  IN /\ kernel = "fill" /\ <<t, i>> \notin ran
     /\ ran' = ran \cup {<<t, i>>}
     /\ out' = IF k >= BlockSize(input, b) THEN out
               ELSE [out EXCEPT ![destOffs[b] + k] = Byte(t, r, k)]
     /\ UNCHANGED <<input, kernel, destOffs, reg, todo, pass>>

\* The threads of a kernel that have to end before the barrier after it.
Threads(k) ==
  IF k = "dest" THEN Blocks(input)
  ELSE UNION {{<<t, i>> : i \in 0 .. input.bytes[t] - 1} : t \in {"raw", "rle"}}

Barrier(this, next) ==
  /\ kernel = this /\ ran = Threads(this)
  /\ kernel' = next /\ ran' = {}
  /\ UNCHANGED <<input, destOffs, out, reg, todo, pass>>

StartFill    == Barrier("dest", "fill")
StartExecute == Barrier("fill", "execute")

------------------------------------------------------------------------------
(* A copy fills [beg, end).  Each byte comes from a literal (lit says which), *)
(* from the output that many bytes back (back), or, when latch > 0, from the  *)
(* latch bytes before beg, repeated, which the lanes read beforehand.         *)

\* zstdgpu_MemCpy_DstSrc, and zstdgpu_MemSet for RLE literals.
CopyLiterals(dst, lit, n, end) ==
  LET last == Least2(dst + n, end)
  IN [beg |-> dst, end |-> last, lit |-> [p \in dst .. last - 1 |-> lit + p - dst],
      back |-> <<>>, latch |-> 0]

FarEnough(s) == s.offs >= Least2(LaneCount, s.mlen)

MatchCopy(dst, s, end) ==
  LET last == Least2(dst + s.mlen, end)
  IN IF FarEnough(s)
       THEN [beg |-> dst, end |-> last, lit |-> <<>>,
             back |-> [p \in dst .. last - 1 |-> s.offs], latch |-> 0]
       ELSE [beg |-> dst, end |-> last, lit |-> <<>>, back |-> <<>>, latch |-> s.offs]

Total(s) == s.llen + s.mlen

\* The literals and the match of a sequence in one pass.
Fused(dst, lit, s) ==
  [beg |-> dst, end |-> dst + Total(s),
   lit  |-> [p \in dst .. dst + s.llen - 1 |-> lit + p - dst],
   back |-> [p \in dst + s.llen .. dst + Total(s) - 1 |-> s.offs], latch |-> 0]

\* zstdgpu_ExecuteSequence_FusedCopy
Execute(dst, lit, s, end) ==
  IF s.offs >= Total(s) /\ Total(s) <= LaneCount /\ dst + Total(s) <= end
    THEN <<Fused(dst, lit, s)>>
    ELSE <<CopyLiterals(dst, lit, s.llen, end), MatchCopy(dst + s.llen, s, end)>>

\* Two sequences in one pass, or in two: both tiers of the code.
FusedPair(dst, lit, s, t) ==
  LET mid == dst + Total(s)
      end == mid + Total(t)
  IN [beg |-> dst, end |-> end,
      lit  |-> [p \in (dst .. dst + s.llen - 1) \cup (mid .. mid + t.llen - 1) |->
                  IF p < mid THEN lit + p - dst ELSE lit + s.llen + p - mid],
      back |-> [p \in (dst + s.llen .. mid - 1) \cup (mid + t.llen .. end - 1) |->
                  IF p < mid THEN s.offs ELSE t.offs],
      latch |-> 0]

\* A bug: the second match may reach into what the first one writes.
MutPairFits(dst, s, t, end) ==
  /\ Total(s) + Total(t) <= 2 * LaneCount
  /\ s.offs >= Total(s) /\ t.offs >= Total(t)
  /\ dst + Total(s) + Total(t) <= end

PairFits(dst, s, t, end) ==
  /\ Total(s) + Total(t) <= 2 * LaneCount
  /\ s.offs >= Total(s) /\ t.offs >= Total(s) + Total(t)
  /\ dst + Total(s) + Total(t) <= end

\* zstdgpu_ExecuteSequencePair_FusedCopy
ExecutePair(dst, lit, s, t, end) ==
  IF PairFits(dst, s, t, end)
    THEN <<FusedPair(dst, lit, s, t)>>
    ELSE Execute(dst, lit, s, end) \o Execute(dst + Total(s), lit + s.llen, t, end)

------------------------------------------------------------------------------
(* The loops of ExecuteSequences: over blocks, over sequences. *)

InPhase(w, phase) ==
  /\ kernel = "execute" /\ todo[w] = <<>>
  /\ reg[w].phase = phase /\ reg[w].cmp < CmpEnd(input, w)

\* A bug: the literals go on where those of the block before ended.
MutLoadBlock(w) ==
  /\ InPhase(w, "between")
  /\ reg' = [reg EXCEPT ![w].phase = "sequences", ![w].seq = SeqBeg(input, reg[w].cmp),
                        ![w].dst = destOffs[CmpBlock(w)]]
  /\ UNCHANGED <<input, kernel, ran, destOffs, out, todo, pass>>

LoadBlock(w) ==
  /\ InPhase(w, "between")
  /\ reg' = [reg EXCEPT ![w].phase = "sequences", ![w].seq = SeqBeg(input, reg[w].cmp),
                        ![w].dst = destOffs[CmpBlock(w)], ![w].lit = 0]
  /\ UNCHANGED <<input, kernel, ran, destOffs, out, todo, pass>>

\* zstdgpu_ExecuteSequences_Lit takes two sequences at a time; one that is left
\* over, and those of a block with RLE literals, are taken alone.
LoadPair(w) ==
  LET r == reg[w]
      s == input.seqs[r.seq]
      t == input.seqs[r.seq + 1]
  IN /\ InPhase(w, "sequences")
     /\ input.litType[r.cmp] # "rle" /\ r.seq + 1 < LastSeq(w)
     /\ todo' = [todo EXCEPT ![w] = ExecutePair(r.dst, r.lit, s, t, DstEnd(w))]
     /\ reg' = [reg EXCEPT ![w].seq = @ + 2, ![w].dst = @ + Total(s) + Total(t),
                           ![w].lit = @ + s.llen + t.llen]
     /\ UNCHANGED <<input, kernel, ran, destOffs, out, pass>>

LoadOne(w) ==
  LET r == reg[w]
      s == input.seqs[r.seq]
  IN /\ InPhase(w, "sequences")
     /\ r.seq < LastSeq(w) /\ (input.litType[r.cmp] = "rle" \/ r.seq + 1 = LastSeq(w))
     /\ todo' = [todo EXCEPT ![w] =
                   IF input.litType[r.cmp] = "rle"
                     THEN <<CopyLiterals(r.dst, r.lit, s.llen, DstEnd(w)),
                            MatchCopy(r.dst + s.llen, s, DstEnd(w))>>
                     ELSE Execute(r.dst, r.lit, s, DstEnd(w))]
     /\ reg' = [reg EXCEPT ![w].seq = @ + 1, ![w].dst = @ + Total(s), ![w].lit = @ + s.llen]
     /\ UNCHANGED <<input, kernel, ran, destOffs, out, pass>>

\* The literals after the last sequence.
Rest(w) == input.litSize[reg[w].cmp] - reg[w].lit

LoadRest(w) ==
  LET r == reg[w]
  IN /\ InPhase(w, "sequences")
     /\ r.seq = LastSeq(w)
     /\ todo' = [todo EXCEPT ![w] = <<CopyLiterals(r.dst, r.lit, Rest(w), DstEnd(w))>>]
     /\ reg' = [reg EXCEPT ![w].phase = "rest", ![w].dst = @ + Rest(w), ![w].lit = @ + Rest(w)]
     /\ UNCHANGED <<input, kernel, ran, destOffs, out, pass>>

EndBlock(w) ==
  /\ InPhase(w, "rest")
  /\ reg' = [reg EXCEPT ![w].phase = "between", ![w].cmp = @ + 1]
  /\ UNCHANGED <<input, kernel, ran, destOffs, out, todo, pass>>

\* The lanes of a match shorter than a pass's reach back read what they repeat.
Latch(w) ==
  LET c == Head(todo[w])
  IN /\ todo[w] # <<>> /\ c.latch > 0 /\ pass[w] = Fresh
     /\ pass' = [pass EXCEPT ![w].latch = [j \in 0 .. c.latch - 1 |-> out[c.beg - c.latch + j]]]
     /\ UNCHANGED <<input, kernel, ran, destOffs, out, reg, todo>>

StartPass(w) ==
  LET c     == Head(todo[w])
      first == c.beg + pass[w].done
      last  == Least2(first + LaneCount, c.end)
  IN /\ todo[w] # <<>> /\ pass[w].lanes = {}
     /\ first < c.end
     /\ c.latch > 0 => pass[w].latch # <<>>
     /\ pass' = [pass EXCEPT ![w].done = last - c.beg, ![w].lanes = first .. last - 1]
     /\ UNCHANGED <<input, kernel, ran, destOffs, out, reg, todo>>

\* What a lane stores in byte p of copy c.
Value(w, c, p) ==
  CASE p \in DOMAIN c.lit -> Literal(input, reg[w].cmp, c.lit[p])
    [] p \notin DOMAIN c.lit /\ c.latch > 0 -> pass[w].latch[(p - c.beg) % c.latch]
    [] p \notin DOMAIN c.lit /\ c.latch = 0 -> out[p - c.back[p]]

Lane(w, p) ==
  /\ todo[w] # <<>> /\ p \in pass[w].lanes
  /\ out' = [out EXCEPT ![p] = Value(w, Head(todo[w]), p)]
  /\ pass' = [pass EXCEPT ![w].lanes = @ \ {p}]
  /\ UNCHANGED <<input, kernel, ran, destOffs, reg, todo>>

EndCopy(w) ==
  /\ todo[w] # <<>> /\ pass[w].lanes = {}
  /\ Head(todo[w]).beg + pass[w].done >= Head(todo[w]).end
  /\ todo' = [todo EXCEPT ![w] = Tail(@)]
  /\ pass' = [pass EXCEPT ![w] = Fresh]
  /\ UNCHANGED <<input, kernel, ran, destOffs, out, reg>>

Wave(w) ==
  \/ LoadBlock(w) \/ LoadPair(w) \/ LoadOne(w) \/ LoadRest(w) \/ EndBlock(w)
  \/ Latch(w) \/ StartPass(w) \/ EndCopy(w)
  \/ \E p \in pass[w].lanes : Lane(w, p)

Next ==
  \/ \E b \in Blocks(input) : ComputeDestBlockOffset(b)
  \/ \E t \in {"raw", "rle"} : \E i \in 0 .. input.bytes[t] - 1 : Fill(t, i)
  \/ StartFill
  \/ StartExecute
  \/ \E w \in Waves : Wave(w)

Spec == Init /\ [][Next]_vars

------------------------------------------------------------------------------

TypeOK ==
  /\ kernel \in {"dest", "fill", "execute"}
  /\ ran \subseteq Threads(kernel)
  /\ destOffs \in [Blocks(input) -> Nat \cup {NoOffset}]
  /\ DOMAIN out = 0 .. input.outSize - 1
  /\ \A w \in Waves :
       /\ reg[w].phase \in {"between", "sequences", "rest"}
       /\ reg[w].cmp \in input.cmpFirst[w] .. CmpEnd(input, w)
       /\ reg[w].phase # "between" =>
            /\ reg[w].seq \in SeqBeg(input, reg[w].cmp) .. LastSeq(w)
            /\ reg[w].lit \in 0 .. input.litSize[reg[w].cmp]
            /\ reg[w].dst \in destOffs[CmpBlock(w)] .. DstEnd(w)
       /\ pass[w].lanes # {} =>
            pass[w].lanes \subseteq Head(todo[w]).beg .. Head(todo[w]).end - 1

\* Whatever is written is what a sequential decoder has there, and so is what
\* every lane of a pass is about to write, in whichever order the lanes come:
\* a byte is read only after it was stored, by an earlier pass, copy, block or
\* kernel, and every block is in its place.
BytesSequential ==
  /\ \A p \in DOMAIN out : out[p] # Unwritten =>
       p \in DOMAIN input.ref.content /\ out[p] = input.ref.content[p]
  /\ \A w \in Waves : \A p \in pass[w].lanes :
       Value(w, Head(todo[w]), p) = input.ref.content[p]

Ended ==
  kernel = "execute" /\ \A w \in Waves : reg[w].cmp = CmpEnd(input, w)

\* When the waves have ended, every byte of every frame is there, also when
\* some of what was given are not frames of zstd and have no wave.
FramesComplete ==
  Ended => \A p \in DOMAIN input.ref.content : out[p] = input.ref.content[p]

=============================================================================
