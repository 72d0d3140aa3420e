------------------------------ MODULE SeqOffsets ------------------------------
(***************************************************************************)
(* The arithmetic zstdgpu does on match offsets before their history is    *)
(* known.  A zstd sequence may repeat one of the three previous offsets,   *)
(* and those cross block boundaries, while blocks are decoded in parallel. *)
(* A block therefore starts from three symbols, "what the previous block   *)
(* left in slot 1, 2, 3", and later the symbols are replaced.              *)
(*                                                                         *)
(* The code packs an offset in 30 bits: bit 29 says that it is a symbol,   *)
(* bits 28:27 which slot, and the low 27 bits hold the complement of the   *)
(* number of bytes subtracted, so that "x - 1" is the same instruction for *)
(* a symbol and for a number.  Here it is a record: rep is the slot, or 0  *)
(* for a number; n is the number (biased by 3), or the bytes subtracted.   *)
(***************************************************************************)
EXTENDS Integers

CONSTANT NumStreams   \* sequence streams of all the frames (Seq_Streams)

ASSUME StreamsAssumption == NumStreams \in Nat \ {0}

VARIABLE final   \* PerSeqStreamFinalOffset1..3, which the kernels pass on

Streams == 0 .. NumStreams - 1

Slots == 1 .. 3

Offset == [rep : 0 .. 3, n : Nat]

Triple == [Slots -> Offset]

\* Bugs: the slot is encoded from one; the bytes taken off a symbol are lost.
MutSymbol(k) == [rep |-> k + 1, n |-> 0]
MutMinus(x, count) == IF x.rep > 0 THEN x ELSE [rep |-> 0, n |-> x.n - count]

Number(x)    == [rep |-> 0, n |-> x]
Symbol(k)    == [rep |-> k, n |-> 0]
IsEncoded(x) == x.rep > 0

\* A slot nobody has written: the code's "invalid (zero)" offset.
IsUnset(x) == x = Number(0)

AnyEncoded(o) == \E k \in Slots : IsEncoded(o[k])

\* The offsets every frame starts with, biased by 3.
FrameDefaults == [k \in Slots |-> Number(<<1 + 3, 4 + 3, 8 + 3>>[k])]

\* The offsets a block starts with.
SequenceOffsets_Init == [k \in Slots |-> Symbol(k)]

\* The word x minus count bytes, whichever of the two forms x has.
Minus(x, count) ==
  [rep |-> x.rep, n |-> IF IsEncoded(x) THEN x.n + count ELSE x.n - count]

\* Replaces the symbols of o by what the previous offsets say.
ApplyPrevious(o, previous) ==
  [k \in Slots |->
     IF IsEncoded(o[k])    THEN Minus(previous[o[k].rep], o[k].n)
     ELSE IF IsUnset(o[k]) THEN previous[k]
     ELSE o[k]]

\* What one sequence does to the three offsets: offset is the coded value
\* (1..3 repeat, above that a number biased by 3), llen its literal length.
\* The offset the sequence itself uses is the new slot 1.
UpdatePrevious(o, offset, llen) ==
  LET isRep == offset <= 3
      adj   == IF isRep /\ llen = 0 THEN offset + 1 ELSE offset
      used  == IF ~isRep THEN Number(offset)
               ELSE IF adj <= 3 THEN o[adj]
               ELSE Minus(o[1], 1)
  IN [k \in Slots |-> IF k = 1 THEN used ELSE IF adj >= k THEN o[k - 1] ELSE o[k]]

==============================================================================
