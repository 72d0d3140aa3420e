------------------------ MODULE DecodeSequenceOffsets ------------------------
(***************************************************************************)
(* The three kernels that turn coded offsets into match distances:         *)
(*   DecompressSequences     runs every stream in parallel, from symbols;  *)
(*   PrefixSequenceOffsets   replaces the symbols in the streams' final    *)
(*                           offsets (its look-back is a module of its     *)
(*                           own; here it goes through the streams);       *)
(*   FinaliseSequenceOffsets replaces the symbols in every sequence and    *)
(*                           removes the bias.                             *)
(* A barrier separates two kernels.  A sequential decoder knows the three  *)
(* previous offsets at every sequence; an input comes with that history.    *)
(***************************************************************************)
EXTENDS SeqOffsets, Sequences

CONSTANT
  CodedInputs   \* records: codes, a sequence of [offset, llen] per stream;
                \* first, the streams that are first in their frame; and
                \* history[s][i], the three offsets that a sequential decoder
                \* has after i sequences of stream s (no code reads it)

Code == [offset : Nat \ {0}, llen : Nat]

NumberTriples == [Slots -> {x \in Offset : x.rep = 0 /\ x.n >= 3}]

ASSUME CodesAssumption ==
  \A in \in CodedInputs :
    /\ in.codes \in [Streams -> Seq(Code)]
    /\ in.first \subseteq Streams
    /\ 0 \in in.first

ASSUME HistoryAssumption ==
  \A in \in CodedInputs, s \in Streams :
    /\ in.history[s][0] =
         IF s \in in.first THEN FrameDefaults
                           ELSE in.history[s - 1][Len(in.codes[s - 1])]
    /\ \A i \in 0 .. Len(in.codes[s]) : in.history[s][i] \in NumberTriples
    /\ \A i \in 1 .. Len(in.codes[s]) :
         in.history[s][i] =
           UpdatePrevious(in.history[s][i - 1],
                          in.codes[s][i].offset, in.codes[s][i].llen)

VARIABLES
  coded,    \* the streams
  kernel,   \* the kernel that runs: "decompress", "prefix", "finalise"
  regs,     \* offset1..offset3, the registers of the lane of each stream
  offs,     \* DecompressedSequenceOffs, per stream
  stage     \* how far the running kernel is in each stream

decodeVars == <<coded, kernel, regs, offs, final, stage>>

Codes(s) == coded.codes[s]

DecodeInit ==
  /\ coded \in CodedInputs
  /\ kernel = "decompress"
  /\ regs = [s \in Streams |-> SequenceOffsets_Init]
  /\ offs = [s \in Streams |-> <<>>]
  /\ final = [s \in Streams |-> [k \in Slots |-> Number(0)]]
  /\ stage = [s \in Streams |-> 0]

\* One turn of the decoding loop of a stream.
DecodeSequence(s) ==
  LET i == stage[s] + 1
      updated == UpdatePrevious(regs[s], Codes(s)[i].offset, Codes(s)[i].llen)
  IN /\ kernel = "decompress"
     /\ i <= Len(Codes(s))
     /\ regs' = [regs EXCEPT ![s] = updated]
     /\ offs' = [offs EXCEPT ![s] = Append(@, updated[1])]
     /\ stage' = [stage EXCEPT ![s] = i]
     /\ UNCHANGED <<coded, kernel, final>>

\* After the loop the lane stores the three offsets it is left with.
StoreFinal(s) ==
  /\ kernel = "decompress"
  /\ stage[s] = Len(Codes(s))
  /\ final' = [final EXCEPT ![s] = regs[s]]
  /\ stage' = [stage EXCEPT ![s] = @ + 1]
  /\ UNCHANGED <<coded, kernel, regs, offs>>

\* The barrier between two kernels.
StartKernel(this, next, ended(_)) ==
  /\ kernel = this
  /\ \A s \in Streams : ended(s)
  /\ kernel' = next
  /\ stage' = [s \in Streams |-> 0]
  /\ UNCHANGED <<coded, regs, offs, final>>

StartPrefix ==
  StartKernel("decompress", "prefix", LAMBDA s : stage[s] > Len(Codes(s)))

\* A bug: a frame goes on where the one before it ended.
MutPreviousFinal(s) == IF s = 0 THEN FrameDefaults ELSE final[s - 1]

PreviousFinal(s) == IF s \in coded.first THEN FrameDefaults ELSE final[s - 1]

ResolveFinal(s) ==
  /\ kernel = "prefix"
  /\ stage[s] = 0
  /\ s \notin coded.first => stage[s - 1] = 1
  /\ final' = [final EXCEPT ![s] = ApplyPrevious(@, PreviousFinal(s))]
  /\ stage' = [stage EXCEPT ![s] = 1]
  /\ UNCHANGED <<coded, kernel, regs, offs>>

\* A bug: no barrier.
MutStartFinalise == StartKernel("prefix", "finalise", LAMBDA s : TRUE)

StartFinalise == StartKernel("prefix", "finalise", LAMBDA s : stage[s] = 1)

\* The thread of one sequence; the last stage of the model takes the sequences
\* of a stream in order, threads of different streams in any order.
FinaliseSequence(s) ==
  LET i == stage[s] + 1
      x == offs[s][i]
      resolved == IF IsEncoded(x) THEN Minus(PreviousFinal(s)[x.rep], x.n) ELSE x
  IN /\ kernel = "finalise"
     /\ i <= Len(Codes(s))
     /\ offs' = [offs EXCEPT ![s][i] = Minus(resolved, 3)]
     /\ stage' = [stage EXCEPT ![s] = i]
     /\ UNCHANGED <<coded, kernel, regs, final>>

DecodeNext ==
  \/ \E s \in Streams : \/ DecodeSequence(s)
                        \/ StoreFinal(s)
                        \/ ResolveFinal(s)
                        \/ FinaliseSequence(s)
  \/ StartPrefix
  \/ StartFinalise

DecodeSafety == DecodeInit /\ [][DecodeNext]_decodeVars

DecodeSpec == DecodeSafety /\ WF_decodeVars(DecodeNext)

------------------------------------------------------------------------------

DecodeTypeOK ==
  /\ coded.codes \in [Streams -> Seq(Code)]
  /\ kernel \in {"decompress", "prefix", "finalise"}
  /\ regs \in [Streams -> Triple]
  /\ offs \in [Streams -> Seq(Offset)]
  /\ final \in [Streams -> Triple]
  /\ stage \in [Streams -> Nat]

Before(s) == coded.history[s][0]
After(s)  == coded.history[s][Len(Codes(s))]

\* At every sequence of a stream that is being decoded, the symbolic offsets
\* and the sequential decoder's agree once what the previous block left is
\* substituted: repeats of repeats, and the byte that a repeat of slot 1 with
\* no literals subtracts, are carried by the symbols without loss.
SymbolsTrackHistory ==
  kernel = "decompress" =>
    \A s \in Streams :
      stage[s] <= Len(Codes(s)) =>
        ApplyPrevious(regs[s], Before(s)) = coded.history[s][stage[s]]

\* Every distance that FinaliseSequenceOffsets has written is the sequential
\* decoder's, without the bias, whatever frame and block it is in.
DistancesCorrect ==
  kernel = "finalise" =>
    \A s \in Streams : \A i \in 1 .. stage[s] :
      offs[s][i] = Minus(coded.history[s][i][1], 3)

\* When PrefixSequenceOffsets has resolved a stream, its final offsets are what
\* the next stream of the frame starts from in the sequential decoder.
FinalOffsetsCorrect ==
  \A s \in Streams :
    kernel = "finalise" \/ (kernel = "prefix" /\ stage[s] = 1) => final[s] = After(s)

==============================================================================
