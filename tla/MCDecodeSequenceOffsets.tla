---------------------- MODULE MCDecodeSequenceOffsets ----------------------
(***************************************************************************)
(* Model of DecodeSequenceOffsets: all short streams over a set of codes   *)
(* that a valid encoder could emit (no distance below one).                *)
(***************************************************************************)
EXTENDS DecodeSequenceOffsets, FiniteSets

CONSTANTS MaxLength,   \* sequences of a stream
          MaxTotal     \* sequences of all the streams

MCCodes == {[offset |-> 2, llen |-> 1], [offset |-> 1, llen |-> 0],
            [offset |-> 3, llen |-> 0], [offset |-> 9, llen |-> 1]}

CodeSeqs == UNION {[1 .. n -> MCCodes] : n \in 1 .. MaxLength}

HistoryOf(codes, first) ==
  LET after[s \in Streams] ==
        LET h[i \in 0 .. Len(codes[s])] ==
              IF i > 0 THEN UpdatePrevious(h[i - 1], codes[s][i].offset, codes[s][i].llen)
              ELSE IF s \in first THEN FrameDefaults
              ELSE after[s - 1][Len(codes[s - 1])]
        IN h
  IN after

Total(codes) == Cardinality({<<s, i>> \in Streams \X (1 .. MaxLength) : i <= Len(codes[s])})

AllInputs ==
  {[codes |-> c, first |-> f, history |-> HistoryOf(c, f)] :
     c \in {d \in [Streams -> CodeSeqs] : Total(d) <= MaxTotal},
     f \in {{0} \cup s : s \in SUBSET (Streams \ {0})}}

MCInputs ==
  {in \in AllInputs :
     \A s \in Streams : \A i \in DOMAIN in.history[s] : \A k \in Slots :
       in.history[s][i][k].n > 3}

============================================================================
