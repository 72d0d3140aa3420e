------------------------ MODULE MCPrefixSumLookback ------------------------
(***************************************************************************)
(* Model of PrefixSumLookback: every vector of counts of three or four     *)
(* blocks, fewer resident waves than blocks.                               *)
(***************************************************************************)
EXTENDS PrefixSumLookback, Sequences, Folds

CONSTANTS MaxCount

MCInputs == [Blocks -> 0 .. MaxCount]

SumBefore(c, b) ==
  MapThenFoldSet(LAMBDA x, y : x + y, 0, LAMBDA i : c[i],
                 LAMBDA s : CHOOSE i \in s : TRUE, 0 .. b - 1)

MCPrefix == [c \in MCInputs |-> [b \in 0 .. NumBlocks |-> SumBefore(c, b)]]

============================================================================
