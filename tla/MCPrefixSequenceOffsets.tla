---------------------- MODULE MCPrefixSequenceOffsets ----------------------
(***************************************************************************)
(* Model of PrefixSequenceOffsets.  A stream's triple is what executing a  *)
(* few sequences from the three symbols leaves: slot 3 moved to the front  *)
(* twice, the second time less a byte, or a new number pushed before slots *)
(* 1 and 2.  The two do not commute, and between them every slot is read.  *)
(* All numbers is what the first stream of a frame becomes at once.        *)
(***************************************************************************)
EXTENDS PrefixSequenceOffsets

CONSTANT Firsts    \* how many streams after stream 0 may start a frame

StreamKinds == {
  UpdatePrevious(UpdatePrevious(SequenceOffsets_Init, 3, 1), 3, 0),
  UpdatePrevious(SequenceOffsets_Init, 20, 1) }

MCInputs ==
  {[offs |-> f, first |-> {0} \cup s] :
     f \in [Streams -> StreamKinds],
     s \in {t \in SUBSET (Streams \ {0}) : Cardinality(t) <= Firsts}}

============================================================================
