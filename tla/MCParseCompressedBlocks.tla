---------------------- MODULE MCParseCompressedBlocks ----------------------
(***************************************************************************)
(* Model of ParseCompressedBlocks: every row of blocks of a few kinds, cut *)
(* into frames in every way that leaves no frame starting with a treeless  *)
(* block before a block with a table.                                      *)
(***************************************************************************)
EXTENDS ParseCompressedBlocks, Sequences

CONSTANT NumFrames

Modes(l, o, m) == [LLen |-> l, Offs |-> o, MLen |-> m]

BlockKinds == {
  [tree |-> "raw", streams |-> 0, size |-> 0, seqs |-> 1, mode |-> Modes("fse", "default", "rle")],
  [tree |-> "fse", streams |-> 4, size |-> 6, seqs |-> 2, mode |-> Modes("fse", "fse", "fse")],
  [tree |-> "direct", streams |-> 1, size |-> 2, seqs |-> 0, mode |-> Modes("default", "default", "default")],
  [tree |-> "treeless", streams |-> 1, size |-> 1, seqs |-> 1, mode |-> Modes("repeat", "fse", "repeat")] }

MCFrames == 0 .. NumFrames - 1

FrameStarts ==
  {s \in [MCFrames -> 0 .. NumBlocks] :
     s[0] = 0 /\ \A f \in MCFrames \ {0} : s[f - 1] <= s[f]}

TreeBefore(blocks, starts, b) ==
  \E a \in Blocks : /\ a <= b /\ blocks[a].tree \in {"fse", "direct"}
                    /\ \A f \in MCFrames : starts[f] <= b => starts[f] <= a

MCInputs ==
  {in \in [blocks : [Blocks -> BlockKinds], frameStart : FrameStarts] :
     \A b \in Blocks :
       in.blocks[b].tree = "treeless" => TreeBefore(in.blocks, in.frameStart, b)}

============================================================================
