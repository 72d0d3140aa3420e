---------------------------- MODULE FrameLayout ----------------------------
(***************************************************************************)
(* What ParseFrames leaves, as functions of the frames given to a request: *)
(* one pass counts the blocks of every frame, prefix sums give each frame  *)
(* its place in the lists of blocks, and a second pass, which has to agree *)
(* with the first one, fills them.  The threads, one per frame, write      *)
(* disjoint places, so nothing depends on their order.                     *)
(*                                                                         *)
(* A frame has a status, "ok", "rejected" by its header, or "other" when   *)
(* it is none of zstd; and its blocks: their type and size.                *)
(***************************************************************************)
EXTENDS Integers, Sequences, FiniteSets, TLC

BlockKinds == {"raw", "rle", "cmp"}

\* The three indices of zstdgpu_FrameInfo, and what ParseFrame stores.
NoLists == [start |-> [t \in BlockKinds |-> 0], blockIndex |-> [t \in BlockKinds |-> <<>>]]

GlobalIndex(start) == start["raw"] + start["rle"] + start["cmp"]

\* A turn of the loop of zstdgpu_ShaderEntry_ParseFrame.
CollectBlock(info, block) ==
  [start |-> [info.start EXCEPT ![block.type] = @ + 1],
   blockIndex |-> [info.blockIndex EXCEPT
                     ![block.type] = @ @@ (info.start[block.type] :> GlobalIndex(info.start))]]

\* The loop, from the places of the frame.  A frame that is not accepted has none.
ParseFrame(info, frame) ==
  LET after[j \in 0 .. Len(frame.blocks)] ==
        IF j = 0 THEN info ELSE CollectBlock(after[j - 1], frame.blocks[j])
  IN IF frame.status = "ok" THEN after[Len(frame.blocks)] ELSE info

\* The pass that counts, and the prefix sums over it.
BlockStarts(frames) ==
  LET before[f \in 1 .. Len(frames) + 1] ==
        IF f = 1 THEN NoLists.start
        ELSE LET count == ParseFrame(NoLists, frames[f - 1]).start
             IN [t \in BlockKinds |-> before[f - 1][t] + count[t]]
  IN [f \in 1 .. Len(frames) + 1 |-> before[f]]

\* Counters.Frames: those that begin with the magic number.
FrameCounter(frames) == Cardinality({f \in DOMAIN frames : frames[f].status # "other"})

\* The pass that collects: GlobalBlockIndexPerRawBlock, RleBlock, CmpBlock.
BlockLists(frames, starts) ==
  LET lists[f \in 0 .. Len(frames)] ==
        IF f = 0 THEN NoLists.blockIndex
        ELSE LET own == ParseFrame([NoLists EXCEPT !.start = starts[f]], frames[f]).blockIndex
             IN [t \in BlockKinds |-> lists[f - 1][t] @@ own[t]]
  IN lists[Len(frames)]

============================================================================
