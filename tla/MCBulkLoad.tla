----------------------------- MODULE MCBulkLoad -----------------------------
(***************************************************************************)
(* Model of BulkLoad: three archives.  One has its CPU data compressed     *)
(* with zlib; one has blend shapes; one has a texture.  Of each, one read  *)
(* may fail.                                                               *)
(***************************************************************************)
EXTENDS BulkLoad

CONSTANTS whole, blend, spare

MCFiles == {whole, blend, spare}

MCArchive ==
  whole :> [version |-> TRUE, blend |-> FALSE, textures |-> <<>>, buffer |-> 3, zlib |-> {CpuData}]
  @@ blend :> [version |-> TRUE, blend |-> TRUE, textures |-> <<>>, buffer |-> 3, zlib |-> {}]
  @@ spare :> [version |-> TRUE, blend |-> FALSE, textures |-> <<3>>, buffer |-> 3, zlib |-> {}]

MCMayFail == {<<spare, 1>>, <<blend, Header>>, <<whole, CpuData>>}

\* The first heap of textures has no room for the texture; there is room for
\* two of the three buffers, so that a set is without the last of its order.
MCHeapSizes == Textures :> <<4, 6>> @@ Buffers :> <<10>>

MCOrders == {<<blend, whole, spare>>, <<whole, spare, blend>>}

=============================================================================
