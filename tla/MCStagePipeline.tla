--------------------------- MODULE MCStagePipeline ---------------------------
(***************************************************************************)
(* Model of StagePipeline: requests that fit an estimate or a given        *)
(* constant and requests that do not, and the callers that set up a        *)
(* request in each of the ways the library documents.                      *)
(***************************************************************************)
EXTENDS StagePipeline

Request(raw, rle, cmp, lit, seq, output) ==
  [count |-> [frame |-> 1, raw |-> raw, rle |-> rle, cmp |-> cmp,
              lit |-> lit, seq |-> seq],
   output |-> output]

\* Fits an estimate; too many blocks; too many sequences; no compressed block;
\* as many bytes as another request, of other buffers.
MCRequests == {Request(0, 0, 1, 3, 1, 4), Request(1, 0, 2, 3, 1, 4),
               Request(0, 0, 1, 1, 2, 4), Request(0, 1, 0, 0, 0, 4)}

MCGivenCounts ==
  << {[raw |-> 0, rle |-> 0, cmp |-> 1], [raw |-> 1, rle |-> 1, cmp |-> 2]},
     {[lit |-> 3, seq |-> 1], [lit |-> 3, seq |-> 2]} >>

MCMinCount == [raw |-> 1, rle |-> 1, cmp |-> 1, lit |-> 2, seq |-> 1]

Caller(flags, way, memory, exact) ==
  [flags |-> flags, way |-> way, memory |-> memory, exact |-> exact]

Memories == {"external", "internal"}
BothInfos == {"frameInfo", "blockInfo"}

\* Readbacks; block counts that are enough, and one readback; both kinds of
\* constants, enough or not; a single submission, with or without constants.
MCCallers ==
  UNION { { Caller({}, "stages", m, TRUE),
            Caller({"frameInfo"}, "stages", m, TRUE),
            Caller(BothInfos, "stages", m, FALSE),
            Caller(BothInfos, "all", m, FALSE),
            Caller({"single"}, "all", m, FALSE),
            Caller({"single", "frameInfo"}, "all", m, FALSE),
            Caller({"single", "blockInfo"}, "all", m, FALSE) } : m \in Memories }

\* They are what the theorems assume; the callers below are not.
ASSUME CallersSafe == \A c \in MCCallers : SafeCaller(c)

BlockInfoCallers == {Caller({"blockInfo"}, "stages", "internal", TRUE)}
FrameInfoCallers == {Caller({"frameInfo"}, "stages", "internal", FALSE)}
ReadbackCallers  == {Caller({}, "stages", "internal", TRUE)}

==============================================================================
