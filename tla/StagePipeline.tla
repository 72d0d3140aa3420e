---------------------------- MODULE StagePipeline ----------------------------
(***************************************************************************)
(* A request of zstdgpu, from its setup to its last kernel.  The three     *)
(* stages of a request are recorded into command lists by the CPU and run  *)
(* later by the GPU.  The buffers of stage 1 are sized by the numbers of   *)
(* blocks, which stage 0 counts; those of stage 2 by the numbers of        *)
(* literals and sequences, which stage 1 counts.  Either the CPU reads     *)
(* these counts back, after waiting for the GPU, or it sizes the buffers   *)
(* by constants the caller gives or by an estimate, and the GPU turns off  *)
(* (predicates) the stages whose counts turn out to be too large.          *)
(*                                                                         *)
(* Sizes are in units of the placement alignment and there is one buffer   *)
(* of each kind: the code has several, each proportional to one kind or to *)
(* a sum.  The upload and readback heaps follow the code of the default    *)
(* heap, the one modelled.                                                 *)
(***************************************************************************)
EXTENDS Integers, Sequences, Functions

CONSTANTS
  Requests,    \* what may be asked: [count |-> [Kind -> Nat], output |-> Nat]
  Callers,     \* how it may be asked: see CallerAssumption
  GivenCounts, \* GivenCounts[s], the constants a caller may give for stage s
  MinCount,    \* kzstdgpu_MinCount_*, of each kind
  BlockBytes,  \* 4096: a block of the estimate
  SeqBytes,    \* 8: a sequence of the estimate
  ReuseMemory, \* with which memory a context is used for another request
  MaxRequests  \* bound of the model

Stages == 0 .. 2

Kinds(s) == CASE s = 0 -> {"frame"}
              [] s = 1 -> {"raw", "rle", "cmp"}
              [] s = 2 -> {"lit", "seq"}

Kind == UNION {Kinds(s) : s \in Stages}
Counted == Kinds(1) \cup Kinds(2)

\* The flags of the constants of stages 1 and 2: kzstdgpu_SetupFlags_Has{FrameInfo,
\* BlockInfo}Constants; "single" is kzstdgpu_SetupFlags_HasSingleSubmission.
Flag == <<"frameInfo", "blockInfo">>

\* A caller sets flags, submits stage by stage or all at once, in memory of its
\* own or of the library; what it gives is exact, that is enough for the request,
\* or it may be too small.
ASSUME CallerAssumption ==
  /\ Callers \subseteq [flags: SUBSET {"frameInfo", "blockInfo", "single"},
                        way: {"stages", "all"},
                        memory: {"external", "internal"},
                        exact: BOOLEAN]
  /\ ReuseMemory \subseteq {"external", "internal"}

ASSUME CountAssumption ==
  /\ \A r \in Requests : r.count \in [Kind -> Nat] /\ r.output \in Nat
  /\ \A r \in Requests : r.count["frame"] > 0 /\ r.count["lit"] <= r.output
  /\ \A s \in 1 .. 2 : GivenCounts[s] \subseteq [Kinds(s) -> Nat]
  /\ MinCount \in [Counted -> Nat \ {0}]
  /\ BlockBytes \in Nat \ {0} /\ SeqBytes \in Nat \ {0}

ASSUME BoundAssumption == MaxRequests \in Nat \ {0}

VARIABLES
  caller, request,  \* who asks for what
  served,           \* how many requests were finished before this one
  setup,            \* setupFlags of the context
  maxCount,         \* zstdRawBlockCountMax ... zstdUncompressedSeqElemCountMax
  res,              \* resData: heap, offset, byte count and buffers of a stage
  next,             \* the stage to submit next; 3 when all are
  cmdList, queue,   \* commands recorded, and those the GPU has
  counters,         \* Counters, on the GPU
  predicate,        \* Predicate: the mask of each predicated stage
  cpuCounters,      \* CountersCpu: what was last read back
  ran               \* history: the stages that ran, and the room they had

ctxVars == <<setup, maxCount, res>>
gpuVars == <<counters, predicate, cpuCounters, ran>>
vars == <<caller, request, served, ctxVars, next, cmdList, queue, gpuVars>>

-----------------------------------------------------------------------------
(* The constants of a request *)

AtLeast(n, m) == IF n < m THEN m ELSE n

\* A bug: the constants of stage 1 are taken for those of stage 2 as well.
MutReadbackRequired(s) ==
  s \in 0 .. 1 /\ Flag[1] \notin setup /\ "single" \notin setup

ReadbackRequired(s) ==
  s \in 0 .. 1 /\ Flag[s + 1] \notin setup /\ "single" \notin setup

AnyReadbackRequired ==
  "single" \notin setup /\ ~(Range(Flag) \subseteq setup)

Estimate(k) ==
  CASE k \in Kinds(1) -> (request.output + BlockBytes - 1) \div BlockBytes
    [] k = "lit" -> request.output
    [] k = "seq" -> request.output \div SeqBytes

\* A bug: counts of zero are not rounded up.
MutRecomputed(s) ==
  [k \in Kinds(s) |->
     IF Flag[s] \in setup THEN maxCount[k]
     ELSE IF "single" \in setup THEN Estimate(k) ELSE cpuCounters[k]]

\* zstdgpu_RecomputeAndRetrieve{Frame, Block}InfoConstants
Recomputed(s) ==
  [k \in Kinds(s) |->
     IF Flag[s] \in setup THEN maxCount[k]
     ELSE AtLeast(IF "single" \in setup THEN Estimate(k) ELSE cpuCounters[k],
                  MinCount[k])]

\* The counts the buffers of a stage are sized by.
Need(s) == IF s = 0 THEN [k \in Kinds(0) |-> request.count[k]] ELSE Recomputed(s)

MaxAfter(ss) ==
  [k \in Counted |-> IF \E s \in ss \ {0} : k \in Kinds(s)
                     THEN Recomputed(CHOOSE s \in ss \ {0} : k \in Kinds(s))[k]
                     ELSE maxCount[k]]

Bytes(count) == SumFunction(count)

-----------------------------------------------------------------------------
(* Heaps and the buffers placed in them *)

NoHeap == [of |-> "none", size |-> 0]
NoBuffers == [at |-> 0, count |-> [k \in {} |-> 0]]
NoResources == [s \in Stages |->
  [heap |-> NoHeap, offset |-> 0, byteCount |-> 0, buffers |-> NoBuffers]]

Term(r) == [r EXCEPT !.heap = NoHeap, !.buffers = NoBuffers]

\* zstdgpu_ResourceDataGpu_InitHeap: the offset is not touched.
InitHeap(r, need) ==
  IF r.heap # NoHeap THEN r
  ELSE [r EXCEPT !.heap = [of |-> "stage", size |-> Bytes(need)],
                 !.byteCount = Bytes(need)]

\* zstdgpu_ResourceDataGpu_Init: buffers that exist are kept.
InitBuffers(r, need) ==
  IF r.buffers # NoBuffers THEN r
  ELSE [r EXCEPT !.buffers = [at |-> r.offset, count |-> need]]

ExternalStage(r, need) ==
  InitBuffers([Term(r) EXCEPT !.heap = [of |-> "stage", size |-> Bytes(need)],
                              !.offset = 0], need)

InternalStage(r, need) ==
  LET kept == IF r.byteCount < Bytes(need) THEN Term(r) ELSE r
  IN InitBuffers(InitHeap(kept, need), need)

\* A bug: the part of stage 1 is not counted.
MutOffsetOf(s) == IF s = 0 THEN 0 ELSE Bytes(Need(0))

\* The part of a shared heap a stage gets.
OffsetOf(s) == CASE s = 0 -> 0
                 [] s = 1 -> Bytes(Need(0))
                 [] s = 2 -> Bytes(Need(0)) + Bytes(Need(1))

SharedHeap == [of |-> "shared", size |-> OffsetOf(2) + Bytes(Need(2))]

ExternalAll ==
  [s \in Stages |->
     InitBuffers([Term(res[s]) EXCEPT !.heap = SharedHeap, !.offset = OffsetOf(s)],
                 Need(s))]

\* The buffers are always created again, the heaps only when together they are
\* too small; the offsets are those of the last time heaps were created here.
InternalAll ==
  LET small == Bytes([s \in Stages |-> res[s].byteCount]) < SharedHeap.size
      fresh == small \/ res[0].heap = NoHeap
  IN [s \in Stages |->
        InitBuffers(
          IF fresh
          THEN [heap |-> SharedHeap, offset |-> OffsetOf(s),
                byteCount |-> Bytes(Need(s)), buffers |-> NoBuffers]
          ELSE [res[s] EXCEPT !.buffers = NoBuffers],
          Need(s))]

-----------------------------------------------------------------------------
(* The CPU: setup and submission *)

\* zstdgpu_SetupFrameInfoConstants, zstdgpu_SetupBlockInfoConstants
SetupConstants(s) ==
  /\ next = 0 /\ Flag[s] \in caller.flags
  /\ \E given \in GivenCounts[s] :
       /\ s = 1 => \E k \in Kinds(1) : given[k] # 0
       /\ maxCount' = [k \in Counted |->
                         IF k \in Kinds(s) THEN AtLeast(given[k], MinCount[k])
                         ELSE maxCount[k]]
  /\ setup' = setup \cup {Flag[s]}
  /\ UNCHANGED <<caller, request, served, res, next, cmdList, queue, gpuVars>>

SetupAllStageSubmission ==
  /\ next = 0 /\ "single" \in caller.flags
  /\ setup' = setup \cup {"single"}
  /\ UNCHANGED <<caller, request, served, maxCount, res, next, cmdList, queue, gpuVars>>

\* The caller has made the setup calls it makes.
Ready ==
  /\ caller.flags \subseteq setup
  /\ caller.exact => \A s \in 1 .. 2 : Flag[s] \in setup =>
                       \A k \in Kinds(s) : request.count[k] <= maxCount[k]

\* What SubmitStage0, 1 and 2 record: the constants to compare with, the room
\* of the buffers that are bound, and whether the stage is predicated.
Record(s, max, r) ==
  << [op |-> "stage", stage |-> s, max |-> max,
      room |-> [k \in UNION {Kinds(t) : t \in 1 .. s} |->
                  r[CHOOSE t \in 1 .. s : k \in Kinds(t)].buffers.count[k]],
      predicated |-> s > 0 /\ ~ReadbackRequired(s - 1)] >>
  \o (IF ReadbackRequired(s) THEN << [op |-> "readback"] >> ELSE <<>>)

\* zstdgpu_SubmitWith{External, Internal}Memory; the caller waits for the GPU
\* where a readback is required.
SubmitStage(s) ==
  /\ caller.way = "stages" /\ Ready /\ next = s
  /\ s > 0 /\ ReadbackRequired(s - 1) => cmdList = <<>> /\ queue = <<>>
  /\ maxCount' = MaxAfter({s})
  /\ res' = [res EXCEPT ![s] = IF caller.memory = "external"
                               THEN ExternalStage(@, Need(s))
                               ELSE InternalStage(@, Need(s))]
  /\ cmdList' = cmdList \o Record(s, maxCount', res')
  /\ next' = s + 1
  /\ UNCHANGED <<caller, request, served, setup, queue, gpuVars>>

\* zstdgpu_SubmitAllStagesWith{External, Internal}Memory
SubmitAllStages ==
  /\ caller.way = "all" /\ Ready /\ next = 0
  /\ ~AnyReadbackRequired
  /\ maxCount' = MaxAfter(Stages)
  /\ res' = IF caller.memory = "external" THEN ExternalAll ELSE InternalAll
  /\ cmdList' = Record(0, maxCount', res') \o Record(1, maxCount', res')
                                           \o Record(2, maxCount', res')
  /\ next' = 3
  /\ UNCHANGED <<caller, request, served, setup, queue, gpuVars>>

\* The caller submits what it has recorded.
ExecuteCmdList ==
  /\ cmdList # <<>>
  /\ queue' = queue \o cmdList
  /\ cmdList' = <<>>
  /\ UNCHANGED <<caller, request, served, ctxVars, next, gpuVars>>

Idle == cmdList = <<>> /\ queue = <<>>
Finished == next = 3 /\ Idle

NotRun == [s \in Stages |-> [did |-> FALSE, room |-> [k \in {} |-> 0]]]

\* The next request, in the same context or in one destroyed and created again.
NextRequest ==
  /\ Finished /\ served + 1 < MaxRequests
  /\ served' = served + 1
  /\ request' \in Requests /\ caller' \in Callers
  /\ \/ /\ setup' = {} /\ maxCount' = [k \in Counted |-> 0] /\ res' = NoResources
     \/ /\ {caller.memory, caller'.memory} \subseteq ReuseMemory
        /\ setup \subseteq caller'.flags
        /\ UNCHANGED ctxVars
  /\ next' = 0 /\ ran' = NotRun
  /\ UNCHANGED <<cmdList, queue, counters, predicate, cpuCounters>>

-----------------------------------------------------------------------------
(* The GPU: commands in the order they were submitted *)

\* A bug: a count as large as the buffer is taken for too large.
MutOver(ks, max, count) == {k \in ks : count[k] >= max[k]}
\* A bug: one more is let through.
MutOverLate(ks, max, count) == {k \in ks : count[k] > max[k] + 1}

\* The mask of UpdateDispatchArgs.
Over(ks, max, count) == {k \in ks : count[k] > max[k]}

\* A bug: stage 0 sets the predicate of stage 1 only.
MutStage0Predicate(over) == [s \in 1 .. 2 |-> IF s = 1 THEN over ELSE {}]

Stage0Predicate(over) == [s \in 1 .. 2 |-> over]

Skipped(c) == c.predicated /\ predicate[c.stage] # {}

Take(op) == queue # <<>> /\ Head(queue).op = op /\ queue' = Tail(queue)

Runs(c) ==
  /\ c.op = "stage" /\ (c.stage > 0 => ~Skipped(c))
  /\ ran' = [ran EXCEPT ![c.stage] = [did |-> TRUE, room |-> c.room]]

\* ParseFrames counts the blocks, after the counters are cleared.
RunStage0 ==
  /\ Take("stage") /\ Head(queue).stage = 0 /\ Runs(Head(queue))
  /\ counters' = [k \in Counted |-> IF k \in Kinds(1) THEN request.count[k] ELSE 0]
  /\ predicate' = Stage0Predicate(Over(Kinds(1), Head(queue).max, counters'))
  /\ UNCHANGED <<caller, request, served, ctxVars, next, cmdList, cpuCounters>>

\* ParseCompressedBlocks counts the literals and sequences.
RunStage1 ==
  /\ Take("stage") /\ Head(queue).stage = 1 /\ Runs(Head(queue))
  /\ counters' = [k \in Counted |-> request.count[k]]
  /\ predicate' = [predicate EXCEPT ![2] =
                     @ \cup Over(Kinds(2), Head(queue).max, counters')]
  /\ UNCHANGED <<caller, request, served, ctxVars, next, cmdList, cpuCounters>>

\* The decompression, and the readback that is predicated with it.
RunStage2 ==
  /\ Take("stage") /\ Head(queue).stage = 2 /\ Runs(Head(queue))
  /\ cpuCounters' = counters
  /\ UNCHANGED <<caller, request, served, ctxVars, next, cmdList, counters, predicate>>

SkipStage ==
  /\ Take("stage") /\ Head(queue).stage > 0 /\ Skipped(Head(queue))
  /\ UNCHANGED <<caller, request, served, ctxVars, next, cmdList, gpuVars>>

Readback ==
  /\ Take("readback")
  /\ cpuCounters' = counters
  /\ UNCHANGED <<caller, request, served, ctxVars, next, cmdList, counters, predicate, ran>>

Init ==
  /\ caller \in Callers /\ request \in Requests /\ served = 0
  /\ setup = {} /\ maxCount = [k \in Counted |-> 0] /\ res = NoResources
  /\ next = 0 /\ cmdList = <<>> /\ queue = <<>>
  /\ counters = [k \in Counted |-> 0] /\ cpuCounters = [k \in Counted |-> 0]
  /\ predicate = [s \in 1 .. 2 |-> {}] /\ ran = NotRun

CPU == \/ \E s \in 1 .. 2 : SetupConstants(s)
       \/ SetupAllStageSubmission
       \/ \E s \in Stages : SubmitStage(s)
       \/ SubmitAllStages
       \/ ExecuteCmdList
       \/ NextRequest

GPU == RunStage0 \/ RunStage1 \/ RunStage2 \/ SkipStage \/ Readback

\* Nothing more is asked.
Done == Finished /\ served + 1 = MaxRequests /\ UNCHANGED vars

Next == CPU \/ GPU \/ Done

Spec == Init /\ [][Next]_vars

-----------------------------------------------------------------------------
(* The use that works *)

\* Constants for stage 2 alone, block counts that are too small, and a context used
\* again in memory of the library do not: see the properties at the end.  A single
\* submission is made by one call, as zstdgpu.h describes it.
SafeCaller(c) ==
  /\ "single" \in c.flags => c.way = "all"
  /\ "blockInfo" \in c.flags => c.flags \cap {"frameInfo", "single"} # {}
  /\ c.flags = {"frameInfo"} => c.exact

SafeUse == (\A c \in Callers : SafeCaller(c)) /\ "internal" \notin ReuseMemory

-----------------------------------------------------------------------------
(* Properties *)

CapsOf(s) == [Kinds(s) -> Nat]

\* Types; every buffer that exists has at least the least size of its kind, so
\* that none is ever NULL when a stage is recorded.
TypeOK ==
  /\ caller \in Callers /\ request \in Requests /\ served \in 0 .. MaxRequests - 1
  /\ setup \subseteq caller.flags
  /\ maxCount \in [Counted -> Nat] /\ next \in 0 .. 3
  /\ \A s \in Stages : s < next =>
       /\ res[s].buffers.count \in CapsOf(s)
       /\ s > 0 => \A k \in Kinds(s) : res[s].buffers.count[k] >= MinCount[k]
  /\ counters \in [Counted -> Nat] /\ cpuCounters \in [Counted -> Nat]
  /\ \A s \in 1 .. 2 : predicate[s] \subseteq Counted

\* No stage runs with more of anything than its buffers were made for: what the
\* predicates and the waits are for.
NoOverrun ==
  \A s \in Stages : ran[s].did =>
    \A k \in DOMAIN ran[s].room : request.count[k] <= ran[s].room[k]

\* Stage 2 runs on what stage 1 produced, never on what it did not: a stage 1
\* that is turned off turns off stage 2.
DecodesWhatWasParsed == ran[2].did => ran[1].did

\* A request that was submitted is decompressed, unless something of it does not
\* fit the sizes in use: predication does not refuse what could be done.
RefusedOnlyWhenShort ==
  Finished => ran[2].did \/ \E k \in Counted : request.count[k] > maxCount[k]

\* Sizes read back are those of this request and of the stage that was waited
\* for, not of an earlier one.
SizedByThisRequest ==
  \A s \in 1 .. 2 :
    s < next /\ Flag[s] \notin setup /\ "single" \notin setup
    => \A k \in Kinds(s) : maxCount[k] = AtLeast(request.count[k], MinCount[k])

Fits == \A k \in Counted : request.count[k] <= maxCount[k]

\* What zstdgpu.h says of SetupBlockInfoConstants: with the counts of stage 2
\* given, and enough, the request is decompressed without a fence after stage 1.
BlockInfoSparesTheFence ==
  Finished /\ setup = {"blockInfo"} /\ Fits => ran[2].did

\* What the note in SubmitStage1 says: where less memory than needed may have
\* been allocated, by block counts that were given, predication guards it.
PredicationGuardsShortMemory ==
  "frameInfo" \in setup => NoOverrun

\* What the same note says: after a readback the allocation is always correct.
ReadbackAllocatesEnough == setup = {} => NoOverrun

End(r) == r.buffers.at + Bytes(r.buffers.count)

\* The buffers of a stage lie within its heap, and apart from those of the
\* other stages in the same heap.
BuffersPlaced ==
  \A s \in Stages : res[s].buffers # NoBuffers =>
    /\ End(res[s]) <= res[s].heap.size
    /\ \A t \in Stages \ {s} :
         res[s].heap.of = "shared" /\ res[t].heap.of = "shared"
         => End(res[s]) <= res[t].buffers.at \/ End(res[t]) <= res[s].buffers.at

==============================================================================
