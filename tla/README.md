# Formal models of the zstd GPU decompressor

This directory holds TLA+ models of the repository's program code, TLC
configurations that check them on small instances, and TLAPS proofs of what
matters most. All paths below are relative to the repository.

- [The system](#the-system)
- [The modules](#the-modules)
- [The runs](#the-runs)
- [What is proved](#what-is-proved)
- [Assumptions](#assumptions)
- [What is not modelled](#what-is-not-modelled)
- [Plan](#plan)

## The system

The repository holds three programs that share little: `zstd/zstdgpu`, a zstd
decompressor that runs on the GPU; `GDeflate`, a tiled compression library; and
`Samples`, applications around the DirectStorage API. The core logic, and most
of what is hard to test, is in `zstdgpu`; most of the models are about it. Of the
samples, `BulkLoadDemo` has the most concurrency and is modelled too.

### zstdgpu

A request goes through three stages, each a list of kernels recorded by
`zstdgpu.cpp` and separated by barriers.

| part | state | operations | hard because |
|---|---|---|---|
| request API and stages (`zstdgpu.cpp`) | setup flags, resources, predicates | setup calls, `Submit*`, readback | order of calls, guessed capacities, stale flags |
| `ParseFrames` | block lists, block counts, `Counters.Frames` | count blocks, list blocks | two passes that must agree; rejected frames, chunks of another kind |
| dispatch arguments (`ZstdGpuUpdateDispatchArgs.hlsl`, `zstdgpu_EmitDispatch`) | `DispatchArgs`, `DispatchCnts` | one record or two per slot | limits of a dimension, stale records, order of groups |
| `ParseCompressedBlocks` | counters, index tables, stream references | ordered appends, atomic appends | three numberings, order of arrival |
| `ComputePrefixSum`, `DecompressLiterals` | group ends per Huffman table | search of table and streams by group | indices of indices |
| look-back prefix sum (`zstdgpu_GlobalExclusivePrefixSum`) | one word per block | publish, walk back, upgrade | spinning waves, words that change while read |
| `PropagateFseIndex` | one word per block and type | publish, walk back | blocks that have nothing to say |
| `DecompressSequences`, `PrefixSequenceOffsets`, `FinaliseSequenceOffsets` | offsets, final offsets, three words per block | decode from symbols, compose, substitute | torn triples, a composition that does not commute |
| `ComputeDestBlockOffsets`, `MemsetMemcpy`, `ExecuteSequences` | block sizes, `BlockDestOffs`, output | place blocks, fill raw and RLE ones, copy literals and matches | reads what earlier blocks, kernels and lanes wrote |

Kernels interact through buffers only. Between two kernels there is a barrier;
inside a kernel, waves interact through atomics on counters and through the
look-back words. That is where interleavings matter, and a GPU test runs only
the few the hardware happens to produce.

What makes each part correct: every ordered append gives each block the sum of
the blocks before it, and every wave ends; what is handed out by atomics never
overlaps; every stream is decoded once, with its own table; the offsets are
those of a sequential decoder; each element of a kernel is worked on once; and
every byte of the output is the sequential decoder's.

### The samples and GDeflate

| part | state | operations | hard because |
|---|---|---|---|
| `GpuDecompressionBenchmark/CustomDecompression.h` | request deque, quit flag | callback, worker threads, destructor | notifications, shutdown |
| `BulkLoadDemo/.../DStorageLoader.cpp` | request deque, the wait of its event | callback, work items, shutdown | one work item per request, self-registration |
| `MarcFile`, `EventWait` | state of each file, status entries, four waits | load of header, metadata, CPU and GPU data; handlers; unload | handlers in either order, on two threads, with errors |
| `MarcFileManager`, `MultiHeap` | state of the manager, heaps | start a set, poll, unload | room, memory given to another file while a read is under way |
| `BulkLoadDemo.cpp` | state of the demo, drawn models | `Update` | what it draws must be there |
| `GDeflateCompress.cpp`, `GDeflateDecompress.cpp` | tile counter, tiles, failed flag | tile jobs on threads, stream layout | relaxed counter, edges of sizes |

`PROJECT.json` lists under "hazards" each place of the code where one of these
difficulties bites, with the property that covers it or the reason why none
does yet.

## The modules

### PrefixSumLookback, OrderedAppend

`PrefixSumLookback` is `zstdgpu_GlobalExclusivePrefixSum` as the `PrefixSum`
kernel runs it. A wave runs in lock step, so there is one process per wave (a
"block" of the code), and one action per access to the look-back buffer.

| model | code |
|---|---|
| `buffer` | `inoutInCountsOutPrefix`, overwritten in place |
| `lookback[b]` | the word of block b: flag and value |
| `count`, `prev`, `acc` | `vgprCount` of the wave, `prevBlockIndex`, `thisBlockExclusivePrefix` |
| `Launch` | the GPU issues the group; the wave loads its counts |
| `PublishSelf` | the first `InterlockedCompareStore` |
| `LookBack` | one turn of the loop on a word that is set |
| `PublishFull` | the second `InterlockedCompareStore` |
| `StoreResult` | the store of the kernel |

`input` is a history variable: the counts before the dispatch. A turn of the
loop on a zero word changes nothing and is a stutter.

`OrderedAppend` is the promise made to the callers: every block stores, once,
the sum of what the blocks before it append. `ImplementsOrderedAppend` checks
that the look-back implements it, liveness included.

### SeqOffsets, PrefixSequenceOffsets, DecodeSequenceOffsets

A sequence may repeat one of the three offsets before it, across blocks, and
blocks are decoded in parallel. `DecompressSequences` therefore starts each
stream from three *symbols*, and later kernels substitute them. `SeqOffsets`
holds that arithmetic. The code packs an offset in 30 bits such that "minus
one" is the same instruction on a number and on a symbol; the module has a
record with the slot and the number of bytes, and `Minus` for both.

`PrefixSequenceOffsets` is the kernel of that name: a look-back in which a
block publishes a triple as three words, written, read and upgraded one at a
time. `word` says which of the three is next. `PropagateStep` is the tree inside
a wave (`WAVE_PROPAGATE_STEP`); the first lane alone walks back (`ReadWord`), and
applies a triple only if the three flags agree (`SameFlag`).

`DecodeSequenceOffsets` puts the three kernels in a row, with the barriers
between them (`StartPrefix`, `StartFinalise`); its state and formulas are named
`Decode...` so that one proof module can hold both (they share the streams and `final`,
which are in `SeqOffsets`). The look-back is replaced by its result (`ResolveFinal`),
which the other module checks. An input comes with the offsets a sequential decoder has
after each sequence; no action reads them. `FromSymbols` and `Decodable` say what
`PrefixSequenceOffsets` expects of the triples it is given; `KernelsFit` proves that the
kernel before it leaves such triples.

### PropagateFseIndex

The kernel that resolves "Repeat" among FSE tables. `Published` is STEP 1 and
2, `NeedsLookback` and `LookBack` STEP 3, `StoreResult` STEP 4. The reference is
the sequential pass `zstdgpu_PropagateFseIndexCpu` with which the demo compares
the kernel.

### ParseCompressedBlocks, GroupSearch

One process per wave; one action per atomic whose result is used. Block-ordered
appends are in terms of what `OrderedAppend` promises: a wave may take its
result when all the earlier ones have got as far (`OrderedStep`). Literal bytes,
Huffman slots and FSE tables are handed out in the order of arrival. The part
"what the kernels behind the barrier make of it" is `ComputePrefixSum` and the
search of `DecompressLiterals`, as functions of the final state.

The parsing of bits is abstracted: a block is a record of what its headers say
(`Header`). A raw or RLE literal section is one case, as neither uses a stream.

`GroupSearch` has the two binary searches and the count of groups. The searches
are one loop, `Bisect`, written without branches in the code: the width is halved,
rounded up, until it is one.

### FrameLayout, BlockOutput

`FrameLayout` is what `ParseFrames` leaves, as functions of the frames: the pass
that counts, the prefix sums, the pass that fills the lists, and the counter of
frames. The requests of the run are built from it.

`BlockOutput` is the three kernels that write the output. What comes before them is
an input: the lists of blocks, sizes, literals and sequences.

| model | code |
|---|---|
| `kernel`, `ran` | the dispatch that runs, the threads of it that have ended |
| `destOffs` | `BlockDestOffs` |
| `out` | `UnCompressedFramesData`, with a mark for a byte not yet written |
| `reg[w]` | the registers of the wave of a frame: where it is in its blocks, sequences, literals and output |
| `todo[w]`, `pass[w]` | the copies a wave is about to make, and the pass of the first one: bytes begun, lanes that have not stored, what was latched |
| `ComputeDestBlockOffset` | a thread of `ComputeDestBlockOffsets` |
| `Fill` | a thread of `MemsetMemcpy`, for raw bytes and for RLE bytes |
| `LoadBlock`, `LoadPair`, `LoadOne`, `LoadRest`, `EndBlock` | the loops of `zstdgpu_ShaderEntry_ExecuteSequences` |
| `ExecutePair`, `Execute`, `FusedPair`, `Fused`, `CopyLiterals`, `MatchCopy` | the ways a sequence is copied, fused or not |
| `Latch`, `StartPass`, `Lane`, `EndCopy` | the loops over lanes of `zstdgpu_MemCpy_DstSrc`, `zstdgpu_MemSet` and of the match copy |

A wave copies a pass of `LaneCount` bytes at once. The lanes of a pass load and
store in any order: that is what the guards of the fused copies (`PairFits`) must
allow for. A match that overlaps itself reads what it repeats beforehand (`Latch`).

The reference is the sequential decoder of the instance: which byte is where, and
where output and literals are at each sequence. No action reads it. Bytes are
opaque, "the k-th literal of this block", so a byte in the wrong place or from the
wrong block is always seen.

The wave of the last frame goes through all the compressed blocks that are left, as
`Counters.Frames`, which bounds the waves, counts only what begins with the magic
number, while the tables of first blocks cover all that was given. `FramesComplete`
shows that this does no harm here. In `FinaliseSequenceOffsets`
(`zstdgpu_shaders.h:3665`) the same counter bounds a *search* over the frames given,
where a chunk of another kind in front of others would hide the last ones; the demo
puts such a chunk last. That path is assumed away in `DecodeSequenceOffsets`, whose
chunks are all frames.

### MultiHeap, DStorageLoader, BulkLoad

`MultiHeap` is the allocator of a set of files (`TryAllocate` one step, `Allocate` the
test and the allocations that follow it); `DStorageLoader` the deque, the
callback and the work items that decompress on the CPU; `BulkLoad` extends both with
the files, the manager, the waits and the main loop of the demo, and with
DirectStorage as the code uses it.

| model | code |
|---|---|
| `file`, `status` | `m_state`, `m_statusArray` of a `MarcFile` |
| `places`, `data` | where its textures and buffer are; what is there |
| `armed`, `signalled` | the `EventWait`s that wait, the events that are set |
| `queue[q]` | per queue the batches enqueued: reads under way, whether all went well, status entry, event |
| `heaps`, `manager` | `m_texturesHeap`, `m_buffersHeap`, `m_state` of `MarcFileManager` |
| `app`, `loop`, `ids`, `shown` | `m_state` of the demo, the loop its `Update` is in, the models it draws |
| `custom`, `event`, `callback`, `deque`, `works`, `working` | the custom decompression queue and its event, the callback, `g_decompressionRequests`, submitted and running work items |
| `OnHeaderLoaded` ... `OnGpuDataLoaded` | the handlers, whole: they hold the lock of the file |
| `Add`, `SkipFile`, `StartContentLoad`, `EndSetNextSet` | a turn of the loops of the manager |
| `SetNextSet`, `ShowSet`, `StopShowing`, `UnloadSet`, `NothingNew` | a call of `Update` by the state it finds |
| `StartCallback` ... `Rearm`, `StartWork`, `SetRequestResult` | `OnCustomDecompressionRequestsAvailable`, `DecompressionWork` |

The main thread's loops are not atomic: handlers run between two turns. The order
of a set is a shuffle, here a choice among `Orders`. A read that fails leaves its
status entry false, except that of the metadata, whose result nothing looks at:
`FailAssumption` has it succeed. What its handler asks of the device either is there
for every file or for none (`Device4`): without it all files end in an error and no set
has a model.

A file that fails at its CPU data, or has blend shapes, is in Error at once, and its
set may count as loaded while its GPU read is under way (`MarcFile.cpp:257`). The next
set clears the heaps, so its place is given to another file. The model tells by `data`
whose bytes are there: the file's own, those of such a late read ("stray"), or those of
a file in good order ("other"). Two invariants are about it:

- `ShownSettled` holds: while a model is drawn nothing is on its way to its places, as
  the event of its own read is set after every read enqueued before; and what came
  earlier is its own data or stray, never that of a file in good order.
- `ShownIntact`, that a model that is drawn has its own data, is what
  `OnAllDataLoaded` says ("At this point all of the data is there"), and does not hold,
  so it is in no run. Given to TLC as a further invariant of `BulkLoad.cfg` it is
  violated within seconds, after 61 states. `blend` and `whole` both end in an error with their
  GPU reads under way; the set counts as loaded, is shown (nothing is drawn) and
  unloaded; the heaps are cleared and `spare` gets the place of `blend`. Reads of a
  queue end in any order: that of `spare` ends, then that of `blend` over it. Now the
  event of `spare` is set and `spare` is drawn with the data of `blend`. Time is not
  modelled: the demo unloads a set ten seconds after its load began, so the read has
  to be that slow, but nothing in the code waits for it or cancels it.

### Dispatch

`UpdateDispatchArgs` writes the arguments of all the slots, for any counts;
`DispatchIndirect` starts a kernel; `IssueGroup` issues the next group of a
record and marks the elements its threads work on. `workaround` selects the
path of GPUs where the shader fetches the count itself, through an encoded
slot (`Constants`, `WorkItemCount`). A row has `PerDim` groups (2^15 in the code), while
the API allows `DimLimit` (2^16 - 1) in a dimension. The code bounds x by splitting; that
the rows in y stay within the limit as well follows from the counts, which are
below half the range of a word (`LimitAssumption`: 2^31 is 2^16 rows of 2^15). With the
workaround the one record has all its groups in x, which the GPUs that need it
allow, as the comment in `zstdgpu_EmitDispatch` says.

### StagePipeline

The CPU side of a request, and the GPU as the queue of what the CPU submits. A
stage is one command: what matters here is whether it runs, and on which buffers.

| model | code |
|---|---|
| `setup`, `maxCount` | `setupFlags`, `zstdRawBlockCountMax` and its four siblings |
| `res[s]` | `gpuOnly_Heap`, `_HeapOffset`, `_ByteCount` of a stage, and its buffers |
| `counters`, `cpuCounters`, `predicate` | `Counters`, `CountersCpu`, `Predicate` |
| `SetupConstants`, `SetupAllStageSubmission` | the setup calls |
| `SubmitStage`, `SubmitAllStages` | the four `Submit...Memory` functions |
| `RunStage0`, `RunStage1` | `ParseFrames`, `ParseCompressedBlocks`, each with `UpdateDispatchArgs` |
| `SkipStage`, `Readback` | a predicated stage, `zstdgpu_PushReadback` |

A caller is a record: which flags it sets, whether it submits stage by stage or
all at once, whose memory it uses, and whether the constants it gives are enough
(`exact`). It follows the demo: it waits for the GPU where
`zstdgpu_IsReadbackRequired` says so. Sizes are in units of the placement
alignment, with one buffer of each kind.

Three runs show what the code does against what it says:

- `block_info_only`: with the constants of stage 2 alone, stage 0 compares the
  block counts with maxima of zero and sets the predicates. Stage 2, which is
  predicated, is never run.
- `frame_info_short`: with the constants of stage 1 alone and too small, stage 1
  is turned off and stage 2 is not.
- `context_reuse`: a context used again keeps a buffer that is too small when the
  total of its stage is large enough.

The passing run therefore leaves these callers out, and the theorems are about the
others: `SafeCaller` excludes constants of stage 2 alone without a single submission,
constants of stage 1 alone that are too small, and a caller that asks for a single
submission and then submits stage by stage; `SafeUse` also excludes a context used
again with the library's memory. `MCStagePipeline` has TLC evaluate that the callers of
the passing run are safe (`CallersSafe`).

## The runs

| run | instance | shows |
|---|---|---|
| `prefix_sum` | 4 blocks, counts 0 or 1, 3 resident | words, walks and results are right in every interleaving; refinement of `OrderedAppend` with liveness |
| `sequence_offsets_prefix` | 5 streams in waves of 2, one more frame at most, 3 resident | torn triples do no harm; the composition is the sequential one; every wave ends |
| `sequence_offsets` | 3 streams of 1 or 2 sequences, 4 codes, every choice of frames | distances are the sequential decoder's |
| `fse_index` | 5 streams in waves of 2, two tables, Repeat, Unused; 2 resident | result of the sequential pass; every wave ends |
| `parse_blocks` | 4 blocks in 2 waves, 4 kinds of block, 2 frames | nothing overlaps; each literal stream is decoded once with its table |
| `dispatch` | 2 slots, rows of 2 groups, counts 0 to 7, arguments computed twice | each element once, groups in order |
| `stage_pipeline` | 4 requests, 14 callers, two requests in a row | no stage runs beyond its buffers; what fits is not refused; buffers stay in their heaps |
| `block_output` | waves of 4 lanes, requests of 1 to 4 frames | every byte written is the sequential decoder's, in any order of lanes and waves; when the waves have ended none is missing |
| `bulk_load` | 3 archives of which 2 fit, 2 orders, 3 reads that may fail | no call in a wrong state, no work item without a request; nothing is on its way to what is drawn; every set loads |
| `block_info_only` | one caller | expected violation, see StagePipeline |
| `frame_info_short` | one caller | expected violation |
| `context_reuse` | one caller, one context | expected violation |

Why these bounds are enough for the interesting cases:

- Four blocks let a wave walk over two Self words, then meet a Full word, while
  the block between upgrades. Residency below the number of blocks lets a wave
  wait for one that is not launched. Counts 0 and 1 tell a skipped or a doubled
  block; `Cap` is 8, above every sum, as the encoders' assertions demand.
- Waves of two lanes have one level of the propagation tree, and five streams
  leave the last wave half empty. A triple is one of two kinds: the symbols
  rotated, one of them less a byte, or a number pushed before slots 1 and 2. The
  two do not commute and between them read every slot; both are open at the end
  of the wave, so blocks publish Self first; only the first stream of a frame
  makes a triple all numbers.
- The codes are a repeat of slot 2; slot 1 with no literals, which is slot 2;
  slot 3 with no literals, which is slot 1 minus a byte; and a number. Codes
  that would give a distance below one are left out, as a valid encoder emits
  none.
- The four kinds of block have raw, FSE-coded, direct and treeless literals; one
  and four streams; and all four modes of FSE table. With three literal streams
  per group a table of four streams needs two groups.
- `dispatch`: with rows of two groups and groups of one or two elements, seven
  elements give no row, a row with and without a rest, and three rows. Words
  have 16 values, so an encoded slot has the high bit set as in the code, and a
  limit of three stands to them as 2^16 - 1 to 2^32: seven groups reach it in y.
- `stage_pipeline`: the requests have more blocks than an estimate, more sequences
  than given, no compressed block (so least sizes matter), or the bytes of
  another request in other buffers. Given constants are larger or smaller than
  the counts. Two requests are the least that can leave something stale.

- `block_output`: every pair of sequences with 0 to 2 literals and matches of 3
  or 4 bytes, three being the least of the format, at every distance that may be
  tested against the lengths and the lane count: so both sequences fused, one of
  them, none, and two in one turn or two. Longer matches take several passes, with
  remainders. Three sequences leave one over; RLE literals take the other path;
  a block without bytes and one without sequences are there. Several frames are
  placed in any order, and rejected frames and other chunks come first, in the
  middle and last, or are all there is.
- `bulk_load`: two buffers of three fit, so each order leaves another file out; the
  texture does not fit the first heap. Of each archive a different read may fail;
  one always ends in an error, as it has blend shapes. The read that is compressed
  with zlib can come back, set after set, at any time with respect to the
  callback. It is the only one: several requests at once are left to the theorem
  `NoCallFails`, as a second such read makes the run too long. One request per call of
  `GetRequests1` makes the callback turn. Four
  batches are all a set puts in the GPU queue, but the late read of an earlier one
  makes it full. With two orders and unlimited sets the heaps are reused.

Deadlock is checked in `dispatch` and `bulk_load`, whose programs never stop, and
in `stage_pipeline`, where only a finished caller may stop. The other kernels
stop when all their waves have ended; there the liveness properties say that
they do (`parse_blocks`, `sequence_offsets` and `block_output` are about safety: an
ordered append blocks only on earlier waves, which is what the look-back runs
check, and the loops of the others have a bound).

### Fairness

`Launch` is weakly fair: the GPU issues the next group when a slot is free.
Each wave is weakly fair: a resident wave is scheduled, and a spinning wave does
not starve another resident one. The code relies on both (`for (;;)` loops that
spin on memory). It does not rely on a bound on residency, and neither do the
properties: groups are issued in the order of their indices, which `Dispatch`
shows of the records it computes (`IssuedInOrder`), and a wave waits only for
lower indices; that this order is the one `NextGroup` takes is `IssuesNextGroup`. With groups in any order `ImplementsOrderedAppend` fails.

In `bulk_load` the main thread is weakly fair, as it draws frame after frame, and so
is the rest taken as one: as long as a read, an event, a work item or a handler can
go on, one of them does. That is weaker than fairness to each, and enough, as all of
them together do a bounded amount of work for a set. `SetLoads` would fail if an
event that comes between the last `GetRequests1` and the registration were lost.

## What is proved

Theorems hold for every value of the constants that satisfies the named
assumptions, not only for the instances above.

`Lookback_proofs`, of `PrefixSumLookback`, for any number of blocks, any counts, any residency:

- `TypeCorrect`, `WordsSound`, `WalkExact`, `PrefixCorrect`: the type invariant
  and the three safety properties of the run.
- `Refinement`: the safety part implements that of `OrderedAppend`. Initial
  states map to initial states; `StoreResult` maps to `StoreResult` of the
  promise, every other step to a stutter.

The inductive invariant `LInv` adds to the properties what they lack to be
inductive: the accumulator is zero before the walk and the block's exclusive
prefix after it, `count` is the input's count from launch on, a cell that is not
done still has its count, and where in its life each word is (zero until
`PublishSelf`, Self until `PublishFull` except in block 0). The lemmas
`EncodeExact` (no bit is lost below `Cap`) and `PrefixStep` carry the
arithmetic; there is one lemma per action.

Of `Dispatch`, for any counts, limit of a dimension and sizes of groups:

- `DispatchTypeCorrect`, `ElementsOnce`, `InOrder`: the three properties of the run. The
  first says of every record that x and y are within the limit of a dimension (but for x
  with the workaround); for y it needs that a count is below half the range
  (`RowsWithinLimit`).
- `DispatchNumbersGroups`: an action property. The groups of a kernel are issued one by
  one in the order of their numbers, from zero, over one record or two, and all of them
  before the kernel ends.
- `IssuesNextGroup`: the two modules meet. If the waves launched are those of the groups
  issued, the group that `Dispatch` issues is one that `NextGroup` of
  `PrefixSumLookback` allows, and launching it keeps the two in step. So the order on
  which the look-back's liveness depends is not only assumed.

The invariant says that the records of a slot are those of the count last emitted
for it (`RecordsOK`), and that what has been worked on is a prefix of the elements
(`VisitedUpTo`), as long as the groups issued so far need. `GroupsFollow` and
`ElementsFollow` carry it from one group, and from one record, to the next.

`GroupSearch_proofs`, for any number of slots:

- `BinarySearchFinds`: over prefixes that do not fall, the search ends at the last
  slot whose prefix is not above the element, whichever slots are empty.

The search is a recursive function. That it is defined for every range needs an
induction on the width, which the well-founded recursion theorems would give if
an operator could be passed to them; it is done instead by taking the least
width that fails (`Least`).

`BlockOutput_proofs`, for any request that satisfies `InputsAssumption` (any number
of frames, blocks and sequences, any lengths and distances) and waves of any size:

- `TypeCorrect`: registers stay within their block, lanes within their copy.
- `WritesSequential`: every byte in the output, and every byte a lane is about to
  store, is the sequential decoder's.
- `OutputComplete`: when the waves have ended, no byte is missing.

What makes it inductive is not the output alone but *what is already there*, which
only grows: `Stored` is preserved by any step that stores only right bytes. A wave
may rely on the bytes before a mark in its own frame, on the blocks before the
current one, and on all raw and RLE blocks (`SourceStored`); together that is
everything a match may reach. The copies of a wave are a *plan* (`Plan`): each begins
at or before the mark the one before leaves, fills to its own end, and each of its
lanes reads a literal, or a byte stored before the copy began, or a latched one
(`GoodCopy`). The lemmas `GoodLiterals`, `GoodMatch`, `GoodFused` and `GoodFusedPair` show
that from the guards of the code; in the overlapping match the remainder of the lane
modulo the distance is what takes a byte back to the latched ones (`Repeats`, by
least number again). `DestIsStart` and `FillStores` use `BinarySearchFinds` for the two
kernels before. There is one lemma per action, `NextInv` puts them together, and
`OutputComplete` adds that every compressed block has a wave (`WaveOfBlock`), also
when `Counters.Frames` is below the number of frames given.

`PropagateFseIndex_proofs`, for any streams, indices, residency and the wave sizes
the kernel is compiled for:

- `TypeCorrect`, `WalkSkips`, `StoredSequential`: the three safety properties of
  the run.

Three things meet there. The lanes of a wave are an interval and the next wave
goes on where it ends (`Interval`, `NextBlock`). The tree inside a wave leaves in each
lane the last table named up to it (`TreeResult`, from `StepCarries`: a step doubles
the group within which that is so). The sequential pass is recursive; what it leaves
is the last table named (`Sequential`, by least number). The invariant `IInv` says of
each wave what its word is worth (`WordOK`: the last table named in or before it, or
that there is none in it), and what the lanes that wait still lack.

`SeqOffsets_proofs`, for any streams an encoder can write, any frames, histories and
residency, and the wave sizes the kernel is compiled for:

- `TypeCorrect`, `FullWords`, `WalkComposes`, `StoredSequential`: the four safety
  properties of the run of `PrefixSequenceOffsets`.
- `DecodeTypeCorrect`, `SymbolsTrack`, `FinalsCorrect`, `DistancesAreSequential`: the four
  properties of the run of `DecodeSequenceOffsets`, from `DecodeInvariant`.
- `KernelsFit`: the two modules meet. When `DecompressSequences` has ended, what it
  hands on begins with symbols, leaves no slot unset and is decodable, which is what
  `PrefixSequenceOffsets` assumes, and the decoder that module compares with has the
  history of this one. So the look-back kernel leaves what the pass over the streams
  (`ResolveFinal`) does.

A triple with symbols *stands for* the state after stream i, given that after stream j
(`Rep`): substituting the one gives the other. `Composes` is the algebra: what stands
for i given j, applied to what stands for j given l, stands for i given l; and without
symbols left it is the state itself, whatever is substituted (`Solved`,
`WithoutSymbols`), which is how a first stream cuts the chain. The tree doubles the
group of lanes a lane no longer depends on (`StepCarries`). The invariant `IInv` judges
each *word* on its own (`WordOK`): a Full one is a slot of the decoder's state, a Self
one is what the block published first. So three words of one flag are right together,
even if another wave replaced some of them in between (`AcceptedIs`). The decoder's
states are a recursive function, which exists by least number (`SequentialIs`).

For the three kernels in a row the heart is `UpdateCommutesWithApply`: decoding a sequence
from symbols and then substituting is the same as substituting first and then decoding,
for any history whose numbers are at least the bias. The invariant `DecodeInv` says,
kernel by kernel, that registers, stored offsets and final offsets are symbolic forms
of the history, then numbers. `GroupSearch_proofs` holds what the proofs share: the
binary searches, the lanes of a wave, quotients, and sums over a set of numbers.

`ParseCompressedBlocks_proofs`, for any blocks and waves of any size, all six safety
properties of the run:

- `HuffmanSlots`, `FseTables`, `LiteralRanges`: no two blocks get the same Huffman
  slot, FSE table or literal bytes.
- `LiteralsDecodedOnce`, `SequenceStreams`: every literal stream is decoded once, into
  the bytes and with the table of its block; the sequence streams, and what they are
  given, are in block order.
- `TypeCorrect`.

Each kind of thing handed out has a set of blocks that were served; a counter that
is added to by a whole wave gives its lanes numbers nobody has (`HandOut`). The slots
of one array are taken by two counters, from either end, and do not meet because the
blocks served by either are disjoint and not more than all the blocks (`TwoEnds`). A
table lies in the chunk of its type because no more blocks are served than there are
tables in it (`TablesInside`).

The invariant `Whole` adds what each counter is worth: a sum over the blocks served so
far. A sum of the model is a fold over a set; in the proof it is `SumOver`, which takes
out one element after another, exists by least number and does not depend on the
order. The blocks served have their bytes (`Placed`), their slots lead back to their
literals (`Linked`), the sequence streams hold what belongs to them (`Filled`), and
every frame the least of its streams so far (`Started`). What is numbered in block
order has the sum of the blocks before as its number, so that the parts of two blocks
are apart (`OwnApart`) and together are everything (`OwnCovers`).

`LiteralsDecodedOnce` is about the end, where the counters are final. A slot stands for the
streams of its block and of the blocks after it up to the next one with a table
(`LitsOf`), it has as many groups as those need (`GroupsNeeded`), and the search
leads a group back to its slot (`SlotOfGroupFinds`, from `BinarySearchFinds`). A block
without a table of its own has the last one before it (`OwnerIs`), which exists
because the format says so (`HeadersAssumption`).

`StagePipeline_proofs`, for any requests, counts, estimates, sizes of units and number of
requests in one context:

- `TypeCorrect` (for every caller): among other things every buffer of a stage that is
  submitted exists.
- `StagesFit`, `DecodedWasParsed`, `RefusalsHaveCause`, `ReadBackForThisRequest`: under
  `SafeUse`, four more properties of the run.
- `Places` (for every caller, if no context is used again in memory of the library): the
  buffers of a stage lie in its heap and apart from those of the others.

The hypothesis `SafeUse` cannot go: each of the three runs that find a violation is
outside it by one conjunct (of `SafeCaller`, or the memory that is reused), and what
fails there is a case of `NoOverrun` or of `RefusedOnlyWhenShort`.

The properties speak of a stage when it has run; they follow from `PipelineInv`, which
also speaks of what is pending. Nothing is said about the two command lists apart: what
is submitted and what is still recorded are one sequence (`todo`), and it holds the
stages between the last that has run (`done`) and the next to be submitted (`next`), in
order, followed by a readback where one is required (`QueueOK`). Each of them has the
maxima and the room the CPU had then, which is what it has now, as far as it concerns
that stage (`Says`). `RanOK` says for each stage that has run what the GPU counted and
what it decided (`Stage0Done`, `Stage1Done`, `Stage2Done`); in `Stage1Done` the counts are
final only if stage 1 ran. `RoomOK` ties the buffers to the maxima, `Unused` keeps memory
of an earlier request out, and `SizedByThisRequest` is a conjunct of its own: the counts
read back are those of this request because the CPU waited after the stage that counts
(`QueueOK`). `SubmitSizes` is where sizes are made, `StageTaken` takes a command from the
sequence, `RanFits` draws the conclusion. There is one lemma per action.

`Places` has its own small invariant, since it needs nothing of the order.

`BulkLoad_proofs`, for any files and archives, any heaps, orders, capacity of the queue,
batches of requests and reads that fail:

- `TypeCorrect`, `NoCallFails`, `ModelsSettled`: the three safety properties of the run.
- `ModelsIntact`: `ShownIntact`, which does not hold as it is, holds where no file fails while its reads are
  under way (`[]NoLateReads`): then what is drawn is each model's own data. So the late
  read of a failed file is the only cause.
- `AllocationsApart`: what `Allocate` hands out lies beyond all that the heaps handed out
  before, within them, and apart, whatever the sizes (zero included) and the alignment.
- `PlacesApart`: the places of the files that load or are loaded lie within what the
  heaps hold, and no two of them have a byte in common, set after set.

`ShownSettled` speaks of the moment a model is drawn. What makes it inductive is where
everything is at every other moment. A file is *active* from the start of its load until
it is unloaded or fails. The heaps are cleared only when no file is active (`PhaseOK`),
and after that only give out what is beyond the rest, so active files are apart
(`Within`, `Apart`). A file that failed is not active, is not unloaded, and keeps its
places: they are handed out again while its own reads may be under way. So it cannot be
said that no read under way touches an active file. But the GPU queue sets its events in
order: when the event of a file is set, all batches before its own have been read, and
what comes after belongs to files that were given their places later. `LateApart` says
just that, of the batches *behind* that of the file, or of all of them once its own is
gone. A file is `ContentLoaded` only after its event, so for it they are all. `DataOK`
follows the bytes: nothing has come yet and the read is under way, or the file's own
data is there, or that of a file that failed. `ModelsIntact` adds one conjunct,
`NoStray`, that no such data is anywhere: only the end of a read of a file in Error
makes any, and the hypothesis excludes that.

`NothingFails` rests on `ArmedOK` and `QueueOK` (a wait is armed only in a state in which
its handler may run, a batch of a file is in the queue only while its event is awaited,
and no event is enqueued twice), and on `LoaderOK` for the decompression: the deque
holds one entry for each work item that has not begun or is still to be submitted. `PhaseOK` gives the
states of the files that each state of the manager and of the demo allows. There is one
lemma per action, and `IInv` was checked by TLC on the instance of the run before it
was proved. `Allocate` is a fold of the community modules; its steps are taken from the
recursive function behind it, which exists by least number (`FoldExists`).

Model-checked only: what needs fairness, that is `AllBlocksEnd` of two modules,
`SetLoads`, and the liveness half of `ImplementsOrderedAppend`, as liveness and
`ENABLED` are out of the prover's reach; and that a history, and a sequential decoder,
as assumed exist, which the instances construct.

## Assumptions

- `PrefixAssumption`: every prefix is below `Cap` = 2^30, as the assertions of the
  encoders in `zstdgpu_structs.h:711` and `:717` state. A release build does not test it.
- `CodesAssumption`, `HistoryAssumption` of `DecodeSequenceOffsets`: the history belongs to
  the codes, and no distance is below one.
- `HeadersAssumption`: four literal streams have six bytes at least, and a block that
  reuses a Huffman tree comes after one that has one, as the format says; the kernel
  tests neither (`zstdgpu_shaders.h:1387`). Frames are in block order, from block 0. `NoneAssumption`: the word ~0 is no index.
- `CountAssumption`: a count has not its high bit set, or a shader would take it
  for an encoded slot (`ZstdGpuSrt_PrefixSum.h:44`).
- `InputsAssumption` of `BlockOutput`: what the kernels before leave belongs
  together, distances stay within the frame, and sizes add up, as those of a valid
  encoder do. `LaneAssumption`, `BatchAssumption`, `AlignmentAssumption`: positive sizes.
- `SizesAssumption`, `BoundsAssumption` of `Dispatch` and `CountsAssumption`,
  `BlockSizeAssumption`, `InputsAssumption` of `PropagateFseIndex`: numbers are numbers,
  sizes are positive, and a wave has 1, 2, 4, 8, 16 or 32 lanes.
- `StreamsAssumption` of `SeqOffsets` and `ResidentAssumption`, `BlockSizeAssumption` of
  `PrefixSequenceOffsets`: the same. Its `InputsAssumption` (no slot unset) and
  `DecoderAssumption` (a sequential decoder of the streams meets no offset of zero or
  below) the kernel does not test; `KernelsFit` proves them of what it is given.
- `CallerAssumption`, `CountAssumption`, `BoundAssumption` of `StagePipeline`: callers,
  counts and sizes are of their types and there is a request at least. `SafeUse` is not
  assumed but a hypothesis of the theorems that need it.
- `LimitAssumption` of `Dispatch`: the limit of a dimension is a row at least, and half the
  range of a word is not more than one row beyond it.
- `DeviceAssumption` of `BulkLoad`: the device has the interface or has not; the theorems
  hold of both, the run has one that has it.
- `FailAssumption` of `BulkLoad`: the read of the metadata succeeds, as nothing looks at
  its result (`MarcFile.cpp` passes no status entry for it). `OrdersAssumption`: an
  order names every file exactly once, as a shuffle does. `SizesAssumption`: sizes of
  textures, buffers and heaps are numbers.
- The lanes of one wave see, in a later pass, what the wave stored in an earlier
  one; `ExecuteSequences` has one wave per group and relies on it.
- DirectStorage sets status entries and events of a queue in the order in which they
  were enqueued, after the reads before them; reads themselves end in any order.
- Atomics on one word are coherent, and a barrier between kernels orders all
  their accesses, which is what Direct3D 12 says.

## What is not modelled

In `zstdgpu`: the bits of the format (headers, FSE and Huffman tables, bit buffers),
where a comparison with a reference decoder says more; of the request API the
references to inputs and outputs, the upload callback, descriptor heaps, timestamps,
and the upload and readback heaps, which follow the code of the default heap; the
group-shared cache of the single-stream sequence decoder; corrupt streams; the store
of `BlockSizePrefix` in `ParseCompressedBlocks` and the prefix sums over it, whose
result `BlockOutput` takes as an input (the prefix sum itself is `PrefixSumLookback`);
the limit on the size of a request, which only reports.

In `BulkLoadDemo`: destructors, `Cleanup` and `ShutdownDStorage`, which run once at the
end of the program; fixups, descriptors and drawing; the fence that makes the demo
wait before it unloads (`UnloadSet` comes after it); the time kept by the manager's own
wait; what the decompression computes. A heap of `MultiHeap` is given by its
size: the constructor makes a last heap of no bytes when the total is a multiple
of the heap size, which only wastes an entry.

`CustomDecompression.h` of the benchmark has a thread pool whose wait can miss a
notification; it serves a program that waits for each request before the next, and
the places are listed under the hazards. `GDeflate` has one shared counter, joined
before anything is read; its codec is a submodule that is not here. The other samples
are straight-line calls of an API. MiniArchive, the binding generator, the test
programs, and the copied code (`json.hpp`, `d3dx12.h`, fonts, the MiniEngine under
`Samples/BulkLoadDemo/Core`, the educational decoder) are out of scope. Most of the
repository's lines are of this last kind.

## Plan

Done: the modules above, and proofs of every safety property their runs check.
What would add most:

1. `CustomDecompression`: the benchmark's worker threads, with and without lost
   notifications, and the destructor. Liveness of requests and of the join.
2. `SequenceOutCache`: the group-shared cache of `DecompressSequences`.
3. `GDeflateTiles`: stream layout, round trip of offsets, the bound on the size.
