------------------------------ MODULE MultiHeap ------------------------------
(***************************************************************************)
(* MultiHeap: several heaps, each filled from its start and emptied as a   *)
(* whole.  A heap is a record of its size and of the offset that is next.  *)
(***************************************************************************)
EXTENDS Integers, Sequences, SequencesExt

CONSTANT Alignment   \* D3D12_DEFAULT_RESOURCE_PLACEMENT_ALIGNMENT

ASSUME AlignmentAssumption == Alignment \in Nat \ {0}

AlignUp(n) == ((n + Alignment - 1) \div Alignment) * Alignment

\* A bug: the offset does not move past what was allocated.
MutNextOffset(entry, n) == AlignUp(entry.next)

NextOffset(entry, n) == AlignUp(entry.next + n)

Clear(heaps) == [i \in DOMAIN heaps |-> [heaps[i] EXCEPT !.next = 0]]

\* A bug: a heap that is not full has room.
MutHeapsWithRoom(heaps, n) == {i \in DOMAIN heaps : AlignUp(heaps[i].next) < heaps[i].size}

\* TryGetHeapEntryForAllocation takes the first of these.
HeapsWithRoom(heaps, n) ==
  {i \in DOMAIN heaps : AlignUp(heaps[i].next + n) < heaps[i].size}

\* What was done so far, and the next allocation: at the start of the free bytes
\* of its heap.
TryAllocate(done, n) ==
  LET i == Min(HeapsWithRoom(done.heaps, n))
  IN IF ~ done.ok \/ HeapsWithRoom(done.heaps, n) = {}
       THEN [done EXCEPT !.ok = FALSE]
       ELSE [heaps |-> [done.heaps EXCEPT ![i].next = NextOffset(done.heaps[i], n)],
             at    |-> Append(done.at, [heap |-> i, offs |-> done.heaps[i].next, size |-> n]),
             ok    |-> TRUE]

\* The allocations, one after the other, and the heaps after them; ok, unless
\* one of them found no room.
Allocate(heaps, sizes) ==
  FoldLeft(TryAllocate, [heaps |-> heaps, at |-> <<>>, ok |-> TRUE], sizes)

==============================================================================
