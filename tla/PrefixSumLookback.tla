-------------------------- MODULE PrefixSumLookback --------------------------
(***************************************************************************)
(* The single-pass prefix sum with decoupled look-back that zstdgpu builds *)
(* every ordered compaction on (zstdgpu_GlobalExclusivePrefixSum), as the  *)
(* PrefixSum kernel runs it: one wave per block, all blocks concurrent.    *)
(*                                                                         *)
(* A block publishes the sum of its own counts ("Self"), walks back over   *)
(* the words of its predecessors until it meets an inclusive prefix        *)
(* ("Full") or block 0, then upgrades its own word from Self to Full.      *)
(* Block 0 never upgrades: its Self is already its inclusive prefix, and   *)
(* walkers stop there by index.                                            *)
(*                                                                         *)
(* A wave runs in lock step, so the model has one process per wave, and    *)
(* one action per access to the shared look-back buffer.  The wave         *)
(* intrinsics (WavePrefixSum, WaveReadLaneAt) are the hardware's: the      *)
(* count of a block is what its last lane's inclusive prefix gives.        *)
(***************************************************************************)
EXTENDS Integers, FiniteSets

CONSTANTS
  NumBlocks,   \* number of blocks (waves) of the dispatch
  Inputs,      \* the count vectors considered: a set of [Blocks -> Nat]
  Prefix,      \* Prefix[c][b] is the sum of c[0], ..., c[b-1]
  Cap,         \* 2^30: the values a look-back word can carry
  Resident,    \* how many waves the GPU holds at once
  Inclusive,   \* the kernel's outputInclusive constant
  NotStored    \* what OrderedAppend shows of a block that has not ended

Blocks == 0 .. NumBlocks - 1

ASSUME NumBlocksAssumption == NumBlocks \in Nat \ {0}
ASSUME CapAssumption       == Cap \in Nat \ {0}
ASSUME ResidentAssumption  == Resident \in Nat \ {0}
ASSUME InclusiveAssumption == Inclusive \in BOOLEAN
ASSUME InputsAssumption    == Inputs \subseteq [Blocks -> Nat]

\* The assertions of the encoders: every prefix fits the 30 value bits.
ASSUME PrefixAssumption ==
  \A c \in Inputs :
    /\ Prefix[c][0] = 0
    /\ \A b \in Blocks :
         /\ Prefix[c][b] \in Nat
         /\ Prefix[c][b + 1] = Prefix[c][b] + c[b]
         /\ Prefix[c][b + 1] < Cap

VARIABLES
  input,       \* history: the counts the buffer held before the dispatch
  buffer,      \* inoutInCountsOutPrefix, overwritten in place
  lookback,    \* inoutInCountsOutPrefixLookback, zeroed before the dispatch
  pc,          \* where each wave is
  count,       \* each wave's vgprCount
  prev,        \* each wave's prevBlockIndex
  acc          \* each wave's thisBlockExclusivePrefix

vars == <<input, buffer, lookback, pc, count, prev, acc>>

PCs == {"queued", "publishSelf", "lookBack", "publishFull", "store", "done"}

------------------------------------------------------------------------------
(* The words of the look-back buffer: two flag bits over thirty value bits. *)

Word == [flag : {"Zero", "Self", "Full"}, value : Nat]

Zeroed        == [flag |-> "Zero", value |-> 0]
EncodeSelf(x) == [flag |-> "Self", value |-> x % Cap]

\* A bug: the wrong constant is or-ed in.
MutEncodeFull(x) == EncodeSelf(x)

EncodeFull(x) == [flag |-> "Full", value |-> x % Cap]

\* InterlockedCompareStore
CompareStore(b, expected, new) ==
  lookback' = IF lookback[b] = expected
                THEN [lookback EXCEPT ![b] = new]
                ELSE lookback

------------------------------------------------------------------------------

Init ==
  /\ input \in Inputs
  /\ buffer = input
  /\ lookback = [b \in Blocks |-> Zeroed]
  /\ pc = [b \in Blocks |-> "queued"]
  /\ count = [b \in Blocks |-> 0]
  /\ prev = [b \in Blocks |-> 0]
  /\ acc = [b \in Blocks |-> 0]

InFlight == {b \in Blocks : pc[b] \notin {"queued", "done"}}

\* A bug: groups are issued in any order.
MutNextGroup(b) == pc[b] = "queued"

NextGroup(b) == pc[b] = "queued" /\ \A a \in Blocks : a < b => pc[a] # "queued"

\* The block index is the group index, not a ticket: the wave that runs block
\* b starts when the GPU issues that group.  Groups are issued in order, and
\* only as many as fit; a wave keeps its slot until it ends.
Launch(b) ==
  /\ NextGroup(b)
  /\ Cardinality(InFlight) < Resident
  /\ count' = [count EXCEPT ![b] = buffer[b]]
  /\ pc' = [pc EXCEPT ![b] = "publishSelf"]
  /\ UNCHANGED <<input, buffer, lookback, prev, acc>>

PublishSelf(b) ==
  /\ pc[b] = "publishSelf"
  /\ CompareStore(b, Zeroed, EncodeSelf(count[b]))
  /\ pc' = [pc EXCEPT ![b] = IF b > 0 THEN "lookBack" ELSE "store"]
  /\ prev' = [prev EXCEPT ![b] = IF b > 0 THEN b - 1 ELSE @]
  /\ UNCHANGED <<input, buffer, count, acc>>

\* Bugs: only a Full word ends the walk; it ends at any word; the loop does
\* not wait for a word to be set.
MutFullEndsWalk(w, p) == w.flag = "Full"
MutAnyWordEndsWalk(w, p) == TRUE
MutMayRead(w) == TRUE

EndsWalk(w, p) == w.flag = "Full" \/ p = 0

MayRead(w) == w.flag # "Zero"

\* One turn of the loop on a word that is set; a turn on a zero word only spins.
LookBack(b) ==
  LET w == lookback[prev[b]]
      last == EndsWalk(w, prev[b])
  IN /\ pc[b] = "lookBack"
     /\ MayRead(w)
     /\ acc' = [acc EXCEPT ![b] = @ + w.value]
     /\ pc' = [pc EXCEPT ![b] = IF last THEN "publishFull" ELSE @]
     /\ prev' = [prev EXCEPT ![b] = IF last THEN @ ELSE @ - 1]
     /\ UNCHANGED <<input, buffer, lookback, count>>

PublishFull(b) ==
  /\ pc[b] = "publishFull"
  /\ CompareStore(b, EncodeSelf(count[b]), EncodeFull(acc[b] + count[b]))
  /\ pc' = [pc EXCEPT ![b] = "store"]
  /\ UNCHANGED <<input, buffer, count, prev, acc>>

\* The kernel overwrites the count with the prefix.
StoreResult(b) ==
  /\ pc[b] = "store"
  /\ buffer' = [buffer EXCEPT ![b] = acc[b] + (IF Inclusive THEN count[b] ELSE 0)]
  /\ pc' = [pc EXCEPT ![b] = "done"]
  /\ UNCHANGED <<input, lookback, count, prev, acc>>

Wave(b) == PublishSelf(b) \/ LookBack(b) \/ PublishFull(b) \/ StoreResult(b)

Next == \E b \in Blocks : Launch(b) \/ Wave(b)

\* The GPU issues the next group when a slot is free, and runs every wave it
\* holds: a spinning wave does not starve another one that is resident.
Fairness == \A b \in Blocks : WF_vars(Launch(b)) /\ WF_vars(Wave(b))

Safety == Init /\ [][Next]_vars

Spec == Safety /\ Fairness

------------------------------------------------------------------------------

TypeOK ==
  /\ input \in Inputs
  /\ buffer \in [Blocks -> Nat]
  /\ lookback \in [Blocks -> Word]
  /\ pc \in [Blocks -> PCs]
  /\ count \in [Blocks -> Nat]
  /\ prev \in [Blocks -> Blocks]
  /\ acc \in [Blocks -> Nat]

\* What a reader may conclude from a published word at any time: a Self word
\* is the block's own count, a Full word the sum of everything up to and
\* including the block.  A torn order of the two compare-stores, or an upgrade
\* from a wrong accumulator, breaks it for the blocks behind.
LookbackWordsSound ==
  \A b \in Blocks :
    /\ lookback[b].flag = "Self" => lookback[b].value = input[b]
    /\ lookback[b].flag = "Full" => lookback[b].value = Prefix[input][b + 1]

\* A wave that is walking back has accumulated exactly the blocks between the
\* one it is about to read and itself: none is skipped or counted twice, also
\* when a word is upgraded from Self to Full while it walks.
WalkAccumulatesGap ==
  \A b \in Blocks :
    pc[b] = "lookBack" =>
      /\ prev[b] < b
      /\ acc[b] = Prefix[input][b] - Prefix[input][prev[b] + 1]

\* When a block has ended, its cell holds the sum of the counts that all the
\* earlier blocks had at the start (plus its own if inclusive), although every
\* cell is overwritten in place while other blocks still run.
StoredPrefixCorrect ==
  \A b \in Blocks :
    pc[b] = "done" =>
      buffer[b] = Prefix[input][b] + (IF Inclusive THEN input[b] ELSE 0)

\* The look-back implements the promise made to its callers, also that every
\* block of the dispatch ends: no wave spins forever, whatever the residency,
\* because groups are issued in order.
Abstract == INSTANCE OrderedAppend WITH
  out <- [b \in Blocks |-> IF pc[b] = "done" THEN buffer[b] ELSE NotStored]

ImplementsOrderedAppend == Abstract!Spec

==============================================================================
