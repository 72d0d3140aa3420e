-------------------------- MODULE PropagateFseIndex --------------------------
(***************************************************************************)
(* The PropagateFseIndex kernel.  A sequence stream names the FSE table it *)
(* decodes with, or says Repeat: the table of the last stream before it    *)
(* that named one.  Unused marks a stream that has no table.  Streams are  *)
(* spread over waves, and Repeat is resolved with a look-back in which     *)
(* every block publishes exactly one word, computed from its own lanes:    *)
(* its last named table, or Unused if it names none.                       *)
(***************************************************************************)
EXTENDS Integers, FiniteSets

CONSTANTS
  NumStreams,   \* sequence streams
  BlockSize,    \* lanes of a wave
  Repeat,       \* kzstdgpu_FseProbTableIndex_Repeat
  Inputs,       \* the index vectors considered
  Resident      \* how many waves the GPU holds at once

Unused  == Repeat + 1
Indices == 0 .. Unused
Streams == 0 .. NumStreams - 1
Blocks  == 0 .. ((NumStreams + BlockSize - 1) \div BlockSize) - 1

ASSUME CountsAssumption == NumStreams \in Nat \ {0} /\ Resident \in Nat \ {0} /\ Repeat \in Nat
ASSUME BlockSizeAssumption == BlockSize \in {1, 2, 4, 8, 16, 32}
ASSUME InputsAssumption == Inputs \subseteq [Streams -> Indices]

NotReady == -1      \* a zeroed word: the Ready bit is clear

VARIABLES
  input,      \* history: SeqStreamToXxxxFseId before the dispatch
  fseIds,     \* SeqStreamToXxxxFseId, updated in place
  lookback,   \* FseIndexLookbackXxxx, zeroed before
  pc,         \* where each wave is
  prev,       \* each wave's prevBlockIndex
  found       \* each wave's fseTableIndexLookback

vars == <<input, fseIds, lookback, pc, prev, found>>

Valid(x) == x < Repeat

Lanes(b)     == {i \in Streams : i \div BlockSize = b}
FirstLane(b) == b * BlockSize
LastLane(b)  == CHOOSE i \in Lanes(b) : \A j \in Lanes(b) : j <= i
LaneIds(b)   == [i \in Lanes(b) |-> fseIds[i]]

\* One step of the tree that carries named tables to the lanes behind them.
PropagateStep(x, group) ==
  LET Source(i) == (i \div group) * group + (group \div 2) - 1
      InOddHalf(i) == i % group >= group \div 2
  IN IF BlockSize < group THEN x
     ELSE [i \in DOMAIN x |->
             IF InOddHalf(i) /\ ~Valid(x[i]) /\ Valid(x[Source(i)])
               THEN x[Source(i)] ELSE x[i]]

Propagate(x) ==
  PropagateStep(PropagateStep(PropagateStep(PropagateStep(PropagateStep(x, 2), 4), 8), 16), 32)

\* Bugs: without the tree, a block tells its last lane's table only; a block
\* without a table does not set the Ready bit.
MutPublished(b) == IF Valid(fseIds[LastLane(b)]) THEN fseIds[LastLane(b)] ELSE Unused
MutPublishedUnready(b) ==
  IF \E i \in Lanes(b) : Valid(fseIds[i]) THEN Propagate(LaneIds(b))[LastLane(b)]
                                         ELSE NotReady

\* STEP 1 and STEP 2: what the block tells the blocks behind it.
Published(b) ==
  IF \E i \in Lanes(b) : Valid(fseIds[i]) THEN Propagate(LaneIds(b))[LastLane(b)]
                                         ELSE Unused

\* The lanes that are not Unused, and the first of them.
Used(b)      == {i \in Lanes(b) : fseIds[i] # Unused}

\* A bug: Unused lanes are not passed over.
MutFirstUsed(b) == FirstLane(b)

FirstUsed(b) == CHOOSE i \in Used(b) : \A j \in Used(b) : i <= j

\* STEP 3: the block needs its predecessors if its first stream says Repeat.
NeedsLookback(b) == b # 0 /\ Used(b) # {} /\ fseIds[FirstUsed(b)] = Repeat

------------------------------------------------------------------------------

Init ==
  /\ input \in Inputs
  /\ fseIds = input
  /\ lookback = [b \in Blocks |-> NotReady]
  /\ pc = [b \in Blocks |-> "queued"]
  /\ prev = [b \in Blocks |-> 0]
  /\ found = [b \in Blocks |-> Unused]

InFlight == {b \in Blocks : pc[b] \notin {"queued", "done"}}

Launch(b) ==
  /\ pc[b] = "queued"
  /\ \A a \in Blocks : a < b => pc[a] # "queued"
  /\ Cardinality(InFlight) < Resident
  /\ pc' = [pc EXCEPT ![b] = "publish"]
  /\ UNCHANGED <<input, fseIds, lookback, prev, found>>

Publish(b) ==
  /\ pc[b] = "publish"
  /\ lookback' = IF lookback[b] = NotReady THEN [lookback EXCEPT ![b] = Published(b)]
                                           ELSE lookback
  /\ pc' = [pc EXCEPT ![b] = IF NeedsLookback(b) THEN "lookBack" ELSE "store"]
  /\ prev' = [prev EXCEPT ![b] = IF b # 0 THEN b - 1 ELSE 0]
  /\ found' = [found EXCEPT ![b] = fseIds[FirstLane(b)]]
  /\ UNCHANGED <<input, fseIds>>

\* A bug: the walk does not stop at block 0.
MutEndsWalk(x, p) == x # Unused

EndsWalk(x, p) == x # Unused \/ p = 0

\* One turn of the loop on a word that is Ready: a named table ends the walk,
\* Unused sends it one block back, and block 0 ends it in any case.
LookBack(b) ==
  LET x == lookback[prev[b]]
  IN /\ pc[b] = "lookBack"
     /\ x # NotReady
     /\ found' = [found EXCEPT ![b] = IF x # Unused THEN x ELSE @]
     /\ prev' = [prev EXCEPT ![b] = IF EndsWalk(x, @) THEN @ ELSE @ - 1]
     /\ pc' = [pc EXCEPT ![b] = IF EndsWalk(x, prev[b]) THEN "store" ELSE @]
     /\ UNCHANGED <<input, fseIds, lookback>>

\* STEP 4: the first stream takes what was found, the other Repeats take what
\* the tree brings them.
StoreResult(b) ==
  LET x == [i \in Lanes(b) |->
              IF NeedsLookback(b) /\ i = FirstUsed(b) THEN found[b] ELSE fseIds[i]]
      propagated == Propagate(x)
  IN /\ pc[b] = "store"
     /\ fseIds' = [i \in Streams |->
                     IF i \notin Lanes(b) THEN fseIds[i]
                     ELSE IF x[i] = Repeat THEN propagated[i] ELSE x[i]]
     /\ pc' = [pc EXCEPT ![b] = "done"]
     /\ UNCHANGED <<input, lookback, prev, found>>

Wave(b) == Publish(b) \/ LookBack(b) \/ StoreResult(b)

Next == \E b \in Blocks : Launch(b) \/ Wave(b)

Fairness == \A b \in Blocks : WF_vars(Launch(b)) /\ WF_vars(Wave(b))

Spec == Init /\ [][Next]_vars /\ Fairness

------------------------------------------------------------------------------

TypeOK ==
  /\ input \in [Streams -> Indices]
  /\ fseIds \in [Streams -> Indices]
  /\ lookback \in [Blocks -> Indices \cup {NotReady}]
  /\ pc \in [Blocks -> {"queued", "publish", "lookBack", "store", "done"}]
  /\ prev \in [Blocks -> Blocks]
  /\ found \in [Blocks -> Indices]

\* The sequential propagation the tests compare the kernel with
\* (zstdgpu_PropagateFseIndexCpu): the last table named up to each stream.
LastNamed ==
  LET last[i \in Streams] ==
        IF Valid(input[i]) THEN input[i] ELSE IF i = 0 THEN Unused ELSE last[i - 1]
  IN last

Propagated(i) == IF input[i] = Repeat THEN LastNamed[i] ELSE input[i]

\* When a wave ends, each of its streams has the table the sequential pass
\* gives it; a stream with no table named before it never gets one.
StoredIndicesSequential ==
  \A b \in Blocks :
    pc[b] = "done" =>
      \A i \in Lanes(b) : IF Valid(Propagated(i)) THEN fseIds[i] = Propagated(i)
                                                  ELSE ~Valid(fseIds[i])

\* A walk never passes over a block that names a table.
WalkSkipsOnlyUnnamed ==
  \A b \in Blocks :
    pc[b] = "lookBack" =>
      \A i \in Streams : LastLane(prev[b]) < i /\ i < FirstUsed(b) => ~Valid(input[i])

\* The word of a block depends on its own lanes only, so every wave ends.
AllBlocksEnd == \A b \in Blocks : <>(pc[b] = "done")

==============================================================================
