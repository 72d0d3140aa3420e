------------------------ MODULE PrefixSequenceOffsets ------------------------
(***************************************************************************)
(* The PrefixSequenceOffsets kernel: it turns the final offsets of every   *)
(* sequence stream, which may be symbols, into numbers.                    *)
(*                                                                         *)
(* It is a decoupled look-back again, with two differences from the prefix *)
(* sum.  The value a block publishes is a triple, spread over three words  *)
(* that are written, read and upgraded one at a time; a reader accepts the *)
(* three only if their flags agree.  And the operation is the composition  *)
(* of substitutions, which is associative but does not commute, and which  *)
(* the first stream of a frame cuts.                                       *)
(***************************************************************************)
EXTENDS SeqOffsets, FiniteSets

CONSTANTS
  BlockSize,    \* lanes of a wave
  Inputs,       \* records: offs, the triple of every stream, and first, the
                \* set of the streams that are first in their frame
  Resident      \* how many waves the GPU holds at once

Blocks  == 0 .. ((NumStreams + BlockSize - 1) \div BlockSize) - 1

Lanes(b)    == {i \in Streams : i \div BlockSize = b}
LastLane(b) == CHOOSE i \in Lanes(b) : \A j \in Lanes(b) : j <= i
FirstLane(b) == b * BlockSize

\* The offsets a sequential decoder has after each stream of an input.
SequentialOf(in) ==
  LET after[i \in Streams] ==
        ApplyPrevious(in.offs[i],
                      IF i \in in.first THEN FrameDefaults ELSE after[i - 1])
  IN after

\* A number that no reader takes for a slot nobody has written.
Known == {x \in Offset : ~IsEncoded(x) /\ ~IsUnset(x)}

ASSUME ResidentAssumption == Resident \in Nat \ {0}
ASSUME BlockSizeAssumption == BlockSize \in {1, 2, 4, 8, 16, 32}

\* Stream 0 is the first stream of the first frame that has one; a stream
\* leaves no slot unset, as it begins with three symbols.
FromSymbols(in) ==
  /\ in.offs \in [Streams -> Triple] /\ 0 \in in.first
  /\ \A i \in Streams, k \in Slots : ~IsUnset(in.offs[i][k])

\* The streams are those of an encoder: no offset comes to zero or below.
Decodable(in) == \A i \in Streams : SequentialOf(in)[i] \in [Slots -> Known]

ASSUME InputsAssumption == \A in \in Inputs : FromSymbols(in)
ASSUME DecoderAssumption == \A in \in Inputs : Decodable(in)

VARIABLES
  input,      \* the dispatch's input
  lookback,   \* PerSeqStreamFinalOffset1..3Lookback, zeroed before
  pc,         \* where each wave is
  word,       \* which of the three words each wave accesses next
  o,          \* each lane's offsets
  needs,      \* each lane's needsPropagationAfterLookback
  pub,        \* the three words each wave publishes first
  got,        \* the words each wave has read from its predecessor
  prev        \* each wave's prevBlockIndex

vars == <<input, final, lookback, pc, word, o, needs, pub, got, prev>>

Zeroed  == [flag |-> "Zero", value |-> Number(0)]
Self(x) == [flag |-> "Self", value |-> x]
Full(x) == [flag |-> "Full", value |-> x]

Words(Flag(_), t) == [k \in Slots |-> Flag(t[k])]
NoWords           == [k \in Slots |-> Zeroed]

------------------------------------------------------------------------------
(* The tree propagation over the lanes of a wave. *)

\* A bug: the source is one lane off.
MutPropagateStep(v, group) ==
  [i \in DOMAIN v |-> IF i % group >= group \div 2 THEN ApplyPrevious(v[i], v[i]) ELSE v[i]]

PropagateStep(v, group) ==
  LET Source(i) == (i \div group) * group + (group \div 2) - 1
      InOddHalf(i) == i % group >= group \div 2
  IN IF BlockSize >= group /\ \E i \in DOMAIN v : AnyEncoded(v[i])
       THEN [i \in DOMAIN v |->
               IF InOddHalf(i) THEN ApplyPrevious(v[i], v[Source(i)]) ELSE v[i]]
       ELSE v

\* v is indexed by stream; waves are aligned, so a stream is its lane modulo
\* BlockSize and the groups of lanes are groups of streams.
Propagate(v) ==
  PropagateStep(PropagateStep(PropagateStep(PropagateStep(PropagateStep(v, 2), 4), 8), 16), 32)

LaneRegs(b) == [i \in Lanes(b) |-> o[i]]

------------------------------------------------------------------------------

Init ==
  /\ input \in Inputs
  /\ final = input.offs
  /\ lookback = [b \in Blocks |-> NoWords]
  /\ pc = [b \in Blocks |-> "queued"]
  /\ word = [b \in Blocks |-> 1]
  /\ o = [i \in Streams |-> SequenceOffsets_Init]
  /\ needs = [i \in Streams |-> FALSE]
  /\ pub = [b \in Blocks |-> NoWords]
  /\ got = [b \in Blocks |-> NoWords]
  /\ prev = [b \in Blocks |-> 0]

InFlight == {b \in Blocks : pc[b] \notin {"queued", "done"}}

\* A wave loads its streams, gives the first stream of a frame the default
\* offsets, and works out what it can publish at once.  If propagation inside
\* the wave resolves every lane, it stores the result right away.
Launch(b) ==
  LET start == [i \in Lanes(b) |->
                  IF i \in input.first THEN ApplyPrevious(final[i], FrameDefaults)
                                       ELSE final[i]]
      last == LastLane(b)
      direct == ~AnyEncoded(start[last])
      p == IF direct THEN start ELSE Propagate(start)
      open == {i \in Lanes(b) : AnyEncoded(p[i])}
  IN /\ pc[b] = "queued"
     /\ \A a \in Blocks : a < b => pc[a] # "queued"
     /\ Cardinality(InFlight) < Resident
     /\ o' = [i \in Streams |-> IF i \in Lanes(b) THEN start[i] ELSE o[i]]
     /\ needs' = [i \in Streams |-> IF i \in Lanes(b) THEN i \in open ELSE needs[i]]
     /\ final' = [i \in Streams |->
                    IF i \in Lanes(b) /\ ~direct /\ open = {} THEN p[i] ELSE final[i]]
     /\ pub' = [pub EXCEPT ![b] = IF last \in open THEN Words(Self, p[last])
                                                   ELSE Words(Full, p[last])]
     /\ pc' = [pc EXCEPT ![b] = "publish"]
     /\ UNCHANGED <<input, lookback, word, got, prev>>

WaveNeeds(b) == \E i \in Lanes(b) : needs[i]

NextWord(b) == word' = [word EXCEPT ![b] = IF @ = 3 THEN 1 ELSE @ + 1]

\* A bug: the last of the three stores names the second word once more.
MutCompareStore(b, k, expected, new) ==
  LET j == IF k = 3 THEN 2 ELSE k
  IN lookback' = IF lookback[b][j] = expected
                   THEN [lookback EXCEPT ![b][j] = new]
                   ELSE lookback

CompareStore(b, k, expected, new) ==
  lookback' = IF lookback[b][k] = expected
                THEN [lookback EXCEPT ![b][k] = new]
                ELSE lookback

PublishWord(b) ==
  LET k == word[b]
  IN /\ pc[b] = "publish"
     /\ CompareStore(b, k, Zeroed, pub[b][k])
     /\ NextWord(b)
     /\ pc' = [pc EXCEPT ![b] =
                 IF k < 3 THEN @
                 ELSE IF b # 0 /\ WaveNeeds(b) THEN "read"
                 ELSE IF needs[LastLane(b)] THEN "upgrade" ELSE "store"]
     /\ prev' = [prev EXCEPT ![b] = IF b # 0 THEN b - 1 ELSE 0]
     /\ UNCHANGED <<input, final, o, needs, pub, got>>

\* Bugs: only the flag of the last word counts; a walk ends at Self.
MutSameFlag(w, flag) == w[3].flag = flag
MutEndsWalk(w, p) == \A k \in Slots : w[k].flag = "Self"

\* AND'ing the three flags is not zero only if they are all the same.
SameFlag(w, flag) == \A k \in Slots : w[k].flag = flag

EndsWalk(w, p) == SameFlag(w, "Full") \/ p = 0

\* The first lane reads the three words one by one.  With the third it decides:
\* apply them and stop, apply them and walk on, or read the three again.
ReadWord(b) ==
  LET k == word[b]
      w == [got[b] EXCEPT ![k] = lookback[prev[b]][k]]
      accepted == k = 3 /\ (SameFlag(w, "Self") \/ SameFlag(w, "Full"))
      last == accepted /\ EndsWalk(w, prev[b])
      values == [j \in Slots |-> w[j].value]
  IN /\ pc[b] = "read"
     /\ NextWord(b)
     /\ got' = [got EXCEPT ![b] = IF k = 3 THEN NoWords ELSE w]
     /\ o' = [o EXCEPT ![FirstLane(b)] = IF accepted THEN ApplyPrevious(@, values) ELSE @]
     /\ prev' = [prev EXCEPT ![b] = IF accepted /\ ~last THEN @ - 1 ELSE @]
     /\ pc' = [pc EXCEPT ![b] = IF ~last THEN @
                                ELSE IF needs[LastLane(b)] THEN "upgrade" ELSE "store"]
     /\ UNCHANGED <<input, final, lookback, needs, pub>>

\* A wave whose last lane was open upgrades its words from Self to Full.
UpgradeWord(b) ==
  LET k == word[b]
      p == Propagate(LaneRegs(b))
  IN /\ pc[b] = "upgrade"
     /\ CompareStore(b, k, pub[b][k], Full(p[LastLane(b)][k]))
     /\ NextWord(b)
     /\ pc' = [pc EXCEPT ![b] = IF k < 3 THEN @ ELSE "store"]
     /\ UNCHANGED <<input, final, o, needs, pub, got, prev>>

\* If any lane was open all lanes store, otherwise only a first stream does.
StoreResult(b) ==
  LET p == Propagate(LaneRegs(b))
  IN /\ pc[b] = "store"
     /\ final' = [i \in Streams |->
                    IF i \in Lanes(b) /\ WaveNeeds(b) THEN p[i]
                    ELSE IF i \in Lanes(b) \cap input.first THEN o[i]
                    ELSE final[i]]
     /\ pc' = [pc EXCEPT ![b] = "done"]
     /\ UNCHANGED <<input, lookback, word, o, needs, pub, got, prev>>

Wave(b) == PublishWord(b) \/ ReadWord(b) \/ UpgradeWord(b) \/ StoreResult(b)

Next == \E b \in Blocks : Launch(b) \/ Wave(b)

Fairness == \A b \in Blocks : WF_vars(Launch(b)) /\ WF_vars(Wave(b))

Spec == Init /\ [][Next]_vars /\ Fairness

------------------------------------------------------------------------------

WordSet == [flag : {"Zero", "Self", "Full"}, value : Offset]

TypeOK ==
  /\ input.offs \in [Streams -> Triple]
  /\ final \in [Streams -> Triple]
  /\ lookback \in [Blocks -> [Slots -> WordSet]]
  /\ pc \in [Blocks -> {"queued", "publish", "read", "upgrade", "store", "done"}]
  /\ word \in [Blocks -> Slots]
  /\ o \in [Streams -> Triple]
  /\ needs \in [Streams -> BOOLEAN]
  /\ pub \in [Blocks -> [Slots -> WordSet]]
  /\ got \in [Blocks -> [Slots -> WordSet]]
  /\ prev \in [Blocks -> Blocks]

\* The offsets a sequential decoder has after each stream.
Sequential == SequentialOf(input)

\* Any Full word, seen at any time, is what a sequential decoder has in that
\* slot after the last stream of the block: three Full words are a triple of
\* one decoder state although they are written one at a time.
FullWordsSequential ==
  \A b \in Blocks, k \in Slots :
    lookback[b][k].flag = "Full" =>
      lookback[b][k].value = Sequential[LastLane(b)][k]

\* A wave that walks never loses what it has composed: substituting what a
\* sequential decoder has before the blocks still to read gives what it has
\* after the wave's first stream, whatever mix of Self and Full was read.
WalkComposesSequentially ==
  \A b \in Blocks :
    pc[b] = "read" =>
      ApplyPrevious(o[FirstLane(b)], Sequential[LastLane(prev[b])])
        = Sequential[FirstLane(b)]

\* When a wave ends, its streams hold the sequential decoder's offsets, in
\* every frame, and no symbol is left.
StoredOffsetsSequential ==
  \A b \in Blocks :
    pc[b] = "done" =>
      \A i \in Lanes(b) : final[i] = Sequential[i] /\ ~AnyEncoded(final[i])

\* Rereading torn triples does not go on forever: every wave ends.
AllBlocksEnd == \A b \in Blocks : <>(pc[b] = "done")

==============================================================================
