---------------------------- MODULE Lookback_proofs ----------------------------
(***************************************************************************)
(* Proofs about the look-back prefix sum and about the dispatch it relies  *)
(* on.                                                                     *)
(*                                                                         *)
(* Of PrefixSumLookback, for every number of blocks, every count vector    *)
(* whose prefixes fit a look-back word, and every residency.  Its three    *)
(* safety properties are not inductive by themselves: they say nothing of  *)
(* the link between a wave's position, its registers and its word.  LInv   *)
(* adds it, and LInv is what every step preserves.                         *)
(*                                                                         *)
(* Of Dispatch, for any slots, group sizes, limit of a dimension and       *)
(* counts, with and without the workaround.  The groups of a kernel, over  *)
(* its one or two records, are numbered from zero without a gap; after any *)
(* number of them the elements worked on are the first ones.               *)
(*                                                                         *)
(* The two meet in the order in which groups are issued: NextGroup, which  *)
(* PrefixSumLookback takes for granted, is what Dispatch does.             *)
(***************************************************************************)
EXTENDS PrefixSumLookback, Dispatch, TLAPS

(***************************************************************************)
(* PrefixSumLookback.                                                      *)
(***************************************************************************)

Unstored(b) == pc[b] # "done"

\* A wave that has started holds its own count in a register, and its cell of
\* the buffer keeps that count until the wave overwrites it.
Registers ==
  \A b \in Blocks :
    /\ pc[b] # "queued" => count[b] = input[b]
    /\ Unstored(b) => buffer[b] = input[b]

\* The word of a block follows the position of its wave.
WordFollowsWave ==
  \A b \in Blocks :
    /\ pc[b] \in {"queued", "publishSelf"} => lookback[b] = Zeroed /\ acc[b] = 0
    /\ pc[b] \in {"lookBack", "publishFull"} =>
         b > 0 /\ lookback[b] = [flag |-> "Self", value |-> input[b]]
    /\ pc[b] \in {"publishFull", "store"} => acc[b] = Prefix[input][b]

LInv ==
  /\ TypeOK
  /\ Registers
  /\ WordFollowsWave
  /\ LookbackWordsSound
  /\ WalkAccumulatesGap
  /\ StoredPrefixCorrect

------------------------------------------------------------------------------

\* An encoder keeps a value that fits.
LEMMA EncodeExact ==
  ASSUME NEW x \in Nat, x < Cap
  PROVE  /\ EncodeSelf(x) = [flag |-> "Self", value |-> x]
         /\ EncodeFull(x) = [flag |-> "Full", value |-> x]
<1>1. x % Cap = x
  BY CapAssumption
<1> QED  BY <1>1 DEF EncodeSelf, EncodeFull

\* What the constants say of one block of one input.
LEMMA PrefixStep ==
  ASSUME NEW c \in Inputs, NEW b \in Blocks
  PROVE  /\ c[b] \in Nat
         /\ c[b] < Cap
         /\ Prefix[c][b] \in Nat
         /\ Prefix[c][b + 1] \in Nat
         /\ Prefix[c][b + 1] = Prefix[c][b] + c[b]
         /\ Prefix[c][b + 1] < Cap
         /\ Prefix[c][0] = 0
<1>1. c[b] \in Nat
  BY InputsAssumption
<1>2. /\ Prefix[c][0] = 0
      /\ Prefix[c][b] \in Nat
      /\ Prefix[c][b + 1] = Prefix[c][b] + c[b]
      /\ Prefix[c][b + 1] < Cap
  BY PrefixAssumption
<1> QED  BY <1>1, <1>2, CapAssumption

\* The dispatch starts with a zeroed look-back buffer.
LEMMA InitLInv == Init => LInv
<1> SUFFICES ASSUME Init PROVE LInv
  OBVIOUS
<1>1. TypeOK
  BY InputsAssumption, NumBlocksAssumption DEF Init, TypeOK, PCs, Word, Zeroed, Blocks
<1>2. Registers /\ WordFollowsWave
  BY DEF Init, Registers, WordFollowsWave, Unstored, Zeroed
<1>3. LookbackWordsSound /\ WalkAccumulatesGap /\ StoredPrefixCorrect
  BY DEF Init, LookbackWordsSound, WalkAccumulatesGap, StoredPrefixCorrect, Zeroed
<1> QED  BY <1>1, <1>2, <1>3 DEF LInv

------------------------------------------------------------------------------
(* One lemma per action. *)

\* The GPU issues a group; the wave reads its count.
LEMMA LaunchLInv ==
  ASSUME LInv, NEW b \in Blocks, Launch(b)
  PROVE  LInv'
<1> USE DEF LInv, Launch, NextGroup
<1>1. TypeOK'
  BY DEF TypeOK, PCs
<1>2. Registers' /\ WordFollowsWave'
  BY DEF TypeOK, Registers, WordFollowsWave, Unstored, PCs
<1>3. LookbackWordsSound' /\ WalkAccumulatesGap' /\ StoredPrefixCorrect'
  BY DEF TypeOK, LookbackWordsSound, WalkAccumulatesGap, StoredPrefixCorrect, PCs
<1> QED  BY <1>1, <1>2, <1>3

\* A wave publishes its own count.
LEMMA PublishSelfLInv ==
  ASSUME LInv, NEW b \in Blocks, PublishSelf(b)
  PROVE  LInv'
<1> USE DEF LInv, PublishSelf
<1>0. /\ input \in Inputs
      /\ count[b] = input[b]
      /\ lookback[b] = Zeroed
      /\ acc[b] = 0
  BY DEF TypeOK, Registers, WordFollowsWave
<1>1. EncodeSelf(count[b]) = [flag |-> "Self", value |-> input[b]]
  BY <1>0, PrefixStep, EncodeExact
<1>2. lookback' = [lookback EXCEPT ![b] = [flag |-> "Self", value |-> input[b]]]
  BY <1>0, <1>1 DEF CompareStore
<1>3. TypeOK'
  <2>1. b > 0 => b - 1 \in Blocks
    BY NumBlocksAssumption DEF Blocks
  <2>2. [flag |-> "Self", value |-> input[b]] \in Word
    BY <1>0, PrefixStep DEF Word
  <2>3. lookback' \in [Blocks -> Word] /\ prev' \in [Blocks -> Blocks]
    BY <1>2, <2>1, <2>2 DEF TypeOK
  <2> QED  BY <2>3 DEF TypeOK, PCs
<1>4. Registers'
  BY DEF TypeOK, Registers, Unstored, PCs
<1>5. WordFollowsWave'
  BY <1>0, <1>2, PrefixStep DEF TypeOK, WordFollowsWave, PCs, Blocks
<1>6. LookbackWordsSound'
  BY <1>2 DEF TypeOK, LookbackWordsSound
<1>7. WalkAccumulatesGap'
  BY <1>0, PrefixStep DEF TypeOK, WalkAccumulatesGap, PCs, Blocks
<1>8. StoredPrefixCorrect'
  BY DEF TypeOK, StoredPrefixCorrect, PCs
<1> QED  BY <1>3, <1>4, <1>5, <1>6, <1>7, <1>8

\* The step that matters: reading a Self word extends the gap by one block,
\* reading a Full word or block 0 closes it.
LEMMA LookBackLInv ==
  ASSUME LInv, NEW b \in Blocks, LookBack(b)
  PROVE  LInv'
<1> USE DEF LInv
<1> DEFINE p == prev[b]
           w == lookback[p]
           last == w.flag = "Full" \/ p = 0
<1>0. /\ input \in Inputs /\ p \in Blocks /\ acc[b] \in Nat /\ w \in Word
      /\ pc[b] = "lookBack" /\ w.flag # "Zero" /\ p < b
      /\ acc[b] = Prefix[input][b] - Prefix[input][p + 1]
  BY DEF TypeOK, LookBack, MayRead, WalkAccumulatesGap
<1>1. /\ acc' = [acc EXCEPT ![b] = acc[b] + w.value]
      /\ pc' = [pc EXCEPT ![b] = IF last THEN "publishFull" ELSE pc[b]]
      /\ prev' = [prev EXCEPT ![b] = IF last THEN p ELSE p - 1]
      /\ UNCHANGED <<input, buffer, lookback, count>>
  BY DEF LookBack, EndsWalk
<1> HIDE DEF p, w, last
<1>2. /\ w.flag \in {"Self", "Full"}
      /\ w.flag = "Self" => w.value = input[p]
      /\ w.flag = "Full" => w.value = Prefix[input][p + 1]
      /\ w.value \in Nat
  BY <1>0 DEF LookbackWordsSound, Word, w
<1>3. /\ Prefix[input][p] \in Nat
      /\ Prefix[input][p + 1] = Prefix[input][p] + input[p]
      /\ Prefix[input][0] = 0
      /\ input[p] \in Nat
      /\ Prefix[input][b] \in Nat
  BY <1>0, PrefixStep
<1>4. CASE last
  <2>1. acc[b] + w.value = Prefix[input][b]
    BY <1>0, <1>2, <1>3, <1>4 DEF last
  <2>2. TypeOK'
    BY <1>0, <1>1, <1>2, <1>4 DEF TypeOK, PCs
  <2>3. Registers' /\ LookbackWordsSound' /\ StoredPrefixCorrect'
    BY <1>0, <1>1, <1>4 DEF TypeOK, Registers, LookbackWordsSound, StoredPrefixCorrect, Unstored
  <2>4. WordFollowsWave'
    BY <1>0, <1>1, <1>4, <2>1 DEF TypeOK, WordFollowsWave
  <2>5. WalkAccumulatesGap'
    BY <1>0, <1>1, <1>4 DEF TypeOK, WalkAccumulatesGap
  <2> QED  BY <2>2, <2>3, <2>4, <2>5
<1>5. CASE ~last
  <2>1. /\ w.value = input[p]
        /\ p - 1 \in Blocks
        /\ acc[b] + w.value = Prefix[input][b] - Prefix[input][p]
    <3>1. w.value = input[p] /\ p # 0
      BY <1>2, <1>5 DEF last
    <3>2. p - 1 \in Blocks
      BY <1>0, <3>1, NumBlocksAssumption DEF Blocks
    <3> QED  BY <1>0, <1>3, <3>1, <3>2
  <2>2. pc' = pc
    BY <1>0, <1>1, <1>5 DEF TypeOK
  <2>3. TypeOK'
    BY <1>0, <1>1, <1>2, <1>5, <2>1, <2>2 DEF TypeOK
  <2>4. Registers' /\ LookbackWordsSound' /\ StoredPrefixCorrect'
    BY <1>1, <2>2 DEF Registers, LookbackWordsSound, StoredPrefixCorrect, Unstored
  <2>5. WordFollowsWave'
    BY <1>0, <1>1, <2>2 DEF TypeOK, WordFollowsWave
  <2>6. WalkAccumulatesGap'
    <3> SUFFICES ASSUME NEW x \in Blocks, pc[x] = "lookBack"
                 PROVE  /\ prev'[x] < x
                        /\ acc'[x] = Prefix[input][x] - Prefix[input][prev'[x] + 1]
      BY <1>1, <2>2 DEF WalkAccumulatesGap
    <3>1. CASE x = b
      <4>1. prev'[b] = p - 1 /\ acc'[b] = acc[b] + w.value
        BY <1>1, <1>5 DEF TypeOK
      <4>2. p - 1 < b /\ (p - 1) + 1 = p
        BY <1>0 DEF Blocks
      <4> QED  BY <3>1, <4>1, <4>2, <2>1
    <3>2. CASE x # b
      BY <1>1, <3>2 DEF TypeOK, WalkAccumulatesGap
    <3> QED  BY <3>1, <3>2
  <2> QED  BY <2>3, <2>4, <2>5, <2>6
<1> QED  BY <1>4, <1>5

\* A wave upgrades its word to the inclusive prefix.
LEMMA PublishFullLInv ==
  ASSUME LInv, NEW b \in Blocks, PublishFull(b)
  PROVE  LInv'
<1> USE DEF LInv, PublishFull
<1>0. /\ input \in Inputs
      /\ b > 0
      /\ count[b] = input[b]
      /\ lookback[b] = [flag |-> "Self", value |-> input[b]]
      /\ acc[b] = Prefix[input][b]
  BY DEF TypeOK, Registers, WordFollowsWave
<1>1. /\ EncodeSelf(count[b]) = lookback[b]
      /\ EncodeFull(acc[b] + count[b]) = [flag |-> "Full", value |-> Prefix[input][b + 1]]
      /\ Prefix[input][b + 1] \in Nat
  <2>1. input[b] \in Nat /\ input[b] < Cap
    BY <1>0, PrefixStep
  <2>2. /\ Prefix[input][b + 1] \in Nat
        /\ Prefix[input][b + 1] < Cap
        /\ acc[b] + count[b] = Prefix[input][b + 1]
    BY <1>0, PrefixStep
  <2> QED  BY <1>0, <2>1, <2>2, EncodeExact
<1>2. lookback' = [lookback EXCEPT ![b] = [flag |-> "Full", value |-> Prefix[input][b + 1]]]
  BY <1>1 DEF CompareStore
<1>3. TypeOK'
  BY <1>1, <1>2 DEF TypeOK, PCs, Word
<1>4. Registers' /\ WalkAccumulatesGap' /\ StoredPrefixCorrect'
  BY DEF TypeOK, Registers, WalkAccumulatesGap, StoredPrefixCorrect, Unstored, PCs
<1>5. WordFollowsWave'
  BY <1>0, <1>2 DEF TypeOK, WordFollowsWave, PCs
<1>6. LookbackWordsSound'
  BY <1>2 DEF TypeOK, LookbackWordsSound
<1> QED  BY <1>3, <1>4, <1>5, <1>6

\* A wave overwrites its count with the result.
LEMMA StoreResultLInv ==
  ASSUME LInv, NEW b \in Blocks, StoreResult(b)
  PROVE  LInv'
<1> USE DEF LInv, StoreResult
<1>0. /\ input \in Inputs
      /\ count[b] = input[b]
      /\ acc[b] = Prefix[input][b]
  BY DEF TypeOK, Registers, WordFollowsWave
<1>1. TypeOK'
  BY <1>0, InclusiveAssumption DEF TypeOK, PCs
<1>2. Registers' /\ WordFollowsWave' /\ LookbackWordsSound' /\ WalkAccumulatesGap'
  BY DEF TypeOK, Registers, WordFollowsWave, LookbackWordsSound, WalkAccumulatesGap,
         Unstored, PCs
<1>3. StoredPrefixCorrect'
  BY <1>0 DEF TypeOK, StoredPrefixCorrect, PCs
<1> QED  BY <1>1, <1>2, <1>3

\* Every step keeps the invariant.
LEMMA NextLInv == LInv /\ [Next]_vars => LInv'
<1> SUFFICES ASSUME LInv, [Next]_vars PROVE LInv'
  OBVIOUS
<1>1. CASE UNCHANGED vars
  BY <1>1 DEF vars, LInv, TypeOK, Registers, WordFollowsWave, LookbackWordsSound,
              WalkAccumulatesGap, StoredPrefixCorrect, Unstored
<1>2. ASSUME NEW b \in Blocks, Launch(b) \/ Wave(b) PROVE LInv'
  BY <1>2, LaunchLInv, PublishSelfLInv, LookBackLInv, PublishFullLInv, StoreResultLInv
     DEF Wave
<1> QED  BY <1>1, <1>2 DEF Next

------------------------------------------------------------------------------

\* LInv holds in every reachable state.
THEOREM LInvAlways == Safety => []LInv
BY InitLInv, NextLInv, PTL DEF Safety

\* Type correctness.
THEOREM TypeCorrect == Safety => []TypeOK
<1>1. LInv => TypeOK
  BY DEF LInv
<1> QED  BY <1>1, LInvAlways, PTL

\* Every published word can be trusted by the blocks behind it.
THEOREM WordsSound == Safety => []LookbackWordsSound
<1>1. LInv => LookbackWordsSound
  BY DEF LInv
<1> QED  BY <1>1, LInvAlways, PTL

\* A walk never skips a block nor counts one twice.
THEOREM WalkExact == Safety => []WalkAccumulatesGap
<1>1. LInv => WalkAccumulatesGap
  BY DEF LInv
<1> QED  BY <1>1, LInvAlways, PTL

\* The kernel computes the prefix sum of its input.
THEOREM PrefixCorrect == Safety => []StoredPrefixCorrect
<1>1. LInv => StoredPrefixCorrect
  BY DEF LInv
<1> QED  BY <1>1, LInvAlways, PTL

\* The look-back implements OrderedAppend: the store of a wave is the
\* abstract step, everything else is invisible to the callers.
THEOREM Refinement == Safety => Abstract!Safety
<1> DEFINE out == [b \in Blocks |-> IF pc[b] = "done" THEN buffer[b] ELSE NotStored]
<1>1. Init => Abstract!Init
  BY DEF Init, Abstract!Init, Abstract!Blocks, Blocks
<1>2. LInv /\ [Next]_vars => [Abstract!Next]_(Abstract!vars)
  <2> SUFFICES ASSUME LInv, [Next]_vars
               PROVE  \/ Abstract!Next
                      \/ UNCHANGED <<input, out>>
    BY DEF Abstract!vars, Abstract!Blocks, Blocks
  <2>0. pc \in [Blocks -> PCs] /\ buffer \in [Blocks -> Nat]
    BY DEF LInv, TypeOK
  <2>1. CASE UNCHANGED vars
    BY <2>1 DEF vars
  <2>2. ASSUME NEW b \in Blocks, Launch(b) \/ PublishSelf(b) \/ LookBack(b) \/ PublishFull(b)
        PROVE  UNCHANGED <<input, out>>
    <3>1. UNCHANGED <<input, buffer>>
      BY <2>2 DEF Launch, NextGroup, PublishSelf, LookBack, PublishFull
    <3>2. \E to \in PCs \ {"done"} : pc[b] # "done" /\ pc' = [pc EXCEPT ![b] = to]
      BY <2>2 DEF Launch, NextGroup, PublishSelf, LookBack, PublishFull, PCs
    <3>3. \A x \in Blocks : pc'[x] = "done" <=> pc[x] = "done"
      BY <2>0, <3>2
    <3> QED  BY <3>1, <3>3
  <2>3. ASSUME NEW b \in Blocks, StoreResult(b)
        PROVE  Abstract!Next
    <3>1. /\ pc[b] = "store" /\ acc[b] = Prefix[input][b] /\ count[b] = input[b]
      BY <2>3 DEF StoreResult, LInv, WordFollowsWave, Registers
    <3>2. /\ buffer' = [buffer EXCEPT ![b] = Prefix[input][b] + (IF Inclusive THEN input[b] ELSE 0)]
          /\ pc' = [pc EXCEPT ![b] = "done"]
          /\ input' = input
      BY <2>3, <3>1 DEF StoreResult
    <3>3. out' = [out EXCEPT ![b] = Prefix[input][b] + (IF Inclusive THEN input[b] ELSE 0)]
      BY <2>0, <3>2
    <3>4. out[b] = NotStored
      BY <3>1
    <3>5. Abstract!StoreResult(b)
      BY <3>2, <3>3, <3>4 DEF Abstract!StoreResult, Abstract!Promised, Abstract!Blocks, Blocks
    <3> QED  BY <3>5 DEF Abstract!Next, Abstract!Blocks, Blocks
  <2> QED  BY <2>1, <2>2, <2>3 DEF Next, Wave
<1> QED  BY <1>1, <1>2, LInvAlways, PTL DEF Safety, Abstract!Safety

------------------------------------------------------------------------------
(***************************************************************************)
(* Dispatch.                                                               *)
(***************************************************************************)

Groups(s) == TgCount(elems[s], TgSize[s])
RowsOf(s) == Groups(s) \div PerDim

Rec(offset, counts, x, y) == [tgOffset |-> offset, workItemCount |-> counts, x |-> x, y |-> y]

\* The records of a slot are those of the count last emitted for it.
RecordsOK(s) ==
  /\ workaround =>
       cnts[s] = 1 /\ args[s] = <<Rec(0, elems[s], Groups(s), 1), NoRecord>>
  /\ ~ workaround /\ RowsOf(s) > 0 =>
       /\ cnts[s] = 2
       /\ args[s] = <<Rec(0, elems[s], PerDim, RowsOf(s)),
                      Rec(RowsOf(s) * PerDim, elems[s], Groups(s) % PerDim, 1)>>
  /\ ~ workaround /\ ~ (RowsOf(s) > 0) =>
       cnts[s] = 1 /\ args[s] = <<Rec(0, elems[s], Groups(s), 1), Rec(0, elems[s], 0, 1)>>

\* The groups issued before record r of slot s.
Start(s, r) ==
  CASE r = 1 -> 0
    [] r = 2 -> IF Records(s) = 2 THEN RowsOf(s) * PerDim ELSE Groups(s)
    [] r = 3 -> Groups(s)

Issued == Start(running, record) + group

VisitedUpTo(n) ==
  visits = [i \in 0 .. MaxElems - 1 |->
              IF i < elems[running] /\ i < n * TgSize[running] THEN 1 ELSE 0]

CountsInv ==
  /\ workaround \in BOOLEAN /\ elems \in [Slots -> 0 .. MaxElems]
  /\ emits \in 0 .. MaxEmits
  /\ emits = 0 => /\ args = [s \in Slots |-> <<NoRecord, NoRecord>>]
                  /\ cnts = [s \in Slots |-> 0]
  /\ emits > 0 => \A s \in Slots : RecordsOK(s)
  /\ cnts \in [Slots -> 0 .. 2]

\* Where the GPU is in a kernel.
RunInv ==
  /\ running \in Slots \cup {Idle} /\ record \in 1 .. 3 /\ group \in Nat
  /\ visits \in [0 .. MaxElems - 1 -> Nat]
  /\ running # Idle =>
       /\ emits > 0
       /\ record <= Records(running) => group <= GroupsOf(running, record)
       /\ record > Records(running) => record = Records(running) + 1 /\ group = 0
       /\ VisitedUpTo(Issued)

DispatchInv == CountsInv /\ RunInv

------------------------------------------------------------------------------
(* Division. *)

\* A quotient and a remainder.
LEMMA Divide ==
  ASSUME NEW n \in Nat, NEW d \in Nat, d > 0
  PROVE  /\ n \div d \in Nat /\ n % d \in 0 .. d - 1
         /\ n = d * (n \div d) + (n % d)
         /\ n = (n \div d) * d + (n % d)
OBVIOUS

LEMMA Grows ==
  ASSUME NEW k \in Nat, NEW d \in Nat, d > 0
  PROVE  k * d \in Nat /\ k <= k * d /\ (k + 1) * d = k * d + d
OBVIOUS

LEMMA NoDivision ==
  ASSUME NEW k \in Nat, NEW n \in Nat, k < n
  PROVE  k % n = k /\ k \div n = 0
<1>1. n \in Nat /\ n > 0 /\ k \div n \in Nat /\ k % n \in 0 .. n - 1 /\ k = (k \div n) * n + (k % n)
  BY Divide
<1>2. k \div n = 0
  <2> DEFINE q == k \div n
  <2>1. ASSUME q >= 1 PROVE FALSE
    <3>1. q \in Nat /\ k >= q * n
      BY <1>1
    <3> HIDE DEF q
    <3>2. q - 1 \in Nat /\ ((q - 1) + 1) * n = (q - 1) * n + n /\ (q - 1) * n \in Nat
      BY <3>1, <2>1, Grows, <1>1
    <3>3. (q - 1) + 1 = q
      BY <3>1
    <3> QED BY <3>1, <3>2, <3>3
  <2> QED BY <2>1, <1>1
<1> QED BY <1>1, <1>2

\* As many groups as the elements need, none of them empty.
LEMMA GroupCount ==
  ASSUME NEW e \in Nat, NEW t \in Nat, t > 0
  PROVE  TgCount(e, t) \in Nat /\ e <= TgCount(e, t) * t /\ TgCount(e, t) <= e
<1> DEFINE a == e + t - 1
           n == a \div t
           r == a % t
<1>1. a \in Nat /\ a = e + (t - 1)
  OBVIOUS
<1>2. n \in Nat /\ r \in 0 .. t - 1 /\ a = n * t + r
  <2> HIDE DEF a
  <2> QED BY <1>1, Divide
<1>3. TgCount(e, t) = n
  BY DEF TgCount
<1> HIDE DEF a, n, r
<1>4. n * t \in Nat /\ e <= n * t
  BY <1>1, <1>2, Grows
<1>5. n <= e
  <2> SUFFICES ASSUME n > e PROVE FALSE
    BY <1>2
  <2>1. n - 1 \in Nat /\ n - 1 >= e /\ (n - 1) * t \in Nat /\ n - 1 <= (n - 1) * t
    BY <1>2, Grows
  <2>2. ((n - 1) + 1) * t = (n - 1) * t + t /\ (n - 1) + 1 = n
    BY <2>1, <1>2, Grows
  <2> QED BY <1>1, <1>2, <2>1, <2>2
<1> QED BY <1>2, <1>3, <1>4, <1>5

------------------------------------------------------------------------------
(* The records of a slot. *)

LEMMA SlotFacts ==
  ASSUME CountsInv, NEW s \in Slots
  PROVE  /\ s \in Nat /\ s # Idle /\ elems[s] \in 0 .. MaxElems
         /\ TgSize[s] \in Nat /\ TgSize[s] > 0
         /\ Groups(s) \in Nat /\ RowsOf(s) \in Nat
         /\ RowsOf(s) * PerDim \in Nat /\ Groups(s) % PerDim \in 0 .. PerDim - 1
         /\ Groups(s) = RowsOf(s) * PerDim + (Groups(s) % PerDim)
         /\ elems[s] <= Groups(s) * TgSize[s] /\ Groups(s) <= elems[s]
         /\ PerDim \in Nat /\ PerDim > 0
<1>1. /\ s \in Nat /\ elems[s] \in 0 .. MaxElems /\ elems[s] \in Nat
      /\ TgSize[s] \in Nat /\ TgSize[s] > 0 /\ PerDim \in Nat /\ PerDim > 0
  BY SizesAssumption, BoundsAssumption DEF CountsInv
<1>2. Groups(s) \in Nat /\ elems[s] <= Groups(s) * TgSize[s] /\ Groups(s) <= elems[s]
  BY <1>1, GroupCount DEF Groups
<1>3. /\ RowsOf(s) \in Nat /\ Groups(s) % PerDim \in 0 .. PerDim - 1
      /\ Groups(s) = RowsOf(s) * PerDim + (Groups(s) % PerDim)
  BY <1>1, <1>2, Divide DEF RowsOf
<1>4. RowsOf(s) * PerDim \in Nat
  BY <1>1, <1>3, Grows
<1>5. s # Idle
  BY <1>1 DEF Idle
<1> QED BY <1>1, <1>2, <1>3, <1>4, <1>5

\* What a record holds.
LEMMA RecordFacts ==
  ASSUME CountsInv, NEW s \in Slots, RecordsOK(s), NEW r \in 1 .. 2, r <= Records(s)
  PROVE  /\ Records(s) \in {1, 2} /\ args[s][r].workItemCount = elems[s] /\ args[s][1].workItemCount = elems[s]
         /\ Records(s) = 1 => /\ r = 1 /\ args[s][r].x = Groups(s) /\ args[s][r].y = 1
                              /\ args[s][r].tgOffset = 0
         /\ Records(s) = 2 =>
              /\ ~ workaround
              /\ r = 1 => args[s][r].x = PerDim /\ args[s][r].y = RowsOf(s) /\ args[s][r].tgOffset = 0
              /\ r = 2 => /\ args[s][r].x = Groups(s) % PerDim /\ args[s][r].y = 1
                          /\ args[s][r].tgOffset = RowsOf(s) * PerDim
<1>1. CASE workaround
  BY <1>1 DEF RecordsOK, Records, Rec
<1>2. CASE ~ workaround /\ RowsOf(s) > 0
  BY <1>2 DEF RecordsOK, Records, Rec
<1>3. CASE ~ workaround /\ ~ (RowsOf(s) > 0)
  BY <1>3 DEF RecordsOK, Records, Rec
<1> QED BY <1>1, <1>2, <1>3

\* The shader finds the count, whichever way it is told.
LEMMA CountFound ==
  ASSUME CountsInv, NEW s \in Slots, RecordsOK(s), NEW r \in 1 .. 2, r <= Records(s)
  PROVE  /\ WorkItemCount(s, r) = elems[s]
         /\ Constants(s, r).tgOffset = args[s][r].tgOffset
<1>1. /\ args[s][r].workItemCount = elems[s] /\ args[s][1].workItemCount = elems[s]
      /\ Records(s) \in {1, 2}
      /\ workaround => Records(s) = 1 /\ args[s][r].tgOffset = 0
  BY RecordFacts DEF Records
<1>2. /\ s \in Nat /\ elems[s] \in Nat /\ elems[s] < WordSize \div 2 /\ s < WordSize \div 2
      /\ WordSize \in Nat /\ WordSize \div 2 \in Nat
  BY SlotFacts, CountAssumption, SizesAssumption, BoundsAssumption
<1>3. CASE workaround
  <2>1. Constants(s, r).workItemCount = WordSize - 1 - s /\ Constants(s, r).tgOffset = 0
    BY <1>3 DEF Constants
  <2>2. WordSize - 1 - s >= WordSize \div 2 /\ WordSize - 1 - (WordSize - 1 - s) = s
    BY <1>2
  <2>3. WorkItemCount(s, r) = args[s][1].workItemCount
    BY <2>1, <2>2 DEF WorkItemCount
  <2> QED BY <1>1, <1>3, <2>1, <2>3
<1>4. CASE ~ workaround
  <2>1. Constants(s, r).workItemCount = elems[s] /\ Constants(s, r).tgOffset = args[s][r].tgOffset
    BY <1>1, <1>4 DEF Constants
  <2> QED BY <1>2, <2>1 DEF WorkItemCount
<1> QED BY <1>3, <1>4

\* The groups of a record follow those of the one before, in order.
LEMMA GroupsFollow ==
  ASSUME CountsInv, NEW s \in Slots, RecordsOK(s), NEW r \in 1 .. 2, r <= Records(s)
  PROVE  /\ Start(s, r) \in Nat /\ GroupsOf(s, r) \in Nat
         /\ Start(s, r + 1) = Start(s, r) + GroupsOf(s, r)
         /\ \A k \in 0 .. GroupsOf(s, r) - 1 : GroupId(s, r, k) = Start(s, r) + k
<1> DEFINE n == Groups(s)
           rows == RowsOf(s)
           rest == n % PerDim
           a == args[s][r]
<1>1. /\ n \in Nat /\ rows \in Nat /\ rows * PerDim \in Nat /\ rest \in 0 .. PerDim - 1
      /\ n = rows * PerDim + rest /\ PerDim \in Nat /\ PerDim > 0
  BY SlotFacts
<1>2. /\ Records(s) \in {1, 2}
      /\ Records(s) = 1 => r = 1 /\ a.x = n /\ a.y = 1 /\ a.tgOffset = 0
      /\ Records(s) = 2 =>
           /\ r = 1 => a.x = PerDim /\ a.y = rows /\ a.tgOffset = 0
           /\ r = 2 => a.x = rest /\ a.y = 1 /\ a.tgOffset = rows * PerDim
  BY RecordFacts
<1>3. Constants(s, r).tgOffset = a.tgOffset
  BY CountFound
<1>4. GroupsOf(s, r) = a.x * a.y
  BY DEF GroupsOf
<1>5. \A k : GroupId(s, r, k) = (a.tgOffset + (k \div a.x) * PerDim) + (k % a.x)
  BY <1>3 DEF GroupId
<1> HIDE DEF n, rows, rest, a
<1>6. CASE Records(s) = 1
  <2>1. r = 1 /\ Start(s, r) = 0 /\ Start(s, r + 1) = n /\ GroupsOf(s, r) = n
    BY <1>1, <1>2, <1>4, <1>6 DEF Start, n
  <2>2. ASSUME NEW k \in 0 .. n - 1 PROVE GroupId(s, r, k) = k
    <3>1. k % n = k /\ k \div n = 0
      BY <1>1, NoDivision
    <3> QED BY <1>1, <1>2, <1>5, <1>6, <3>1
  <2> QED BY <2>1, <2>2, <1>1
<1>7. CASE Records(s) = 2 /\ r = 1
  <2>1. Start(s, r) = 0 /\ Start(s, r + 1) = rows * PerDim
    BY <1>7 DEF Start, rows
  <2>2. GroupsOf(s, r) = PerDim * rows /\ PerDim * rows = rows * PerDim
    BY <1>1, <1>2, <1>4, <1>7
  <2>3. ASSUME NEW k \in 0 .. rows * PerDim - 1 PROVE GroupId(s, r, k) = k
    <3>1. k \in Nat
      BY <1>1
    <3>2. k = (k \div PerDim) * PerDim + (k % PerDim) /\ k \div PerDim \in Nat /\ k % PerDim \in Nat
      BY <1>1, <3>1, Divide
    <3>3. GroupId(s, r, k) = (0 + (k \div PerDim) * PerDim) + (k % PerDim)
      BY <1>2, <1>5, <1>7
    <3>4. (k \div PerDim) * PerDim \in Nat
      BY <1>1, <3>2, Grows
    <3> QED BY <3>2, <3>3, <3>4
  <2> QED BY <2>1, <2>2, <2>3, <1>1
<1>8. CASE Records(s) = 2 /\ r = 2
  <2>1. Start(s, r) = rows * PerDim /\ Start(s, r + 1) = n
    BY <1>8 DEF Start, rows, n
  <2>2. GroupsOf(s, r) = rest
    BY <1>1, <1>2, <1>4, <1>8
  <2>3. ASSUME NEW k \in 0 .. rest - 1 PROVE GroupId(s, r, k) = rows * PerDim + k
    <3>1. k % rest = k /\ k \div rest = 0 /\ k \in Nat
      BY <1>1, NoDivision
    <3>2. GroupId(s, r, k) = (rows * PerDim + 0 * PerDim) + k
      BY <1>2, <1>5, <1>8, <3>1
    <3> QED BY <1>1, <3>1, <3>2
  <2> QED BY <2>1, <2>2, <2>3, <1>1
<1> QED BY <1>2, <1>6, <1>7, <1>8

------------------------------------------------------------------------------
(* The actions. *)

\* The elements of a group, in terms of its number.
LEMMA ElementsFollow ==
  ASSUME CountsInv, NEW s \in Slots, RecordsOK(s), NEW r \in 1 .. 2, r <= Records(s),
         NEW k \in 0 .. GroupsOf(s, r) - 1, NEW i \in Nat
  PROVE  i \in ElementsOf(s, r, k) <=>
           /\ i < elems[s]
           /\ (Start(s, r) + k) * TgSize[s] <= i
           /\ i < ((Start(s, r) + k) + 1) * TgSize[s]
<1> DEFINE g == Start(s, r) + k
           t == TgSize[s]
<1>1. GroupId(s, r, k) = g /\ WorkItemCount(s, r) = elems[s] /\ g \in Nat /\ t \in Nat /\ t > 0
  BY GroupsFollow, CountFound, SlotFacts
<1> HIDE DEF g, t
<1>2. g * t \in Nat /\ (g + 1) * t \in Nat
  BY <1>1, Grows
<1>3. ElementsOf(s, r, k) = {j \in g * t .. (g + 1) * t - 1 : j < elems[s]}
  BY <1>1 DEF ElementsOf, t
<1>4. i \in ElementsOf(s, r, k) <=> i < elems[s] /\ g * t <= i /\ i < (g + 1) * t
  BY <1>2, <1>3
<1> QED BY <1>4 DEF g, t

\* Nothing has been dispatched.
LEMMA DispatchInitInv == DispatchInit => DispatchInv
<1> SUFFICES ASSUME DispatchInit PROVE DispatchInv
  OBVIOUS
<1>1. CountsInv
  BY BoundsAssumption DEF DispatchInit, CountsInv
<1>2. RunInv
  BY DEF DispatchInit, RunInv
<1> QED BY <1>1, <1>2 DEF DispatchInv

\* Arguments are computed while no kernel runs.
LEMMA UpdateStep ==
  ASSUME DispatchInv, UpdateDispatchArgs
  PROVE  DispatchInv'
<1>1. PICK counts \in [Slots -> 0 .. MaxElems] :
        LET emitted == [s \in Slots |-> EmitDispatch(counts[s], TgSize[s], args[s])]
        IN /\ running = Idle /\ emits < MaxEmits /\ emits' = emits + 1
           /\ elems' = counts
           /\ args' = [s \in Slots |-> emitted[s].args]
           /\ cnts' = [s \in Slots |-> emitted[s].cnt]
           /\ UNCHANGED <<workaround, running, record, group, visits>>
  BY DEF UpdateDispatchArgs
<1>2. CountsInv /\ RunInv /\ emits \in Nat
  BY BoundsAssumption DEF DispatchInv, CountsInv
<1>3. ASSUME NEW s \in Slots PROVE RecordsOK(s)'
  <2>1. workaround => args[s][2] = NoRecord
    BY <1>2 DEF CountsInv, RecordsOK
  <2> DEFINE n == TgCount(counts[s], TgSize[s])
             new == EmitDispatch(counts[s], TgSize[s], args[s])
  <2>2. /\ args'[s] = new.args /\ cnts'[s] = new.cnt /\ elems'[s] = counts[s] /\ workaround' = workaround
    BY <1>1
  <2>3. Groups(s)' = n /\ RowsOf(s)' = n \div PerDim
    BY <1>1 DEF Groups, RowsOf
  <2>4. CASE workaround
    <3>1. new = [args |-> <<Rec(0, counts[s], n, 1), args[s][2]>>, cnt |-> 1]
      BY <2>4 DEF EmitDispatch, Rec
    <3> HIDE DEF n, new
    <3> QED BY <2>1, <2>2, <2>3, <2>4, <3>1 DEF RecordsOK
  <2>5. CASE ~ workaround /\ n \div PerDim > 0
    <3>1. new = [args |-> <<Rec(0, counts[s], PerDim, n \div PerDim),
                            Rec((n \div PerDim) * PerDim, counts[s], n % PerDim, 1)>>, cnt |-> 2]
      BY <2>5 DEF EmitDispatch, Rec, NeedsRows
    <3> HIDE DEF n, new
    <3> QED BY <2>2, <2>3, <2>5, <3>1 DEF RecordsOK
  <2>6. CASE ~ workaround /\ ~ (n \div PerDim > 0)
    <3>1. new = [args |-> <<Rec(0, counts[s], n, 1), Rec(0, counts[s], 0, 1)>>, cnt |-> 1]
      BY <2>6 DEF EmitDispatch, Rec, NeedsRows
    <3> HIDE DEF n, new
    <3> QED BY <2>2, <2>3, <2>6, <3>1 DEF RecordsOK
  <2> QED BY <2>4, <2>5, <2>6
<1>4. CountsInv'
  <2>1. emits' \in 0 .. MaxEmits /\ emits' # 0
    BY <1>1, <1>2, BoundsAssumption
  <2>2. workaround' \in BOOLEAN /\ elems' \in [Slots -> 0 .. MaxElems]
    BY <1>1, <1>2 DEF CountsInv
  <2>3. cnts' \in [Slots -> 0 .. 2]
    <3>1. \A s \in Slots : cnts'[s] \in 0 .. 2
      BY <1>3 DEF RecordsOK
    <3>2. cnts' = [s \in Slots |-> EmitDispatch(elems'[s], TgSize[s], args[s]).cnt]
      BY <1>1
    <3> QED BY <3>1, <3>2
  <2> QED BY <1>3, <2>1, <2>2, <2>3 DEF CountsInv
<1>5. RunInv'
  BY <1>1, <1>2 DEF RunInv
<1> QED BY <1>4, <1>5 DEF DispatchInv

\* What the arguments say does not change while a kernel runs.
LEMMA CountsKept ==
  ASSUME CountsInv, UNCHANGED <<workaround, elems, args, cnts, emits>>
  PROVE  /\ CountsInv'
         /\ \A s \in Slots : /\ Records(s)' = Records(s)
                             /\ \A r : Start(s, r)' = Start(s, r) /\ GroupsOf(s, r)' = GroupsOf(s, r)
<1>1. \A s \in Slots : /\ Groups(s)' = Groups(s) /\ RowsOf(s)' = RowsOf(s)
                       /\ RecordsOK(s)' = RecordsOK(s) /\ Records(s)' = Records(s)
  BY DEF Groups, RowsOf, RecordsOK, Records
<1>2. CountsInv'
  BY <1>1 DEF CountsInv
<1>3. \A s \in Slots : \A r : /\ Start(s, r)' = Start(s, r)
                              /\ GroupsOf(s, r)' = GroupsOf(s, r)
  BY <1>1, Zenon DEF Start, GroupsOf
<1> QED BY <1>1, <1>2, <1>3

\* A kernel starts with no element worked on.
LEMMA DispatchStep ==
  ASSUME DispatchInv, NEW s \in Slots, DispatchIndirect(s)
  PROVE  DispatchInv'
<1>1. /\ emits > 0 /\ running' = s /\ record' = 1 /\ group' = 0
      /\ visits' = [i \in 0 .. MaxElems - 1 |-> 0]
      /\ UNCHANGED <<workaround, elems, args, cnts, emits>>
  BY DEF DispatchIndirect
<1>2. CountsInv /\ CountsInv' /\ Records(s)' = Records(s) /\ GroupsOf(s, 1)' = GroupsOf(s, 1)
  BY <1>1, CountsKept DEF DispatchInv
<1>3. RecordsOK(s) /\ Records(s) \in {1, 2} /\ Start(s, 1) = 0
  BY <1>1, <1>2 DEF CountsInv, RecordsOK, Records, Start
<1>4. GroupsOf(s, 1) \in Nat
  BY <1>2, <1>3, GroupsFollow
<1>5. Issued' = 0
  BY <1>1 DEF Issued, Start
<1>6. VisitedUpTo(Issued)'
  <2>1. TgSize[s] \in Nat /\ elems[s] \in 0 .. MaxElems /\ 0 * TgSize[s] = 0
    BY <1>2, SlotFacts
  <2>2. [i \in 0 .. MaxElems - 1 |-> 0] =
        [i \in 0 .. MaxElems - 1 |-> IF i < elems[s] /\ i < 0 * TgSize[s] THEN 1 ELSE 0]
    BY <2>1, BoundsAssumption
  <2> QED BY <1>1, <1>5, <2>2 DEF VisitedUpTo
<1>7. RunInv'
  <2>1. running' = s /\ emits' > 0 /\ record' = 1 /\ group' = 0 /\ s # Idle
    BY <1>1, <1>2, SlotFacts
  <2>2. visits' \in [0 .. MaxElems - 1 -> Nat]
    BY <1>1
  <2>3. record' <= Records(running)' /\ group' <= GroupsOf(running, record)'
    BY <1>2, <1>3, <1>4, <2>1
  <2> QED BY <1>6, <2>1, <2>2, <2>3, <1>2, <1>3 DEF RunInv
<1> QED BY <1>2, <1>7 DEF DispatchInv

\* A kernel that runs.
LEMMA Running ==
  ASSUME DispatchInv, running # Idle
  PROVE  /\ running \in Slots /\ RecordsOK(running) /\ Records(running) \in {1, 2}
         /\ record \in 1 .. 3 /\ group \in Nat /\ emits > 0 /\ VisitedUpTo(Issued)
         /\ CountsInv
         /\ record <= Records(running) =>
              /\ record \in 1 .. 2 /\ Start(running, record) \in Nat /\ GroupsOf(running, record) \in Nat
              /\ Start(running, record + 1) = Start(running, record) + GroupsOf(running, record)
              /\ group <= GroupsOf(running, record)
         /\ record > Records(running) => record = Records(running) + 1 /\ group = 0
<1>1. /\ running \in Slots /\ record \in 1 .. 3 /\ group \in Nat /\ emits > 0 /\ VisitedUpTo(Issued)
      /\ CountsInv /\ RecordsOK(running)
      /\ record <= Records(running) => group <= GroupsOf(running, record)
      /\ record > Records(running) => record = Records(running) + 1 /\ group = 0
  BY DEF DispatchInv, RunInv, CountsInv
<1>2. Records(running) \in {1, 2}
  BY <1>1 DEF RecordsOK, Records
<1>3. record <= Records(running) => record \in 1 .. 2
  BY <1>1, <1>2
<1> QED BY <1>1, <1>2, <1>3, GroupsFollow

\* The elements of the next group are those after all that have been worked on.
LEMMA IssueStep ==
  ASSUME DispatchInv, IssueGroup
  PROVE  DispatchInv'
<1> DEFINE s == running
           r == record
           t == TgSize[s]
           n == Issued
<1>1. /\ s # Idle /\ r <= Records(s) /\ group < GroupsOf(s, r) /\ group' = group + 1
      /\ visits' = [i \in DOMAIN visits |->
                      IF i \in ElementsOf(s, r, group) THEN visits[i] + 1 ELSE visits[i]]
      /\ UNCHANGED <<workaround, elems, args, cnts, emits, running, record>>
  BY DEF IssueGroup
<1>2. /\ s \in Slots /\ RecordsOK(s) /\ r \in 1 .. 2 /\ group \in Nat /\ emits > 0
      /\ Start(s, r) \in Nat /\ GroupsOf(s, r) \in Nat /\ CountsInv
      /\ visits = [i \in 0 .. MaxElems - 1 |-> IF i < elems[s] /\ i < n * t THEN 1 ELSE 0]
  BY <1>1, Running DEF VisitedUpTo
<1>3. CountsInv' /\ Records(s)' = Records(s) /\ Start(s, r)' = Start(s, r) /\ GroupsOf(s, r)' = GroupsOf(s, r)
  BY <1>1, <1>2, CountsKept
<1>4. /\ n \in Nat /\ t \in Nat /\ t > 0 /\ elems[s] \in 0 .. MaxElems
      /\ n = Start(s, r) + group /\ group \in 0 .. GroupsOf(s, r) - 1
  <2>1. t \in Nat /\ t > 0 /\ elems[s] \in 0 .. MaxElems
    BY <1>2, SlotFacts
  <2>2. n = Start(s, r) + group
    BY DEF Issued
  <2> HIDE DEF n, t, s, r
  <2> QED BY <1>1, <1>2, <2>1, <2>2
<1>5. n * t \in Nat /\ (n + 1) * t = n * t + t
  BY <1>4, Grows
<1>6. Issued' = n + 1
  <2>1. Issued' = Start(s, r)' + group'
    BY <1>1 DEF Issued
  <2> QED BY <1>1, <1>2, <1>3, <1>4, <2>1
<1>7. \A i \in 0 .. MaxElems - 1 :
        i \in ElementsOf(s, r, group) <=> i < elems[s] /\ n * t <= i /\ i < (n + 1) * t
  <2>1. \A i \in 0 .. MaxElems - 1 : i \in Nat
    BY BoundsAssumption
  <2>2. \A i \in Nat :
          i \in ElementsOf(s, r, group) <=>
            i < elems[s] /\ (Start(s, r) + group) * t <= i /\ i < ((Start(s, r) + group) + 1) * t
    BY <1>1, <1>2, <1>4, ElementsFollow
  <2> HIDE DEF n, t, s, r
  <2> QED BY <2>1, <2>2, <1>4
<1>8. visits' = [i \in 0 .. MaxElems - 1 |-> IF i < elems[s] /\ i < (n + 1) * t THEN 1 ELSE 0]
  <2> DEFINE old(i) == IF i < elems[s] /\ i < n * t THEN 1 ELSE 0
             new(i) == IF i < elems[s] /\ i < (n + 1) * t THEN 1 ELSE 0
  <2>1. ASSUME NEW i \in 0 .. MaxElems - 1
        PROVE  (IF i \in ElementsOf(s, r, group) THEN old(i) + 1 ELSE old(i)) = new(i)
    <3>1. /\ i \in Int /\ elems[s] \in Int
          /\ i \in ElementsOf(s, r, group) <=> i < elems[s] /\ n * t <= i /\ i < (n + 1) * t
      BY <1>4, <1>7, BoundsAssumption
    <3> HIDE DEF n, t, s, r
    <3> QED BY <3>1, <1>4, <1>5
  <2>2. visits' = [i \in 0 .. MaxElems - 1 |-> IF i \in ElementsOf(s, r, group) THEN old(i) + 1 ELSE old(i)]
    <3> HIDE DEF n, t, s, r
    <3> QED BY <1>1, <1>2
  <2> HIDE DEF n, t, s, r
  <2> QED BY <2>1, <2>2
<1>9. VisitedUpTo(Issued)'
  BY <1>1, <1>6, <1>8 DEF VisitedUpTo
<1>10. visits' \in [0 .. MaxElems - 1 -> Nat]
  <2> HIDE DEF n, t, s, r
  <2> QED BY <1>8
<1>11. RunInv'
  <2>1. /\ running' = s /\ record' = r /\ record' \in 1 .. 3 /\ group' \in Nat /\ emits' > 0
        /\ Records(running)' = Records(s) /\ GroupsOf(running, record)' = GroupsOf(s, r)
        /\ group' <= GroupsOf(s, r)
    BY <1>1, <1>2, <1>3, <1>4
  <2>2. ~ (record' > Records(running)')
    BY <2>1, <1>1, Running
  <2> HIDE DEF n, t, s, r
  <2> QED BY <1>2, <1>9, <1>10, <2>1, <2>2 DEF RunInv
<1> QED BY <1>3, <1>11 DEF DispatchInv

\* From one record to the next nothing is left out.
LEMMA NextRecordStep ==
  ASSUME DispatchInv, NextRecord
  PROVE  DispatchInv'
<1>1. /\ running # Idle /\ record <= Records(running) /\ group = GroupsOf(running, record)
      /\ record' = record + 1 /\ group' = 0
      /\ UNCHANGED <<workaround, elems, args, cnts, emits, running, visits>>
  BY DEF NextRecord
<1>2. /\ running \in Slots /\ RecordsOK(running) /\ Records(running) \in {1, 2} /\ record \in 1 .. 2
      /\ Start(running, record) \in Nat /\ GroupsOf(running, record) \in Nat
      /\ Start(running, record + 1) = Start(running, record) + GroupsOf(running, record)
      /\ CountsInv /\ VisitedUpTo(Issued) /\ emits > 0
  BY <1>1, Running
<1>3. /\ CountsInv' /\ Records(running)' = Records(running)
      /\ \A r : Start(running, r)' = Start(running, r) /\ GroupsOf(running, r)' = GroupsOf(running, r)
  <2>1. /\ CountsInv' /\ \A s \in Slots : Records(s)' = Records(s) /\ \A r : Start(s, r)' = Start(s, r) /\ GroupsOf(s, r)' = GroupsOf(s, r)
    BY <1>1, <1>2, CountsKept
  <2>2. CountsInv'
    BY <2>1
  <2> QED BY <2>1, <2>2, <1>1, <1>2
<1>4. Issued' = Issued
  BY <1>1, <1>2, <1>3 DEF Issued, Start, Records, Groups, RowsOf
<1>5. VisitedUpTo(Issued)'
  BY <1>1, <1>2, <1>4 DEF VisitedUpTo
<1>6. record' <= Records(running)' => group' <= GroupsOf(running, record)'
  <2>1. ASSUME record + 1 <= Records(running) PROVE 0 <= GroupsOf(running, record + 1)
    <3>1. record + 1 \in 1 .. 2
      BY <1>2, <2>1
    <3> QED BY <1>2, <2>1, <3>1, GroupsFollow
  <2>2. GroupsOf(running, record)' = GroupsOf(running, record + 1)
    BY <1>1 DEF GroupsOf
  <2> QED BY <1>1, <1>3, <2>1, <2>2
<1>7. RunInv'
  <2>1. visits' \in [0 .. MaxElems - 1 -> Nat] /\ running' \in Slots \cup {Idle}
    BY <1>1, <1>2 DEF DispatchInv, RunInv
  <2>2. record' \in 1 .. 3 /\ group' \in Nat /\ emits' > 0
    BY <1>1, <1>2
  <2>3. record' > Records(running)' => record' = Records(running)' + 1 /\ group' = 0
    BY <1>1, <1>2, <1>3
  <2> QED BY <1>5, <1>6, <2>1, <2>2, <2>3 DEF RunInv
<1> QED BY <1>3, <1>7 DEF DispatchInv

\* The kernel has ended.
LEMMA FinishStep ==
  ASSUME DispatchInv, Finish
  PROVE  DispatchInv'
<1>1. /\ running' = Idle /\ record' = 1 /\ group' = 0
      /\ UNCHANGED <<workaround, elems, args, cnts, emits, visits>>
  BY DEF Finish
<1>2. CountsInv' /\ RunInv
  BY <1>1, CountsKept DEF DispatchInv
<1>3. RunInv'
  BY <1>1, <1>2 DEF RunInv
<1> QED BY <1>2, <1>3 DEF DispatchInv

\* Every step keeps the invariant.
LEMMA DispatchNextInv == DispatchInv /\ [DispatchNext]_dispatchVars => DispatchInv'
<1> SUFFICES ASSUME DispatchInv, [DispatchNext]_dispatchVars PROVE DispatchInv'
  OBVIOUS
<1>1. CASE UNCHANGED dispatchVars
  <2>1. UNCHANGED <<workaround, elems, args, cnts, emits, running, record, group, visits>>
    BY <1>1 DEF dispatchVars
  <2>2. CountsInv' /\ \A s \in Slots : Records(s)' = Records(s) /\ \A r : Start(s, r)' = Start(s, r) /\ GroupsOf(s, r)' = GroupsOf(s, r)
    BY <2>1, CountsKept DEF DispatchInv
  <2>3. /\ Issued' = Issued /\ VisitedUpTo(Issued)' = VisitedUpTo(Issued)
        /\ Records(running)' = Records(running) /\ GroupsOf(running, record)' = GroupsOf(running, record)
    BY <2>1, Zenon DEF Issued, VisitedUpTo, Start, Records, GroupsOf, Groups, RowsOf
  <2>4. RunInv'
    BY <2>1, <2>3 DEF RunInv, DispatchInv
  <2> QED BY <2>2, <2>4 DEF DispatchInv
<1> QED BY <1>1, UpdateStep, DispatchStep, IssueStep, NextRecordStep, FinishStep DEF DispatchNext

------------------------------------------------------------------------------

\* The invariant holds in every reachable state.
THEOREM DispatchInvariant == DispatchSpec => []DispatchInv
BY DispatchInitInv, DispatchNextInv, PTL DEF DispatchSpec

\* Fewer rows than the words of half the range have in rows are within the limit.
LEMMA RowsWithinLimit ==
  ASSUME NEW rows \in Nat, rows * PerDim <= MaxElems
  PROVE  rows <= DimLimit
<1>1. PerDim \in Nat /\ DimLimit \in Nat /\ MaxElems \in Nat /\ WordSize \div 2 \in Int
  BY SizesAssumption, LimitAssumption, BoundsAssumption
<1>2. SUFFICES ASSUME rows >= DimLimit + 1 PROVE FALSE
  BY <1>1
<1> DEFINE p == PerDim
           h == WordSize \div 2
<1>3. PICK k \in Nat : rows = k + (DimLimit + 1)
  BY <1>1, <1>2
<1>4. rows * p = k * p + (DimLimit + 1) * p /\ k * p \in Nat /\ (DimLimit + 1) * p \in Nat
  BY <1>1, <1>3
<1>5. h <= (DimLimit + 1) * p /\ MaxElems < h /\ h \in Int
  BY <1>1, LimitAssumption, CountAssumption
<1>6. rows * p <= MaxElems /\ rows * p \in Nat
  BY <1>1
<1> HIDE DEF p, h
<1> QED BY <1>1, <1>4, <1>5, <1>6

\* No record has more groups in x or more rows in y than a dimension may have,
\* but for the one record of a GPU that needs the workaround; the kernel that
\* runs and its visits stay in range.
THEOREM DispatchTypeCorrect == DispatchSpec => []DispatchTypeOK
<1>1. DispatchInv => DispatchTypeOK
  <2> SUFFICES ASSUME DispatchInv PROVE DispatchTypeOK
    OBVIOUS
  <2>1. CountsInv /\ RunInv
    BY DEF DispatchInv
  <2>2. ASSUME NEW s \in Slots
        PROVE  \A r \in 1 .. 2 : /\ args[s][r].x \in 0 .. (IF workaround THEN MaxElems ELSE DimLimit)
                                 /\ args[s][r].y \in 0 .. DimLimit
    <3>1. /\ Groups(s) \in Nat /\ Groups(s) <= elems[s] /\ elems[s] \in 0 .. MaxElems
          /\ Groups(s) % PerDim \in 0 .. PerDim - 1 /\ PerDim \in Nat \ {0} /\ RowsOf(s) \in Nat
          /\ Groups(s) = RowsOf(s) * PerDim + (Groups(s) % PerDim)
          /\ MaxElems \in Nat /\ DimLimit \in Nat /\ PerDim <= DimLimit
      BY <2>1, SlotFacts, BoundsAssumption, LimitAssumption, SizesAssumption
    <3>2. Groups(s) \in 0 .. MaxElems /\ (~ (RowsOf(s) > 0) => Groups(s) <= PerDim)
      <4>1. ~ (RowsOf(s) > 0) => RowsOf(s) * PerDim = 0
        BY <3>1
      <4> QED BY <3>1, <4>1
    <3>3. RowsOf(s) \in 0 .. DimLimit /\ 1 \in 0 .. DimLimit /\ 0 \in 0 .. DimLimit
      <4> DEFINE m == RowsOf(s) * PerDim
      <4>1. m \in Nat /\ Groups(s) = m + (Groups(s) % PerDim)
        BY <3>1
      <4>2. m <= MaxElems
        <5> HIDE DEF m
        <5> QED BY <3>1, <3>2, <4>1
      <4>3. RowsOf(s) <= DimLimit
        BY <3>1, <4>2, RowsWithinLimit
      <4> QED BY <3>1, <4>3
    <3>4. CASE emits = 0
      BY <2>1, <3>1, <3>4 DEF CountsInv, NoRecord
    <3>5. CASE emits > 0
      <4>1. RecordsOK(s)
        BY <2>1, <3>5 DEF CountsInv
      <4>2. CASE workaround
        BY <4>1, <4>2, <3>1, <3>2, <3>3 DEF RecordsOK, Rec, NoRecord
      <4>3. CASE ~ workaround /\ RowsOf(s) > 0
        BY <4>1, <4>3, <3>1, <3>3 DEF RecordsOK, Rec
      <4>4. CASE ~ workaround /\ ~ (RowsOf(s) > 0)
        BY <4>1, <4>4, <3>1, <3>2, <3>3 DEF RecordsOK, Rec
      <4> QED BY <4>2, <4>3, <4>4
    <3>6. emits \in Nat
      BY <2>1, BoundsAssumption DEF CountsInv
    <3> QED BY <3>4, <3>5, <3>6
  <2>3. cnts \in [Slots -> 0 .. 2]
    BY <2>1 DEF CountsInv
  <2> QED BY <2>1, <2>2, <2>3 DEF DispatchTypeOK, CountsInv, RunInv
<1> QED BY <1>1, DispatchInvariant, PTL

\* A kernel works on each element of its count once, and on nothing else, for
\* any count, limit of a dimension and size of a group.
THEOREM ElementsOnce == DispatchSpec => []EveryElementOnce
<1>1. DispatchInv => EveryElementOnce
  <2> SUFFICES ASSUME DispatchInv, running # Idle, record > Records(running), NEW i \in 0 .. MaxElems - 1
               PROVE  visits[i] = IF i < elems[running] THEN 1 ELSE 0
    BY DEF EveryElementOnce
  <2> DEFINE n == Groups(running)
             t == TgSize[running]
  <2>1. /\ CountsInv /\ running \in Slots /\ RecordsOK(running) /\ Records(running) \in {1, 2}
        /\ record = Records(running) + 1 /\ group = 0 /\ VisitedUpTo(Issued)
    BY Running
  <2>2. n \in Nat /\ t \in Nat /\ elems[running] \in 0 .. MaxElems /\ elems[running] <= n * t
    BY <2>1, SlotFacts
  <2>3. Issued = n
    BY <2>1, <2>2 DEF Issued, Start
  <2>4. visits[i] = IF i < elems[running] /\ i < n * t THEN 1 ELSE 0
    BY <2>1, <2>3 DEF VisitedUpTo
  <2>5. n * t \in Int /\ i \in Int /\ elems[running] \in Int
    BY <2>2, BoundsAssumption
  <2> HIDE DEF n, t
  <2> QED BY <2>2, <2>4, <2>5
<1> QED BY <1>1, DispatchInvariant, PTL

\* When a group is issued, the elements before its own have all been worked on.
THEOREM InOrder == DispatchSpec => []IssuedInOrder
<1>1. DispatchInv => IssuedInOrder
  <2> SUFFICES ASSUME DispatchInv, running # Idle, record <= Records(running), group < GroupsOf(running, record),
                      NEW i \in 0 .. MaxElems - 1
               PROVE  visits[i] = IF i < elems[running] /\ i < GroupId(running, record, group) * TgSize[running]
                                    THEN 1 ELSE 0
    BY DEF IssuedInOrder
  <2>1. /\ CountsInv /\ running \in Slots /\ RecordsOK(running) /\ record \in 1 .. 2 /\ VisitedUpTo(Issued)
        /\ GroupsOf(running, record) \in Nat /\ group \in Nat
    BY Running
  <2>2. GroupId(running, record, group) = Issued
    <3>1. group \in 0 .. GroupsOf(running, record) - 1
      BY <2>1
    <3> QED BY <2>1, <3>1, GroupsFollow DEF Issued
  <2> QED BY <2>1, <2>2 DEF VisitedUpTo
<1> QED BY <1>1, DispatchInvariant, PTL

------------------------------------------------------------------------------
(* The order of groups. *)

\* The groups of a kernel are numbered from zero in the order in which they
\* are issued, over both records, and all of them have been issued when the
\* kernel ends.
Numbered ==
  /\ \A s \in Slots : DispatchIndirect(s) => Issued' = 0
  /\ IssueGroup => GroupId(running, record, group) = Issued /\ Issued' = Issued + 1
  /\ NextRecord => Issued' = Issued
  /\ Finish => Issued = Groups(running)

GroupsNumbered == [][Numbered]_dispatchVars

\* What the groups of a kernel and their records are does not change while it
\* runs.
LEMMA PlacesKept ==
  ASSUME DispatchInv, running \in Slots,
         UNCHANGED <<workaround, elems, args, cnts, emits, running>>
  PROVE  \A r : Start(running, r)' = Start(running, r)
BY CountsKept DEF DispatchInv

\* A GPU that executes the arguments as they are issues the groups of a kernel
\* one by one in the order of their numbers, with and without the workaround.
THEOREM DispatchNumbersGroups == DispatchSpec => GroupsNumbered
<1>1. ASSUME DispatchInv, NEW s \in Slots, DispatchIndirect(s)
      PROVE  Issued' = 0
  <2>1. record' = 1 /\ group' = 0
    BY <1>1 DEF DispatchIndirect
  <2> QED BY <2>1 DEF Issued, Start
<1>2. ASSUME DispatchInv, IssueGroup
      PROVE  GroupId(running, record, group) = Issued /\ Issued' = Issued + 1
  <2>1. /\ running # Idle /\ record <= Records(running) /\ group < GroupsOf(running, record)
        /\ group' = group + 1 /\ record' = record
        /\ UNCHANGED <<workaround, elems, args, cnts, emits, running>>
    BY <1>2 DEF IssueGroup
  <2>2. /\ running \in Slots /\ RecordsOK(running) /\ CountsInv /\ record \in 1 .. 2
        /\ group \in Nat /\ Start(running, record) \in Nat /\ GroupsOf(running, record) \in Nat
    BY <1>2, <2>1, Running
  <2>3. GroupId(running, record, group) = Issued
    <3>1. group \in 0 .. GroupsOf(running, record) - 1
      BY <2>1, <2>2
    <3> QED BY <2>1, <2>2, <3>1, GroupsFollow DEF Issued
  <2>4. Start(running, record)' = Start(running, record)
    BY <1>2, <2>1, <2>2, PlacesKept
  <2> QED BY <2>1, <2>2, <2>3, <2>4 DEF Issued
<1>3. ASSUME DispatchInv, NextRecord
      PROVE  Issued' = Issued
  <2>1. /\ running # Idle /\ record <= Records(running) /\ group = GroupsOf(running, record)
        /\ record' = record + 1 /\ group' = 0
        /\ UNCHANGED <<workaround, elems, args, cnts, emits, running>>
    BY <1>3 DEF NextRecord
  <2>2. /\ running \in Slots /\ Start(running, record) \in Nat /\ GroupsOf(running, record) \in Nat
        /\ Start(running, record + 1) = Start(running, record) + GroupsOf(running, record)
    BY <1>3, <2>1, Running
  <2>3. Start(running, record)' = Start(running, record + 1)
    <3>1. \A r : Start(running, r)' = Start(running, r)
      BY <1>3, <2>1, <2>2, PlacesKept
    <3> QED BY <2>1, <3>1 DEF Start
  <2> QED BY <2>1, <2>2, <2>3 DEF Issued
<1>4. ASSUME DispatchInv, Finish
      PROVE  Issued = Groups(running)
  <2>1. running # Idle /\ record > Records(running)
    BY <1>4 DEF Finish
  <2>2. /\ running \in Slots /\ CountsInv /\ Records(running) \in {1, 2}
        /\ record = Records(running) + 1 /\ group = 0
    BY <1>4, <2>1, Running
  <2>3. Groups(running) \in Nat
    BY <2>2, SlotFacts
  <2> QED BY <2>2, <2>3 DEF Issued, Start
<1>5. DispatchInv => Numbered
  BY <1>1, <1>2, <1>3, <1>4 DEF Numbered
<1> QED BY <1>5, DispatchInvariant, PTL DEF GroupsNumbered

\* What PrefixSumLookback takes for granted: if the waves launched are those of
\* the groups issued, the group that Dispatch issues is the next one to launch.
THEOREM IssuesNextGroup ==
  ASSUME DispatchInv, IssueGroup, LInv, NEW b \in Blocks,
         GroupId(running, record, group) = b,
         \A a \in Blocks : pc[a] = "queued" <=> a >= Issued
  PROVE  /\ NextGroup(b)
         /\ Launch(b) => (\A a \in Blocks : pc[a] = "queued" <=> a >= Issued)'
<1>1. /\ running # Idle /\ record <= Records(running) /\ group < GroupsOf(running, record)
      /\ group' = group + 1 /\ record' = record
      /\ UNCHANGED <<workaround, elems, args, cnts, emits, running>>
  BY DEF IssueGroup
<1>2. /\ running \in Slots /\ RecordsOK(running) /\ CountsInv /\ record \in 1 .. 2
      /\ group \in Nat /\ Start(running, record) \in Nat /\ GroupsOf(running, record) \in Nat
  BY <1>1, Running
<1>3. b = Issued
  <2>1. group \in 0 .. GroupsOf(running, record) - 1
    BY <1>1, <1>2
  <2> QED BY <1>1, <1>2, <2>1, GroupsFollow DEF Issued
<1>4. Issued' = Issued + 1
  <2>1. Start(running, record)' = Start(running, record)
    BY <1>1, <1>2, PlacesKept
  <2> QED BY <1>1, <1>2, <2>1 DEF Issued
<1>5. b \in Nat /\ \A a \in Blocks : a \in Nat
  BY NumBlocksAssumption DEF Blocks
<1>6. NextGroup(b)
  BY <1>3, <1>5 DEF NextGroup
<1>7. ASSUME Launch(b) PROVE (\A a \in Blocks : pc[a] = "queued" <=> a >= Issued)'
  <2>1. pc' = [pc EXCEPT ![b] = "publishSelf"] /\ pc \in [Blocks -> PCs]
    BY <1>7 DEF Launch, LInv, TypeOK
  <2>2. \A a \in Blocks : pc'[a] = "queued" <=> (a # b /\ pc[a] = "queued")
    BY <2>1
  <2>3. \A a \in Blocks : pc'[a] = "queued" <=> a >= Issued + 1
    BY <2>2, <1>3, <1>5
  <2> QED BY <2>3, <1>4 DEF Blocks
<1> QED BY <1>6, <1>7

==============================================================================
