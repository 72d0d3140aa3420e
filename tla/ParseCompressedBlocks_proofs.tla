-------------------- MODULE ParseCompressedBlocks_proofs --------------------
(***************************************************************************)
(* Proofs of everything the run of ParseCompressedBlocks checks, for any   *)
(* blocks, waves of any size, and any interleaving of the waves.           *)
(*                                                                         *)
(* First, that what is handed out in the order of arrival is never handed  *)
(* out twice: the slots of Huffman tables, taken from both ends of one     *)
(* array, and the FSE tables of the three types (the invariant IInv).      *)
(* Then all that the kernel leaves behind (Whole, of which IInv is a       *)
(* part): what the blocks of the waves past each step have got from it.    *)
(* Last, what the kernels behind the barrier make of it: a group's binary  *)
(* search leads to the table of the streams it decodes.                    *)
(***************************************************************************)
EXTENDS ParseCompressedBlocks, GroupSearch_proofs

------------------------------------------------------------------------------
\* Handing out indices to sets of blocks.

\* The blocks of S have the indices below n, each another one.
Handed(S, n, f) ==
  /\ n = Cardinality(S)
  /\ \A b \in S : f[b] \in 0 .. n - 1
  /\ \A b, c \in S : f[b] = f[c] => b = c

LEMMA BlocksFinite ==
  ASSUME NEW S \in SUBSET Blocks
  PROVE  IsFiniteSet(S) /\ Cardinality(S) \in Nat /\ Cardinality(S) <= NumBlocks
<1>1. NumBlocks \in Nat /\ 0 \in Int /\ NumBlocks - 1 \in Int
  BY ParametersAssumption
<1>2. IsFiniteSet(0 .. NumBlocks - 1) /\ Cardinality(0 .. NumBlocks - 1) = NumBlocks
  <2>1. /\ IsFiniteSet(0 .. NumBlocks - 1)
        /\ Cardinality(0 .. NumBlocks - 1)
             = IF 0 > NumBlocks - 1 THEN 0 ELSE (NumBlocks - 1) - 0 + 1
    BY <1>1, FS_Interval
  <2>2. ~ (0 > NumBlocks - 1) /\ (NumBlocks - 1) - 0 + 1 = NumBlocks
    BY ParametersAssumption
  <2> QED BY <2>1, <2>2
<1>3. IsFiniteSet(S) /\ Cardinality(S) <= Cardinality(0 .. NumBlocks - 1)
  BY <1>2, FS_Subset DEF Blocks
<1> QED BY <1>2, <1>3, FS_CardinalityType

\* Two disjoint sets of blocks have no more than all of them.
LEMMA TwoSets ==
  ASSUME NEW S \in SUBSET Blocks, NEW T \in SUBSET Blocks, S \cap T = {}
  PROVE  /\ Cardinality(S \cup T) = Cardinality(S) + Cardinality(T)
         /\ Cardinality(S) + Cardinality(T) <= NumBlocks
<1>1. IsFiniteSet(S) /\ IsFiniteSet(T) /\ Cardinality(S) \in Nat /\ Cardinality(T) \in Nat
  BY BlocksFinite
<1>2. Cardinality(S \cup T) = Cardinality(S) + Cardinality(T) - Cardinality(S \cap T)
  BY <1>1, FS_Union
<1>3. Cardinality(S \cap T) = 0
  BY FS_EmptySet
<1>4. S \cup T \in SUBSET Blocks
  OBVIOUS
<1>5. Cardinality(S \cup T) <= NumBlocks
  BY <1>4, BlocksFinite
<1>6. Cardinality(S \cup T) = Cardinality(S) + Cardinality(T)
  BY <1>1, <1>2, <1>3
<1> QED BY <1>5, <1>6

\* The lanes before a lane number the lanes of a set.
LEMMA LanesNumbered ==
  ASSUME NEW T \in SUBSET Blocks
  PROVE  /\ \A b \in T : Cardinality(Before(T, b)) \in 0 .. Cardinality(T) - 1
         /\ \A b, c \in T : b < c => Cardinality(Before(T, b)) < Cardinality(Before(T, c))
<1>1. T \subseteq Nat /\ IsFiniteSet(T) /\ Cardinality(T) \in Nat
  BY BlocksFinite DEF Blocks
<1>2. ASSUME NEW b \in T
      PROVE  /\ Before(T, b) \in SUBSET T /\ b \notin Before(T, b)
             /\ IsFiniteSet(Before(T, b)) /\ Cardinality(Before(T, b)) \in Nat
  <2>1. Before(T, b) \in SUBSET T /\ b \notin Before(T, b)
    BY <1>1 DEF Before
  <2>2. Before(T, b) \in SUBSET Blocks
    BY <2>1
  <2> QED BY <2>1, <2>2, BlocksFinite
<1>3. ASSUME NEW b \in T PROVE Cardinality(Before(T, b)) \in 0 .. Cardinality(T) - 1
  <2>1. Cardinality(Before(T, b)) <= Cardinality(T)
    BY <1>1, <1>2, FS_Subset
  <2>2. Cardinality(Before(T, b)) # Cardinality(T)
    BY <1>1, <1>2, FS_Subset
  <2> QED BY <1>1, <1>2, <2>1, <2>2
<1>4. ASSUME NEW b \in T, NEW c \in T, b < c
      PROVE  Cardinality(Before(T, b)) < Cardinality(Before(T, c))
  <2>1. Before(T, b) \in SUBSET Before(T, c)
    <3>1. ASSUME NEW a \in Before(T, b) PROVE a \in Before(T, c)
      <4>1. a \in T /\ a < b
        BY DEF Before
      <4>2. a \in Nat /\ b \in Nat /\ c \in Nat
        BY <1>1, <4>1
      <4>3. a < c
        BY <1>4, <4>1, <4>2
      <4> QED BY <4>1, <4>3 DEF Before
    <3> QED BY <3>1
  <2>2. b \in Before(T, c)
    BY <1>4 DEF Before
  <2>3. Cardinality(Before(T, b)) <= Cardinality(Before(T, c))
    BY <1>2, <2>1, FS_Subset
  <2>4. Cardinality(Before(T, b)) # Cardinality(Before(T, c))
    BY <1>2, <2>1, <2>2, FS_Subset
  <2> QED BY <1>2, <2>3, <2>4
<1> QED BY <1>3, <1>4

LEMMA HandedSame ==
  ASSUME NEW S, NEW n, NEW f, NEW g, Handed(S, n, f), \A b \in S : g[b] = f[b]
  PROVE  Handed(S, n, g)
BY DEF Handed

\* An atomic addition for all the lanes of a set at once.
LEMMA HandOut ==
  ASSUME NEW S \in SUBSET Blocks, NEW T \in SUBSET Blocks, S \cap T = {},
         NEW n, NEW f, NEW g, Handed(S, n, f),
         \A b \in S : g[b] = f[b],
         \A b \in T : g[b] = n + Cardinality(Before(T, b))
  PROVE  Handed(S \cup T, n + Cardinality(T), g)
<1>1. /\ n \in Nat /\ Cardinality(T) \in Nat /\ T \subseteq Nat
      /\ Cardinality(S \cup T) = n + Cardinality(T)
  BY BlocksFinite, TwoSets DEF Handed, Blocks
<1>2. ASSUME NEW b \in S PROVE g[b] \in 0 .. n - 1
  BY DEF Handed
<1>3. ASSUME NEW b \in T
      PROVE  /\ Cardinality(Before(T, b)) \in Nat
             /\ g[b] \in n .. n + Cardinality(T) - 1
  BY <1>1, LanesNumbered
<1>4. ASSUME NEW b \in S \cup T PROVE g[b] \in 0 .. n + Cardinality(T) - 1
  BY <1>1, <1>2, <1>3
<1>5. ASSUME NEW b \in S \cup T, NEW c \in S \cup T, g[b] = g[c] PROVE b = c
  <2>1. CASE b \in S /\ c \in S
    BY <1>5, <2>1 DEF Handed
  <2>2. CASE b \in S /\ c \in T
    BY <1>1, <1>2, <1>3, <1>5, <2>2
  <2>3. CASE b \in T /\ c \in S
    BY <1>1, <1>2, <1>3, <1>5, <2>3
  <2>4. CASE b \in T /\ c \in T
    <3>1. Cardinality(Before(T, b)) = Cardinality(Before(T, c))
      BY <1>1, <1>3, <1>5, <2>4
    <3>2. ~ (b < c) /\ ~ (c < b)
      BY <1>3, <2>4, <3>1, LanesNumbered
    <3> QED BY <1>1, <2>4, <3>2
  <2> QED BY <2>1, <2>2, <2>3, <2>4
<1> HIDE DEF Handed
<1> QED BY <1>1, <1>4, <1>5 DEF Handed

Apart(F, R) == F \in SUBSET Blocks /\ R \in SUBSET Blocks /\ F \cap R = {}

Mirrored(R, at, down) == \A b \in R : at[b] = NumBlocks - 1 - down[b]

\* Indices from the bottom and from the top of one array do not meet.
LEMMA TwoEnds ==
  ASSUME NEW F, NEW R, Apart(F, R), NEW n, NEW m, NEW down, NEW at,
         Handed(F, n, at), Handed(R, m, down), Mirrored(R, at, down)
  PROVE  /\ \A b \in F \cup R : at[b] \in Slots
         /\ \A b, c \in F \cup R : at[b] = at[c] => b = c
<1>1. n \in Nat /\ m \in Nat /\ n + m <= NumBlocks /\ NumBlocks \in Nat
  BY BlocksFinite, TwoSets, ParametersAssumption DEF Handed, Apart
<1>2. ASSUME NEW b \in F PROVE at[b] \in 0 .. n - 1
  BY DEF Handed
<1>3. ASSUME NEW b \in R
      PROVE  down[b] \in 0 .. m - 1 /\ at[b] \in NumBlocks - m .. NumBlocks - 1
  <2>1. down[b] \in 0 .. m - 1 /\ at[b] = NumBlocks - 1 - down[b]
    BY DEF Handed, Mirrored
  <2> QED BY <1>1, <2>1
<1>4. ASSUME NEW b \in F \cup R PROVE at[b] \in Slots
  BY <1>1, <1>2, <1>3 DEF Slots
<1>5. ASSUME NEW b \in F \cup R, NEW c \in F \cup R, at[b] = at[c] PROVE b = c
  <2>1. CASE b \in F /\ c \in F
    BY <1>5, <2>1 DEF Handed
  <2>2. CASE b \in F /\ c \in R
    BY <1>1, <1>2, <1>3, <1>5, <2>2
  <2>3. CASE b \in R /\ c \in F
    BY <1>1, <1>2, <1>3, <1>5, <2>3
  <2>4. CASE b \in R /\ c \in R
    <3>1. down[b] = down[c]
      BY <1>1, <1>3, <1>5, <2>4 DEF Mirrored
    <3> QED BY <2>4, <3>1 DEF Handed
  <2> QED BY <2>1, <2>2, <2>3, <2>4
<1> QED BY <1>4, <1>5

\* Storing a set of blocks at their own places leaves the others in theirs.
LEMMA PlacesKept ==
  ASSUME NEW D, NEW T, NEW at, NEW refs, NEW new,
         \A b \in D \cup T : at[b] \in Slots,
         \A b, c \in D \cup T : at[b] = at[c] => b = c,
         D \cap T = {}, \A b \in D : refs[at[b]] = b,
         \A s \in Slots : IF \E b \in T : at[b] = s THEN new[s] \in T /\ at[new[s]] = s
                                                   ELSE new[s] = refs[s]
  PROVE  \A b \in D \cup T : new[at[b]] = b
<1>1. ASSUME NEW b \in T PROVE new[at[b]] = b
  <2>1. new[at[b]] \in T /\ at[new[at[b]]] = at[b]
    OBVIOUS
  <2> QED BY <2>1
<1>2. ASSUME NEW b \in D PROVE new[at[b]] = b
  <2>1. ~ \E c \in T : at[c] = at[b]
    OBVIOUS
  <2>2. new[at[b]] = refs[at[b]]
    BY <2>1
  <2> QED BY <2>2
<1> QED BY <1>1, <1>2

------------------------------------------------------------------------------
\* The inductive invariant: who has been served at a step, and with what.

Steps == {"streams", "bytes", "fseTrees", "rawTrees", "hufLits", "sequences",
          "LLen", "Offs", "MLen", "finish", "done"}

\* Where a wave is that is past a step.
PastMLen     == {"finish", "done"}
PastOffs     == {"MLen"} \cup PastMLen
PastLLen     == {"Offs"} \cup PastOffs
PastRawTrees == {"hufLits", "sequences", "LLen"} \cup PastLLen
PastFseTrees == {"rawTrees"} \cup PastRawTrees

Past(t) == IF t = "LLen" THEN PastLLen ELSE IF t = "Offs" THEN PastOffs ELSE PastMLen

\* The blocks of K whose wave is at one of the places A.
Served(p, K, A) == {b \in K : \E w \in Waves : b \in Lanes(w) /\ p[w] \in A}

FseServed    == Served(pc, HasFseTree(Blocks), PastFseTrees)
RawServed    == Served(pc, HasRawTree(Blocks), PastRawTrees)
TabServed(t) == Served(pc, NewTables(Blocks, t), Past(t))

FromTop(f) == [b \in Blocks |-> NumBlocks - 1 - f[b]]

\* Which table of a type's chunk a block has, from zero.
InChunk(f, t) == [b \in Blocks |-> f[b][t] - ComputeFseIndex(t, 1)]

Shape ==
  /\ pc \in [Waves -> Steps]
  /\ counters = [c \in DOMAIN counters |-> counters[c]]
  /\ {"FseHufW", "HUF_WgtStreams", "Fse"} \subseteq DOMAIN counters
  /\ counters.Fse = [t \in FseTypes |-> counters.Fse[t]]
  /\ DOMAIN slot = Blocks
  /\ DOMAIN fseIndex = Blocks
  /\ \A b \in Blocks : DOMAIN fseIndex[b] = FseTypes

SlotsOK ==
  /\ Handed(FseServed, counters.FseHufW, slot)
  /\ Handed(RawServed, counters.HUF_WgtStreams, FromTop(slot))
  /\ \A b \in Blocks : b \notin FseServed \cup RawServed => slot[b] = None
  /\ \A b \in FseServed \cup RawServed : slot[b] \in Int /\ hufRefs[slot[b]] = b

TablesOK(t) ==
  /\ counters.Fse[t] \in Nat
  /\ Handed(TabServed(t), counters.Fse[t] - 1, InChunk(fseIndex, t))
  /\ \A b \in TabServed(t) : fseIndex[b][t] \in Nat
  /\ \A b \in NewTables(Blocks, t) : b \notin TabServed(t) => fseIndex[b][t] = None

IInv == Shape /\ SlotsOK /\ \A t \in FseTypes : TablesOK(t)

LEMMA NextStep ==
  /\ Order[Rank("streams") + 1] = "bytes"
  /\ Order[Rank("bytes") + 1] = "fseTrees"
  /\ Order[Rank("fseTrees") + 1] = "rawTrees"
  /\ Order[Rank("rawTrees") + 1] = "hufLits"
  /\ Order[Rank("hufLits") + 1] = "sequences"
  /\ Order[Rank("sequences") + 1] = "LLen"
  /\ Order[Rank("LLen") + 1] = "Offs"
  /\ Order[Rank("Offs") + 1] = "MLen"
  /\ Order[Rank("MLen") + 1] = "finish"
  /\ Order[Rank("finish") + 1] = "done"
<1>1. DOMAIN Order = 1 .. 11
  BY DEF Order
<1>2. Rank("streams") = 1
  BY <1>1 DEF Rank, Order
<1>3. Rank("bytes") = 2
  BY <1>1 DEF Rank, Order
<1>4. Rank("fseTrees") = 3
  BY <1>1 DEF Rank, Order
<1>5. Rank("rawTrees") = 4
  BY <1>1 DEF Rank, Order
<1>6. Rank("hufLits") = 5
  BY <1>1 DEF Rank, Order
<1>7. Rank("sequences") = 6
  BY <1>1 DEF Rank, Order
<1>8. Rank("LLen") = 7
  BY <1>1 DEF Rank, Order
<1>9. Rank("Offs") = 8
  BY <1>1 DEF Rank, Order
<1>10. Rank("MLen") = 9
  BY <1>1 DEF Rank, Order
<1>11. Rank("finish") = 10
  BY <1>1 DEF Rank, Order
<1>12. /\ Order[2] = "bytes" /\ Order[3] = "fseTrees" /\ Order[4] = "rawTrees"
       /\ Order[5] = "hufLits" /\ Order[6] = "sequences" /\ Order[7] = "LLen"
       /\ Order[8] = "Offs" /\ Order[9] = "MLen" /\ Order[10] = "finish"
       /\ Order[11] = "done"
  BY DEF Order
<1> QED BY <1>2, <1>3, <1>4, <1>5, <1>6, <1>7, <1>8, <1>9, <1>10, <1>11, <1>12

\* The wave w gets past a step.
Passes(p, q, w, A) ==
  w \in Waves /\ p[w] \notin A /\ q[w] \in A /\ \A v \in Waves : v # w => q[v] = p[v]

\* A wave that takes the step serves its lanes, ...
LEMMA ServedGrows ==
  ASSUME NEW K, NEW A, NEW p, NEW q, NEW w, Passes(p, q, w, A),
         NEW T, T = K \cap Lanes(w)
  PROVE  Served(q, K, A) = Served(p, K, A) \cup T /\ Served(p, K, A) \cap T = {}
<1>1. w \in Waves /\ p[w] \notin A /\ q[w] \in A /\ \A v \in Waves : v # w => q[v] = p[v]
  BY DEF Passes
<1>2. \A v \in Waves : \A b \in Lanes(v) : b \in Lanes(w) => v = w
  BY DEF Lanes
<1>3. ASSUME NEW b \in Served(p, K, A) PROVE b \in Served(q, K, A) /\ b \notin T
  <2>1. PICK v \in Waves : b \in Lanes(v) /\ p[v] \in A
    BY DEF Served
  <2>2. v # w
    BY <1>1, <2>1
  <2> QED BY <1>1, <1>2, <2>1, <2>2 DEF Served
<1>4. ASSUME NEW b \in T PROVE b \in Served(q, K, A)
  BY <1>1 DEF Served
<1>5. ASSUME NEW b \in Served(q, K, A), b \notin T PROVE b \in Served(p, K, A)
  <2>1. PICK v \in Waves : b \in K /\ b \in Lanes(v) /\ q[v] \in A
    BY DEF Served
  <2>2. v # w
    BY <1>5, <2>1
  <2> QED BY <1>1, <2>1, <2>2 DEF Served
<1> QED BY <1>3, <1>4, <1>5

\* ... and any other step serves nobody.
LEMMA ServedSame ==
  ASSUME NEW K, NEW A, NEW p, NEW q, \A v \in Waves : q[v] \in A <=> p[v] \in A
  PROVE  Served(q, K, A) = Served(p, K, A)
BY DEF Served

LEMMA KindsFixed ==
  ASSUME UNCHANGED input
  PROVE  /\ HasFseTree(Blocks)' = HasFseTree(Blocks)
         /\ HasRawTree(Blocks)' = HasRawTree(Blocks)
         /\ \A t : NewTables(Blocks, t)' = NewTables(Blocks, t)
BY DEF HasFseTree, HasRawTree, NewTables, HasSequences, Tree

LEMMA KindsAre ==
  ASSUME NEW w \in Waves
  PROVE  /\ HasFseTree(Lanes(w)) = HasFseTree(Blocks) \cap Lanes(w)
         /\ HasRawTree(Lanes(w)) = HasRawTree(Blocks) \cap Lanes(w)
         /\ \A t : NewTables(Lanes(w), t) = NewTables(Blocks, t) \cap Lanes(w)
         /\ HasFseTree(Blocks) \in SUBSET Blocks /\ HasRawTree(Blocks) \in SUBSET Blocks
         /\ \A t : NewTables(Blocks, t) \in SUBSET Blocks
         /\ HasFseTree(Blocks) \cap HasRawTree(Blocks) = {}
BY DEF HasFseTree, HasRawTree, NewTables, HasSequences, Lanes, Tree

LEMMA ServedBlocks ==
  /\ FseServed \in SUBSET Blocks /\ RawServed \in SUBSET Blocks /\ FseServed \cap RawServed = {}
  /\ \A t : TabServed(t) \in SUBSET NewTables(Blocks, t) /\ TabServed(t) \in SUBSET Blocks
BY DEF FseServed, RawServed, TabServed, Served, HasFseTree, HasRawTree, NewTables,
       HasSequences, Tree

LEMMA InitInv == Init => IInv
<1> SUFFICES ASSUME Init PROVE IInv
  OBVIOUS
<1>1. Shape
  <2>1. /\ counters = [HUF_Streams |-> 0, DecodedBytes |-> 0, FseHufW |-> 0,
                       HUF_WgtStreams |-> 0, HufLit |-> 0, Seq_Streams |-> 0,
                       DecodedItems |-> 0, Fse |-> [t \in FseTypes |-> 1]]
    BY DEF Init
  <2>2. DOMAIN counters = {"HUF_Streams", "DecodedBytes", "FseHufW", "HUF_WgtStreams",
                           "HufLit", "Seq_Streams", "DecodedItems", "Fse"}
    BY <2>1
  <2>3. counters = [c \in DOMAIN counters |-> counters[c]]
    BY <2>1
  <2>4. counters.Fse = [t \in FseTypes |-> 1]
    BY <2>1
  <2>5. counters.Fse = [t \in FseTypes |-> counters.Fse[t]]
    BY <2>4
  <2>6. pc \in [Waves -> Steps]
    BY DEF Init, Steps
  <2> QED BY <2>2, <2>3, <2>5, <2>6 DEF Init, Shape
<1>2. \A K : /\ Served(pc, K, PastFseTrees) = {} /\ Served(pc, K, PastRawTrees) = {}
             /\ \A t : Served(pc, K, Past(t)) = {}
  BY DEF Init, Served, Past, PastFseTrees, PastRawTrees, PastLLen, PastOffs, PastMLen
<1>3. \A f : Handed({}, 0, f)
  BY FS_EmptySet DEF Handed
<1>4. FseServed = {} /\ RawServed = {} /\ \A t : TabServed(t) = {}
  BY <1>2 DEF FseServed, RawServed, TabServed
<1>5. SlotsOK
  <2>1. counters.FseHufW = 0 /\ counters.HUF_WgtStreams = 0
    BY DEF Init
  <2> QED BY <1>3, <1>4, <2>1 DEF Init, SlotsOK
<1>6. ASSUME NEW t \in FseTypes PROVE TablesOK(t)
  <2>1. counters.Fse[t] = 1
    BY DEF Init
  <2>2. \A b \in Blocks : fseIndex[b][t] = None
    BY DEF Init
  <2>3. Handed(TabServed(t), counters.Fse[t] - 1, InChunk(fseIndex, t))
    <3>1. counters.Fse[t] - 1 = 0
      BY <2>1
    <3> QED BY <1>3, <1>4, <3>1
  <2>4. \A b \in NewTables(Blocks, t) : fseIndex[b][t] = None
    BY <2>2 DEF NewTables, HasSequences
  <2>5. counters.Fse[t] \in Nat
    BY <2>1
  <2> QED BY <1>4, <2>3, <2>4, <2>5 DEF TablesOK
<1> QED BY <1>1, <1>5, <1>6 DEF IInv

------------------------------------------------------------------------------
\* The steps.

\* A step that serves nobody with a slot.
LEMMA SlotsFrame ==
  ASSUME Shape, SlotsOK, NEW w \in Waves, NEW z, pc' = [pc EXCEPT ![w] = z],
         UNCHANGED <<input, slot, hufRefs>>,
         counters'.FseHufW = counters.FseHufW,
         counters'.HUF_WgtStreams = counters.HUF_WgtStreams,
         pc[w] \in PastFseTrees <=> z \in PastFseTrees,
         pc[w] \in PastRawTrees <=> z \in PastRawTrees
  PROVE  SlotsOK'
<1>1. HasFseTree(Blocks)' = HasFseTree(Blocks) /\ HasRawTree(Blocks)' = HasRawTree(Blocks)
  BY KindsFixed
<1>2. FseServed' = FseServed
  <2>1. FseServed' = Served(pc', HasFseTree(Blocks), PastFseTrees)
    BY <1>1 DEF FseServed
  <2>2. Served(pc', HasFseTree(Blocks), PastFseTrees) = FseServed
    <3>1. pc \in [Waves -> Steps]
      BY DEF Shape
    <3>2. \A v \in Waves : pc'[v] \in PastFseTrees <=> pc[v] \in PastFseTrees
      BY <3>1
    <3> QED BY <3>2, ServedSame DEF FseServed
  <2> QED BY <2>1, <2>2
<1>3. RawServed' = RawServed
  <2>1. RawServed' = Served(pc', HasRawTree(Blocks), PastRawTrees)
    BY <1>1 DEF RawServed
  <2>2. Served(pc', HasRawTree(Blocks), PastRawTrees) = RawServed
    <3>1. pc \in [Waves -> Steps]
      BY DEF Shape
    <3>2. \A v \in Waves : pc'[v] \in PastRawTrees <=> pc[v] \in PastRawTrees
      BY <3>1
    <3> QED BY <3>2, ServedSame DEF RawServed
  <2> QED BY <2>1, <2>2
<1> QED BY <1>2, <1>3 DEF SlotsOK, FromTop

\* A step that serves nobody with a table of type t.
LEMMA TablesFrame ==
  ASSUME Shape, NEW t, TablesOK(t), NEW w \in Waves, NEW z, pc' = [pc EXCEPT ![w] = z],
         UNCHANGED input, counters'.Fse[t] = counters.Fse[t],
         \A b \in Blocks : fseIndex'[b][t] = fseIndex[b][t],
         pc[w] \in Past(t) <=> z \in Past(t)
  PROVE  TablesOK(t)'
<1>1. NewTables(Blocks, t)' = NewTables(Blocks, t)
  BY KindsFixed
<1>2. TabServed(t)' = TabServed(t)
  <2>1. TabServed(t)' = Served(pc', NewTables(Blocks, t), Past(t))
    BY <1>1 DEF TabServed
  <2>2. Served(pc', NewTables(Blocks, t), Past(t)) = TabServed(t)
    <3>1. pc \in [Waves -> Steps]
      BY DEF Shape
    <3>2. \A v \in Waves : pc'[v] \in Past(t) <=> pc[v] \in Past(t)
      BY <3>1
    <3> QED BY <3>2, ServedSame DEF TabServed
  <2> QED BY <2>1, <2>2
<1>3. InChunk(fseIndex, t)' = InChunk(fseIndex, t)
  BY DEF InChunk
<1>4. \A b \in NewTables(Blocks, t) : b \in Blocks
  BY DEF NewTables, HasSequences
<1>5. \A b \in TabServed(t) : b \in Blocks
  BY <1>4 DEF TabServed, Served
<1> QED BY <1>1, <1>2, <1>3, <1>4, <1>5 DEF TablesOK

LEMMA PastAre ==
  /\ PastFseTrees = {"rawTrees", "hufLits", "sequences", "LLen", "Offs", "MLen", "finish", "done"}
  /\ PastRawTrees = {"hufLits", "sequences", "LLen", "Offs", "MLen", "finish", "done"}
  /\ Past("LLen") = {"Offs", "MLen", "finish", "done"}
  /\ Past("Offs") = {"MLen", "finish", "done"}
  /\ Past("MLen") = {"finish", "done"}
BY DEF PastFseTrees, PastRawTrees, PastLLen, PastOffs, PastMLen, Past

\* The steps that touch neither slots nor tables, and their counters.
LEMMA OtherStep ==
  ASSUME IInv, NEW w \in Waves, NEW s, NEW z, Step(w, s), z = Order[Rank(s) + 1],
         <<s, z>> \in {<<"streams", "bytes">>, <<"bytes", "fseTrees">>,
                       <<"hufLits", "sequences">>, <<"sequences", "LLen">>,
                       <<"finish", "done">>},
         UNCHANGED <<slot, hufRefs, fseIndex>>,
         counters' = [c \in DOMAIN counters |-> counters'[c]],
         DOMAIN counters' = DOMAIN counters,
         counters'.FseHufW = counters.FseHufW,
         counters'.HUF_WgtStreams = counters.HUF_WgtStreams,
         counters'.Fse = counters.Fse
  PROVE  IInv'
<1>1. Shape /\ SlotsOK /\ \A t \in FseTypes : TablesOK(t)
  BY DEF IInv
<1>2. pc[w] = s /\ pc' = [pc EXCEPT ![w] = z] /\ input' = input /\ s \in Steps /\ z \in Steps
  BY DEF Step, Steps
<1>3. Shape'
  BY <1>1, <1>2 DEF Shape
<1>4. SlotsOK'
  <2>1. (s \in PastFseTrees <=> z \in PastFseTrees) /\ (s \in PastRawTrees <=> z \in PastRawTrees)
    BY PastAre
  <2> QED BY <1>1, <1>2, <2>1, SlotsFrame
<1>5. ASSUME NEW t \in FseTypes PROVE TablesOK(t)'
  <2>1. s \in Past(t) <=> z \in Past(t)
    BY PastAre DEF FseTypes
  <2> QED BY <1>1, <1>2, <2>1, TablesFrame
<1> QED BY <1>3, <1>4, <1>5 DEF IInv

LEMMA AppendLitStreamsStep ==
  ASSUME IInv, NEW w \in Waves, AppendLitStreams(w)
  PROVE  IInv'
<1>1. Step(w, "streams") /\ UNCHANGED <<slot, hufRefs, fseIndex, counters>>
  BY DEF AppendLitStreams, OrderedStep, sequenceVars
<1>2. counters = [c \in DOMAIN counters |-> counters[c]]
  BY DEF IInv, Shape
<1> QED BY <1>1, <1>2, NextStep, OtherStep

LEMMA OtherCounter ==
  ASSUME Shape, NEW k \in {"HUF_Streams", "DecodedBytes", "HufLit", "Seq_Streams", "DecodedItems"},
         NEW x, NEW old, old = [c \in DOMAIN counters |-> old[c]], DOMAIN old = DOMAIN counters,
         NEW new, new = [old EXCEPT ![k] = x]
  PROVE  /\ DOMAIN new = DOMAIN counters
         /\ new = [c \in DOMAIN counters |-> new[c]]
         /\ new.FseHufW = old.FseHufW
         /\ new.HUF_WgtStreams = old.HUF_WgtStreams
         /\ new.Fse = old.Fse
<1>1. DOMAIN new = DOMAIN counters /\ new = [c \in DOMAIN counters |-> new[c]]
  OBVIOUS
<1>2. \A c \in DOMAIN counters : c # k => new[c] = old[c]
  OBVIOUS
<1> QED BY <1>1, <1>2 DEF Shape

LEMMA AllocLiteralBytesStep ==
  ASSUME IInv, NEW w \in Waves, AllocLiteralBytes(w)
  PROVE  IInv'
<1> DEFINE x == counters.HUF_Streams + Streams(HasHuffman(Lanes(w)))
           y == counters.DecodedBytes + Bytes(HasHuffman(Lanes(w)))
           c1 == [counters EXCEPT !["HUF_Streams"] = x]
<1>1. Step(w, "bytes") /\ UNCHANGED <<slot, hufRefs, fseIndex>>
  BY DEF AllocLiteralBytes, sequenceVars
<1>2. counters = [c \in DOMAIN counters |-> counters[c]] /\ Shape
  BY DEF IInv, Shape
<1>3. counters' = [c1 EXCEPT !["DecodedBytes"] = y]
  BY DEF AllocLiteralBytes
<1> HIDE DEF x, y
<1>4. /\ DOMAIN c1 = DOMAIN counters /\ c1 = [c \in DOMAIN counters |-> c1[c]]
      /\ c1.FseHufW = counters.FseHufW
      /\ c1.HUF_WgtStreams = counters.HUF_WgtStreams
      /\ c1.Fse = counters.Fse
  BY <1>2, OtherCounter
<1> HIDE DEF c1
<1>5. /\ DOMAIN counters' = DOMAIN counters
      /\ counters' = [c \in DOMAIN counters |-> counters'[c]]
      /\ counters'.FseHufW = counters.FseHufW
      /\ counters'.HUF_WgtStreams = counters.HUF_WgtStreams
      /\ counters'.Fse = counters.Fse
  BY <1>2, <1>3, <1>4, OtherCounter
<1> QED BY <1>1, <1>5, NextStep, OtherStep

LEMMA AppendHufLitsStep ==
  ASSUME IInv, NEW w \in Waves, AppendHufLits(w)
  PROVE  IInv'
<1> DEFINE x == counters.HufLit + Cardinality(HufLits(Lanes(w)))
           c1 == [counters EXCEPT !["HufLit"] = x]
<1>1. Step(w, "hufLits") /\ UNCHANGED <<slot, hufRefs, fseIndex>>
  BY DEF AppendHufLits, OrderedStep, sequenceVars
<1>2. counters = [c \in DOMAIN counters |-> counters[c]] /\ Shape
  BY DEF IInv, Shape
<1>3. counters' = c1
  BY DEF AppendHufLits
<1> HIDE DEF x
<1>4. /\ DOMAIN c1 = DOMAIN counters /\ c1 = [c \in DOMAIN counters |-> c1[c]]
      /\ c1.FseHufW = counters.FseHufW
      /\ c1.HUF_WgtStreams = counters.HUF_WgtStreams
      /\ c1.Fse = counters.Fse
  BY <1>2, OtherCounter
<1> HIDE DEF c1
<1> QED BY <1>1, <1>3, <1>4, NextStep, OtherStep

LEMMA AppendSequencesStep ==
  ASSUME IInv, NEW w \in Waves, AppendSequences(w)
  PROVE  IInv'
<1> DEFINE T == HasSequences(Lanes(w))
           x == counters.Seq_Streams + Cardinality(T)
           y == counters.DecodedItems + Sequences(T)
           c1 == [counters EXCEPT !["Seq_Streams"] = x]
<1>1. Step(w, "sequences") /\ UNCHANGED <<slot, hufRefs, fseIndex>>
  BY DEF AppendSequences, OrderedStep, literalVars
<1>2. counters = [c \in DOMAIN counters |-> counters[c]] /\ Shape
  BY DEF IInv, Shape
<1>3. counters' = [c1 EXCEPT !["DecodedItems"] = y]
  BY DEF AppendSequences
<1> HIDE DEF x, y
<1>4. /\ DOMAIN c1 = DOMAIN counters /\ c1 = [c \in DOMAIN counters |-> c1[c]]
      /\ c1.FseHufW = counters.FseHufW
      /\ c1.HUF_WgtStreams = counters.HUF_WgtStreams
      /\ c1.Fse = counters.Fse
  BY <1>2, OtherCounter
<1> HIDE DEF c1
<1>5. /\ DOMAIN counters' = DOMAIN counters
      /\ counters' = [c \in DOMAIN counters |-> counters'[c]]
      /\ counters'.FseHufW = counters.FseHufW
      /\ counters'.HUF_WgtStreams = counters.HUF_WgtStreams
      /\ counters'.Fse = counters.Fse
  BY <1>2, <1>3, <1>4, OtherCounter
<1> QED BY <1>1, <1>5, NextStep, OtherStep

LEMMA FinishSequencesStep ==
  ASSUME IInv, NEW w \in Waves, FinishSequences(w)
  PROVE  IInv'
<1>1. Step(w, "finish") /\ UNCHANGED <<slot, hufRefs, fseIndex, counters>>
  BY DEF FinishSequences, literalVars
<1>2. counters = [c \in DOMAIN counters |-> counters[c]]
  BY DEF IInv, Shape
<1> QED BY <1>1, <1>2, NextStep, OtherStep

\* The weights of a set of blocks put in new slots: the three parts of SlotsOK
\* that both kinds of tables share.
LEMMA WeightsPlaced ==
  ASSUME SlotsOK, NEW T \in SUBSET Blocks,
         FseServed' \cup RawServed' = FseServed \cup RawServed \cup T,
         T \cap (FseServed \cup RawServed) = {},
         FseServed' \in SUBSET Blocks, RawServed' \in SUBSET Blocks,
         FseServed' \cap RawServed' = {},
         NEW n, NEW m, Handed(FseServed', n, slot'), Handed(RawServed', m, FromTop(slot')),
         \A b \in RawServed' : slot'[b] \in Int,
         \A b \in Blocks : b \notin T => slot'[b] = slot[b],
         \A s \in Slots : IF \E b \in T : slot'[b] = s
                            THEN hufRefs'[s] \in T /\ slot'[hufRefs'[s]] = s
                            ELSE hufRefs'[s] = hufRefs[s]
  PROVE  /\ \A b \in Blocks : b \notin FseServed' \cup RawServed' => slot'[b] = None
         /\ \A b \in FseServed' \cup RawServed' : slot'[b] \in Int /\ hufRefs'[slot'[b]] = b
<1>1. Mirrored(RawServed', slot', FromTop(slot'))
  BY ParametersAssumption DEF FromTop, Mirrored
<1>2. /\ \A b \in FseServed' \cup RawServed' : slot'[b] \in Slots
      /\ \A b, c \in FseServed' \cup RawServed' : slot'[b] = slot'[c] => b = c
  <2> DEFINE F == FseServed'
             R == RawServed'
             at == slot'
             down == FromTop(slot')
  <2>1. /\ Apart(F, R) /\ Handed(F, n, at) /\ Handed(R, m, down)
        /\ Mirrored(R, at, down)
    BY <1>1 DEF Apart
  <2> HIDE DEF F, R, at, down
  <2>2. /\ \A b \in F \cup R : at[b] \in Slots
        /\ \A b, c \in F \cup R : at[b] = at[c] => b = c
    BY <2>1, TwoEnds
  <2> QED BY <2>2 DEF F, R, at
<1>3. \A b \in FseServed \cup RawServed : hufRefs[slot'[b]] = b
  BY ServedBlocks DEF SlotsOK
<1>4. \A b \in Blocks : b \notin FseServed' \cup RawServed' => slot'[b] = None
  BY DEF SlotsOK
<1> DEFINE D == FseServed \cup RawServed
<1>5. \A b \in D \cup T : hufRefs'[slot'[b]] = b
  <2> DEFINE at == slot'
             new == hufRefs'
  <2>1. /\ \A b \in D \cup T : at[b] \in Slots
        /\ \A b, c \in D \cup T : at[b] = at[c] => b = c
        /\ D \cap T = {} /\ \A b \in D : hufRefs[at[b]] = b
        /\ \A s \in Slots : IF \E b \in T : at[b] = s THEN new[s] \in T /\ at[new[s]] = s
                                                      ELSE new[s] = hufRefs[s]
    BY <1>2, <1>3
  <2> HIDE DEF at, new, D
  <2>2. \A b \in D \cup T : new[at[b]] = b
    BY <2>1, PlacesKept
  <2> QED BY <2>2 DEF at, new
<1>6. \A b \in FseServed' \cup RawServed' : slot'[b] \in Int
  BY <1>2, ParametersAssumption DEF Slots
<1> QED BY <1>4, <1>5, <1>6

LEMMA AllocFseTreesStep ==
  ASSUME IInv, NEW w \in Waves, AllocFseTrees(w)
  PROVE  IInv'
<1> DEFINE T == HasFseTree(Lanes(w))
           n == counters.FseHufW
           Of(b) == n + Cardinality(Before(T, b))
<1>1. Shape /\ SlotsOK /\ \A t \in FseTypes : TablesOK(t)
  BY DEF IInv
<1>2. /\ pc[w] = "fseTrees" /\ pc' = [pc EXCEPT ![w] = "rawTrees"] /\ input' = input
      /\ pc \in [Waves -> Steps]
  BY <1>1, NextStep DEF AllocFseTrees, Step, Shape
<1>3. /\ slot' = [b \in DOMAIN slot |-> IF b \in T THEN Of(b) ELSE slot[b]]
      /\ fseIndex' = fseIndex
  BY DEF AllocFseTrees, StoreWeights, Set, sequenceVars
<1>4. hufRefs' = [s \in Slots |-> IF \E b \in T : Of(b) = s
                                    THEN CHOOSE b \in T : Of(b) = s ELSE hufRefs[s]]
  BY DEF AllocFseTrees, StoreWeights
<1>5. counters' = [counters EXCEPT !["FseHufW"] = n + Cardinality(T)]
  BY DEF AllocFseTrees
<1> HIDE DEF n
<1>6. /\ DOMAIN counters' = DOMAIN counters /\ counters' = [c \in DOMAIN counters |-> counters'[c]]
      /\ counters'.FseHufW = n + Cardinality(T)
      /\ counters'.HUF_WgtStreams = counters.HUF_WgtStreams
      /\ counters'.Fse = counters.Fse
  <2>1. counters = [c \in DOMAIN counters |-> counters[c]] /\ "FseHufW" \in DOMAIN counters
    BY <1>1 DEF Shape
  <2>2. DOMAIN counters' = DOMAIN counters /\ counters' = [c \in DOMAIN counters |-> counters'[c]]
    BY <1>5, <2>1
  <2>3. counters'["FseHufW"] = n + Cardinality(T)
    BY <1>5, <2>1
  <2>4. \A c \in DOMAIN counters : c # "FseHufW" => counters'[c] = counters[c]
    BY <1>5, <2>1
  <2> QED BY <1>1, <2>2, <2>3, <2>4 DEF Shape
<1>7. /\ T \in SUBSET Blocks /\ T = HasFseTree(Blocks) \cap Lanes(w)
      /\ HasFseTree(Blocks)' = HasFseTree(Blocks) /\ HasRawTree(Blocks)' = HasRawTree(Blocks)
      /\ HasFseTree(Blocks) \in SUBSET Blocks
  BY <1>2, KindsAre, KindsFixed
<1> HIDE DEF T
<1>8. FseServed' = FseServed \cup T /\ FseServed \cap T = {}
  <2>1. pc[w] \notin PastFseTrees /\ pc'[w] \in PastFseTrees
        /\ \A v \in Waves : v # w => pc'[v] = pc[v]
    BY <1>2, PastAre
  <2> DEFINE K == HasFseTree(Blocks)
             q == pc'
  <2>2. T = K \cap Lanes(w) /\ K' = K /\ q = pc'
    BY <1>7
  <2>3. FseServed' = Served(q, K, PastFseTrees) /\ FseServed = Served(pc, K, PastFseTrees)
    BY <2>2 DEF FseServed
  <2>4. Passes(pc, q, w, PastFseTrees)
    BY <2>1 DEF Passes
  <2> HIDE DEF K, q
  <2>5. /\ Served(q, K, PastFseTrees) = Served(pc, K, PastFseTrees) \cup T
        /\ Served(pc, K, PastFseTrees) \cap T = {}
    BY <2>2, <2>4, ServedGrows
  <2> QED BY <2>3, <2>5
<1>9. RawServed' = RawServed
  <2>1. \A v \in Waves : pc'[v] \in PastRawTrees <=> pc[v] \in PastRawTrees
    BY <1>2, PastAre
  <2>2. Served(pc', HasRawTree(Blocks), PastRawTrees) = Served(pc, HasRawTree(Blocks), PastRawTrees)
    BY <2>1, ServedSame
  <2> QED BY <1>7, <2>2 DEF RawServed
<1>10. RawServed \cap T = {} /\ FseServed \in SUBSET Blocks /\ RawServed \in SUBSET Blocks
       /\ FseServed \cap RawServed = {}
  BY <1>7, KindsAre, ServedBlocks DEF RawServed, Served
<1>11. Handed(FseServed', n + Cardinality(T), slot')
  <2>1. \A b \in FseServed : slot'[b] = slot[b]
    BY <1>1, <1>3, <1>8, <1>10 DEF Shape
  <2>2. \A b \in T : slot'[b] = n + Cardinality(Before(T, b))
    BY <1>1, <1>3, <1>7 DEF Shape
  <2>3. Handed(FseServed, n, slot)
    BY <1>1 DEF SlotsOK, n
  <2> QED BY <1>7, <1>8, <1>10, <2>1, <2>2, <2>3, HandOut
<1>12. \A b \in Blocks : b \notin T => slot'[b] = slot[b]
  BY <1>1, <1>3 DEF Shape
<1>13. Handed(RawServed', counters.HUF_WgtStreams, FromTop(slot'))
  <2>1. \A b \in RawServed : FromTop(slot')[b] = FromTop(slot)[b]
    BY <1>10, <1>12 DEF FromTop
  <2> QED BY <1>1, <1>9, <2>1, HandedSame DEF SlotsOK
<1>14. \A b \in RawServed' : slot'[b] \in Int
  BY <1>1, <1>9, <1>10, <1>12 DEF SlotsOK
<1>15. ASSUME NEW s \in Slots
       PROVE  IF \E b \in T : slot'[b] = s THEN hufRefs'[s] \in T /\ slot'[hufRefs'[s]] = s
                                          ELSE hufRefs'[s] = hufRefs[s]
  <2>1. \A b \in T : slot'[b] = Of(b)
    BY <1>1, <1>3, <1>7 DEF Shape
  <2> HIDE DEF Of
  <2>2. CASE \E b \in T : Of(b) = s
    <3>1. hufRefs'[s] = CHOOSE b \in T : Of(b) = s
      BY <1>4, <2>2
    <3>2. hufRefs'[s] \in T /\ Of(hufRefs'[s]) = s
      BY <2>2, <3>1
    <3> QED BY <2>1, <3>2
  <2>3. CASE ~ \E b \in T : Of(b) = s
    BY <1>4, <2>1, <2>3
  <2> QED BY <2>2, <2>3
<1>16. /\ \A b \in Blocks : b \notin FseServed' \cup RawServed' => slot'[b] = None
       /\ \A b \in FseServed' \cup RawServed' : slot'[b] \in Int /\ hufRefs'[slot'[b]] = b
  <2>1. FseServed' \cup RawServed' = FseServed \cup RawServed \cup T
        /\ T \cap (FseServed \cup RawServed) = {}
        /\ FseServed' \in SUBSET Blocks /\ RawServed' \in SUBSET Blocks
        /\ FseServed' \cap RawServed' = {}
    BY <1>7, <1>8, <1>9, <1>10
  <2> QED BY <1>1, <1>7, <1>11, <1>12, <1>13, <1>14, <1>15, <2>1, WeightsPlaced
<1>17. SlotsOK'
  BY <1>6, <1>11, <1>13, <1>16 DEF SlotsOK
<1>18. ASSUME NEW t \in FseTypes PROVE TablesOK(t)'
  <2>1. pc[w] \in Past(t) <=> "rawTrees" \in Past(t)
    BY <1>2, PastAre DEF FseTypes
  <2> QED BY <1>1, <1>2, <1>3, <1>6, <2>1, TablesFrame
<1>19. Shape'
  <2>1. pc' \in [Waves -> Steps]
    BY <1>2 DEF Steps
  <2>2. DOMAIN slot' = Blocks
    BY <1>1, <1>3 DEF Shape
  <2> QED BY <1>1, <1>3, <1>6, <2>1, <2>2 DEF Shape
<1> QED BY <1>17, <1>18, <1>19 DEF IInv

LEMMA AllocRawTreesStep ==
  ASSUME IInv, NEW w \in Waves, AllocRawTrees(w)
  PROVE  IInv'
<1> DEFINE T == HasRawTree(Lanes(w))
           m == counters.HUF_WgtStreams
           Of(b) == RawTreeSlot(m + Cardinality(Before(T, b)))
<1>1. Shape /\ SlotsOK /\ \A t \in FseTypes : TablesOK(t)
  BY DEF IInv
<1>2. /\ pc[w] = "rawTrees" /\ pc' = [pc EXCEPT ![w] = "hufLits"] /\ input' = input
      /\ pc \in [Waves -> Steps]
  BY <1>1, NextStep DEF AllocRawTrees, Step, Shape
<1>3. /\ slot' = [b \in DOMAIN slot |-> IF b \in T THEN Of(b) ELSE slot[b]]
      /\ fseIndex' = fseIndex
  BY DEF AllocRawTrees, StoreWeights, Set, sequenceVars
<1>4. hufRefs' = [s \in Slots |-> IF \E b \in T : Of(b) = s
                                    THEN CHOOSE b \in T : Of(b) = s ELSE hufRefs[s]]
  BY DEF AllocRawTrees, StoreWeights
<1>5. counters' = [counters EXCEPT !["HUF_WgtStreams"] = m + Cardinality(T)]
  BY DEF AllocRawTrees
<1>6. Handed(RawServed, m, FromTop(slot)) /\ m \in Nat
  BY <1>1, ServedBlocks, BlocksFinite DEF SlotsOK, Handed
<1> HIDE DEF m
<1>7. /\ DOMAIN counters' = DOMAIN counters /\ counters' = [c \in DOMAIN counters |-> counters'[c]]
      /\ counters'.HUF_WgtStreams = m + Cardinality(T)
      /\ counters'.FseHufW = counters.FseHufW
      /\ counters'.Fse = counters.Fse
  <2>1. counters = [c \in DOMAIN counters |-> counters[c]] /\ "HUF_WgtStreams" \in DOMAIN counters
    BY <1>1 DEF Shape
  <2>2. DOMAIN counters' = DOMAIN counters /\ counters' = [c \in DOMAIN counters |-> counters'[c]]
    BY <1>5, <2>1
  <2>3. counters'["HUF_WgtStreams"] = m + Cardinality(T)
    BY <1>5, <2>1
  <2>4. \A c \in DOMAIN counters : c # "HUF_WgtStreams" => counters'[c] = counters[c]
    BY <1>5, <2>1
  <2> QED BY <1>1, <2>2, <2>3, <2>4 DEF Shape
<1>8. /\ T \in SUBSET Blocks /\ T = HasRawTree(Blocks) \cap Lanes(w)
      /\ HasFseTree(Blocks)' = HasFseTree(Blocks) /\ HasRawTree(Blocks)' = HasRawTree(Blocks)
      /\ HasRawTree(Blocks) \in SUBSET Blocks
  BY <1>2, KindsAre, KindsFixed
<1> HIDE DEF T
<1>9. RawServed' = RawServed \cup T /\ RawServed \cap T = {}
  <2>1. pc[w] \notin PastRawTrees /\ pc'[w] \in PastRawTrees
        /\ \A v \in Waves : v # w => pc'[v] = pc[v]
    BY <1>2, PastAre
  <2> DEFINE K == HasRawTree(Blocks)
             q == pc'
  <2>2. T = K \cap Lanes(w) /\ K' = K /\ q = pc'
    BY <1>8
  <2>3. RawServed' = Served(q, K, PastRawTrees) /\ RawServed = Served(pc, K, PastRawTrees)
    BY <2>2 DEF RawServed
  <2>4. Passes(pc, q, w, PastRawTrees)
    BY <2>1 DEF Passes
  <2> HIDE DEF K, q
  <2>5. /\ Served(q, K, PastRawTrees) = Served(pc, K, PastRawTrees) \cup T
        /\ Served(pc, K, PastRawTrees) \cap T = {}
    BY <2>2, <2>4, ServedGrows
  <2> QED BY <2>3, <2>5
<1>10. FseServed' = FseServed
  <2>1. \A v \in Waves : pc'[v] \in PastFseTrees <=> pc[v] \in PastFseTrees
    BY <1>2, PastAre
  <2>2. Served(pc', HasFseTree(Blocks), PastFseTrees) = Served(pc, HasFseTree(Blocks), PastFseTrees)
    BY <2>1, ServedSame
  <2> QED BY <1>8, <2>2 DEF FseServed
<1>11. FseServed \cap T = {} /\ FseServed \in SUBSET Blocks /\ RawServed \in SUBSET Blocks
       /\ FseServed \cap RawServed = {}
  BY <1>8, KindsAre, ServedBlocks DEF FseServed, Served
<1>12. ASSUME NEW b \in T
       PROVE  slot'[b] = Of(b) /\ slot'[b] \in Int
              /\ FromTop(slot')[b] = m + Cardinality(Before(T, b))
  <2>1. slot'[b] = Of(b)
    BY <1>1, <1>3, <1>8 DEF Shape
  <2>2. Cardinality(Before(T, b)) \in Nat /\ Cardinality(T) \in Nat
    BY <1>8, LanesNumbered, BlocksFinite
  <2>3. FromTop(slot')[b] = NumBlocks - 1 - slot'[b]
    BY <1>8 DEF FromTop
  <2> QED BY <1>6, <2>1, <2>2, <2>3, ParametersAssumption DEF RawTreeSlot
<1>13. \A b \in Blocks : b \notin T => slot'[b] = slot[b]
  BY <1>1, <1>3 DEF Shape
<1>14. Handed(RawServed', m + Cardinality(T), FromTop(slot'))
  <2>1. \A b \in RawServed : FromTop(slot')[b] = FromTop(slot)[b]
    BY <1>9, <1>11, <1>13 DEF FromTop
  <2> DEFINE old == FromTop(slot)
             new == FromTop(slot')
  <2>2. /\ Handed(RawServed, m, old) /\ \A b \in RawServed : new[b] = old[b]
        /\ \A b \in T : new[b] = m + Cardinality(Before(T, b))
    BY <1>6, <1>12, <2>1
  <2> HIDE DEF old, new
  <2>3. Handed(RawServed \cup T, m + Cardinality(T), new)
    BY <1>8, <1>9, <1>11, <2>2, HandOut
  <2> QED BY <1>9, <2>3 DEF new
<1>15. Handed(FseServed', counters.FseHufW, slot')
  <2>1. \A b \in FseServed : slot'[b] = slot[b]
    BY <1>11, <1>13
  <2> QED BY <1>1, <1>10, <2>1, HandedSame DEF SlotsOK
<1>16. \A b \in RawServed' : slot'[b] \in Int
  BY <1>1, <1>9, <1>11, <1>13, <1>12 DEF SlotsOK
<1>17. ASSUME NEW s \in Slots
       PROVE  IF \E b \in T : slot'[b] = s THEN hufRefs'[s] \in T /\ slot'[hufRefs'[s]] = s
                                          ELSE hufRefs'[s] = hufRefs[s]
  <2>1. \A b \in T : slot'[b] = Of(b)
    BY <1>12
  <2> HIDE DEF Of
  <2>2. CASE \E b \in T : Of(b) = s
    <3>1. hufRefs'[s] = CHOOSE b \in T : Of(b) = s
      BY <1>4, <2>2
    <3>2. hufRefs'[s] \in T /\ Of(hufRefs'[s]) = s
      BY <2>2, <3>1
    <3> QED BY <2>1, <3>2
  <2>3. CASE ~ \E b \in T : Of(b) = s
    BY <1>4, <2>1, <2>3
  <2> QED BY <2>2, <2>3
<1>18. /\ \A b \in Blocks : b \notin FseServed' \cup RawServed' => slot'[b] = None
       /\ \A b \in FseServed' \cup RawServed' : slot'[b] \in Int /\ hufRefs'[slot'[b]] = b
  <2>1. FseServed' \cup RawServed' = FseServed \cup RawServed \cup T
        /\ T \cap (FseServed \cup RawServed) = {}
        /\ FseServed' \in SUBSET Blocks /\ RawServed' \in SUBSET Blocks
        /\ FseServed' \cap RawServed' = {}
    BY <1>8, <1>9, <1>10, <1>11
  <2> QED BY <1>1, <1>8, <1>14, <1>13, <1>15, <1>16, <1>17, <2>1, WeightsPlaced
<1>19. SlotsOK'
  BY <1>7, <1>14, <1>15, <1>18 DEF SlotsOK
<1>20. ASSUME NEW t \in FseTypes PROVE TablesOK(t)'
  <2>1. pc[w] \in Past(t) <=> "hufLits" \in Past(t)
    BY <1>2, PastAre DEF FseTypes
  <2> QED BY <1>1, <1>2, <1>3, <1>7, <2>1, TablesFrame
<1>21. Shape'
  <2>1. pc' \in [Waves -> Steps]
    BY <1>2 DEF Steps
  <2>2. DOMAIN slot' = Blocks
    BY <1>1, <1>3 DEF Shape
  <2> QED BY <1>1, <1>3, <1>7, <2>1, <2>2 DEF Shape
<1> QED BY <1>19, <1>20, <1>21 DEF IInv

\* Where the chunk of a type starts.
ChunkOf(t) == ComputeFseIndex(t, 1)

LEMMA ChunkIndex ==
  ASSUME NEW t \in FseTypes, NEW i \in Nat
  PROVE  /\ ComputeFseIndex(t, i) = ChunkOf(t) + (i - 1) /\ ComputeFseIndex(t, i) \in Nat
         /\ ChunkOf("LLen") = RleTables + 1 + NumBlocks
         /\ ChunkOf("Offs") = RleTables + 2 + 2 * NumBlocks
         /\ ChunkOf("MLen") = RleTables + 3 + 3 * NumBlocks
BY ParametersAssumption DEF ComputeFseIndex, ChunkOf, FseTypes

\* What a wave's step for the tables of type t does to the block b.
LEMMA TablesStored ==
  ASSUME Shape, NEW t \in FseTypes, counters.Fse[t] \in Nat, NEW w \in Waves, AllocFseTables(w, t)
  PROVE  /\ DOMAIN fseIndex' = Blocks
         /\ \A b \in Blocks : DOMAIN fseIndex'[b] = FseTypes
         /\ \A b \in Blocks, u \in FseTypes : u # t => fseIndex'[b][u] = fseIndex[b][u]
         /\ \A b \in NewTables(Blocks, t) :
              IF b \in NewTables(Lanes(w), t)
                THEN fseIndex'[b][t] = ComputeFseIndex(t, counters.Fse[t]
                                         + Cardinality(Before(NewTables(Lanes(w), t), b)))
                ELSE fseIndex'[b][t] = fseIndex[b][t]
<1> DEFINE T == NewTables(Lanes(w), t)
           H == HasSequences(Lanes(w))
           i(b) == ComputeFseIndex(t, counters.Fse[t] + Cardinality(Before(T, b)))
           Index(b) == LET mode == input.blocks[b].mode[t]
                       IN CASE mode = "fse" -> i(b)
                            [] mode = "default" -> ComputeFseIndex(t, 0)
                            [] mode = "rle" -> 0
                            [] mode = "repeat" -> Repeat
<1>1. fseIndex' = [b \in DOMAIN fseIndex |->
                     IF b \in H THEN [fseIndex[b] EXCEPT ![t] = Index(b)] ELSE fseIndex[b]]
  BY DEF AllocFseTables, Set
<1>2. DOMAIN fseIndex = Blocks /\ \A b \in Blocks : DOMAIN fseIndex[b] = FseTypes
  BY DEF Shape
<1>3. /\ H \in SUBSET Blocks /\ NewTables(Blocks, t) \in SUBSET Blocks
      /\ \A b \in T : b \in H /\ input.blocks[b].mode[t] = "fse"
      /\ \A b \in NewTables(Blocks, t) : b \in H => b \in T
  BY DEF HasSequences, Lanes, NewTables
<1>4. \A b \in T : Index(b) = i(b)
  BY <1>3
<1> HIDE DEF Index, i, H, T
<1>5. ASSUME NEW b \in Blocks
      PROVE  fseIndex'[b] = IF b \in H THEN [fseIndex[b] EXCEPT ![t] = Index(b)] ELSE fseIndex[b]
  BY <1>1, <1>2
<1>6. ASSUME NEW b \in Blocks
      PROVE  /\ DOMAIN fseIndex'[b] = FseTypes
             /\ \A u \in FseTypes : u # t => fseIndex'[b][u] = fseIndex[b][u]
             /\ fseIndex'[b][t] = IF b \in H THEN Index(b) ELSE fseIndex[b][t]
  <2>1. CASE b \in H
    <3>1. fseIndex'[b] = [fseIndex[b] EXCEPT ![t] = Index(b)]
      BY <1>5, <2>1
    <3> QED BY <1>2, <2>1, <3>1
  <2>2. CASE b \notin H
    BY <1>2, <1>5, <2>2
  <2> QED BY <2>1, <2>2
<1>7. DOMAIN fseIndex' = Blocks
  BY <1>1, <1>2
<1>8. ASSUME NEW b \in NewTables(Blocks, t)
      PROVE  fseIndex'[b][t] = IF b \in T THEN i(b) ELSE fseIndex[b][t]
  <2>1. b \in Blocks /\ fseIndex'[b][t] = IF b \in H THEN Index(b) ELSE fseIndex[b][t]
    BY <1>3, <1>6
  <2>2. CASE b \in T
    <3>1. b \in H /\ Index(b) = i(b)
      BY <1>3, <1>4, <2>2
    <3> QED BY <2>1, <2>2, <3>1
  <2>3. CASE b \notin T
    <3>1. b \notin H
      BY <1>3, <2>3
    <3> QED BY <2>1, <2>3, <3>1
  <2> QED BY <2>2, <2>3
<1>9. ASSUME NEW b \in NewTables(Blocks, t)
      PROVE  IF b \in T THEN fseIndex'[b][t] = i(b) ELSE fseIndex'[b][t] = fseIndex[b][t]
  BY <1>8
<1> QED BY <1>6, <1>7, <1>9 DEF i, T

LEMMA AllocFseTablesStep ==
  ASSUME IInv, NEW w \in Waves, NEW t \in FseTypes, AllocFseTables(w, t)
  PROVE  IInv'
<1> DEFINE T == NewTables(Lanes(w), t)
           n == counters.Fse[t]
           z == Order[Rank(t) + 1]
<1>1. Shape /\ SlotsOK /\ \A u \in FseTypes : TablesOK(u)
  BY DEF IInv
<1>2. /\ pc[w] = t /\ pc' = [pc EXCEPT ![w] = z] /\ input' = input
      /\ pc \in [Waves -> Steps]
  BY <1>1 DEF AllocFseTables, Step, Shape
<1>3. /\ z = IF t = "LLen" THEN "Offs" ELSE IF t = "Offs" THEN "MLen" ELSE "finish"
      /\ z \in Steps
  BY NextStep DEF FseTypes, Steps
<1> HIDE DEF z
<1>4. UNCHANGED <<slot, hufRefs>>
  BY DEF AllocFseTables, literalVars
<1>5. counters' = [counters EXCEPT !["Fse"] = [counters["Fse"] EXCEPT ![t] = n + Cardinality(T)]]
  BY DEF AllocFseTables
<1>6. n \in Nat
  BY <1>1 DEF TablesOK
<1>7. /\ T \in SUBSET Blocks /\ T = NewTables(Blocks, t) \cap Lanes(w)
      /\ NewTables(Blocks, t)' = NewTables(Blocks, t)
      /\ NewTables(Blocks, t) \in SUBSET Blocks
  BY <1>2, KindsAre, KindsFixed
<1>8. /\ DOMAIN fseIndex' = Blocks
      /\ \A b \in Blocks : DOMAIN fseIndex'[b] = FseTypes
      /\ \A b \in Blocks, u \in FseTypes : u # t => fseIndex'[b][u] = fseIndex[b][u]
      /\ \A b \in NewTables(Blocks, t) :
           IF b \in T
             THEN fseIndex'[b][t] = ComputeFseIndex(t, n + Cardinality(Before(T, b)))
             ELSE fseIndex'[b][t] = fseIndex[b][t]
  BY <1>1, <1>6, TablesStored
<1>9. counters.Fse = [u \in FseTypes |-> counters.Fse[u]]
  BY <1>1 DEF Shape
<1> HIDE DEF n, T
<1>10. /\ DOMAIN counters' = DOMAIN counters /\ counters' = [c \in DOMAIN counters |-> counters'[c]]
       /\ counters'.FseHufW = counters.FseHufW
       /\ counters'.HUF_WgtStreams = counters.HUF_WgtStreams
       /\ counters'.Fse = [counters.Fse EXCEPT ![t] = n + Cardinality(T)]
  <2> DEFINE x == [counters["Fse"] EXCEPT ![t] = n + Cardinality(T)]
  <2>1. counters = [c \in DOMAIN counters |-> counters[c]] /\ "Fse" \in DOMAIN counters
    BY <1>1 DEF Shape
  <2>2. counters' = [counters EXCEPT !["Fse"] = x]
    BY <1>5
  <2> HIDE DEF x
  <2>3. DOMAIN counters' = DOMAIN counters /\ counters' = [c \in DOMAIN counters |-> counters'[c]]
    BY <2>1, <2>2
  <2>4. counters'["Fse"] = x /\ \A c \in DOMAIN counters : c # "Fse" => counters'[c] = counters[c]
    BY <2>1, <2>2
  <2>5. counters'.FseHufW = counters.FseHufW /\ counters'.HUF_WgtStreams = counters.HUF_WgtStreams
    BY <1>1, <2>4 DEF Shape
  <2>6. counters'.Fse = x
    BY <2>4
  <2> QED BY <2>3, <2>5, <2>6 DEF x
<1>11. /\ counters'.Fse[t] = n + Cardinality(T)
       /\ \A u \in FseTypes : u # t => counters'.Fse[u] = counters.Fse[u]
       /\ counters'.Fse = [u \in FseTypes |-> counters'.Fse[u]]
  <2> DEFINE old == counters.Fse
             new == counters'.Fse
             x == n + Cardinality(T)
  <2>1. old = [u \in FseTypes |-> old[u]] /\ new = [old EXCEPT ![t] = x]
    BY <1>9, <1>10
  <2> HIDE DEF old, new, x
  <2>2. new[t] = x /\ (\A u \in FseTypes : u # t => new[u] = old[u])
        /\ new = [u \in FseTypes |-> new[u]]
    BY <2>1
  <2> QED BY <2>2 DEF old, new, x
<1>12. TabServed(t)' = TabServed(t) \cup T /\ TabServed(t) \cap T = {}
  <2>1. pc[w] \notin Past(t) /\ pc'[w] \in Past(t)
        /\ \A v \in Waves : v # w => pc'[v] = pc[v]
    BY <1>2, <1>3, PastAre DEF FseTypes
  <2> DEFINE K == NewTables(Blocks, t)
             q == pc'
             A == Past(t)
  <2>2. T = K \cap Lanes(w)
    BY <1>7
  <2>3. TabServed(t)' = Served(q, K, A) /\ TabServed(t) = Served(pc, K, A)
    BY <1>7 DEF TabServed
  <2>4. Passes(pc, q, w, A)
    BY <2>1 DEF Passes
  <2> HIDE DEF K, q, A
  <2>5. Served(q, K, A) = Served(pc, K, A) \cup T /\ Served(pc, K, A) \cap T = {}
    BY <2>2, <2>4, ServedGrows
  <2> QED BY <2>3, <2>5
<1>13. TabServed(t) \in SUBSET NewTables(Blocks, t) /\ TabServed(t) \in SUBSET Blocks
  BY ServedBlocks
<1>14. ASSUME NEW b \in TabServed(t) PROVE fseIndex'[b][t] = fseIndex[b][t]
  BY <1>8, <1>12, <1>13
<1>15. ASSUME NEW b \in T
       PROVE  /\ fseIndex'[b][t] \in Nat
              /\ InChunk(fseIndex', t)[b] = (n - 1) + Cardinality(Before(T, b))
  <2>1. Cardinality(Before(T, b)) \in Nat
    BY <1>7, LanesNumbered, BlocksFinite
  <2> DEFINE k == n + Cardinality(Before(T, b))
  <2>2. k \in Nat
    BY <1>6, <2>1
  <2>3. fseIndex'[b][t] = ComputeFseIndex(t, k)
    BY <1>7, <1>8
  <2>4. InChunk(fseIndex', t)[b] = fseIndex'[b][t] - ChunkOf(t)
    BY <1>7 DEF InChunk, ChunkOf
  <2> HIDE DEF k
  <2>5. fseIndex'[b][t] = ChunkOf(t) + (k - 1) /\ fseIndex'[b][t] \in Nat
    BY <2>2, <2>3, ChunkIndex
  <2>6. ChunkOf(t) \in Nat
    BY ChunkIndex DEF ChunkOf
  <2>7. InChunk(fseIndex', t)[b] = k - 1
    BY <2>2, <2>4, <2>5, <2>6
  <2>8. k - 1 = (n - 1) + Cardinality(Before(T, b))
    BY <1>6, <2>1 DEF k
  <2> QED BY <2>5, <2>7, <2>8
<1>16. Handed(TabServed(t)', counters'.Fse[t] - 1, InChunk(fseIndex', t))
  <2> DEFINE old == InChunk(fseIndex, t)
             new == InChunk(fseIndex', t)
             S == TabServed(t)
             m == n - 1
  <2>1. Handed(S, m, old)
    BY <1>1 DEF TablesOK, n
  <2>2. \A b \in S : new[b] = old[b]
    BY <1>13, <1>14 DEF InChunk
  <2>3. \A b \in T : new[b] = m + Cardinality(Before(T, b))
    BY <1>15
  <2>4. S \in SUBSET Blocks /\ T \in SUBSET Blocks /\ S \cap T = {}
    BY <1>7, <1>12, <1>13
  <2> HIDE DEF old, new, S, m
  <2>5. Handed(S \cup T, m + Cardinality(T), new)
    BY <2>1, <2>2, <2>3, <2>4, HandOut
  <2>6. m + Cardinality(T) = counters'.Fse[t] - 1
    BY <1>6, <1>7, <1>11, BlocksFinite DEF m
  <2>7. S \cup T = TabServed(t)'
    BY <1>12 DEF S
  <2> QED BY <2>5, <2>6, <2>7 DEF new
<1>17. TablesOK(t)'
  <2>1. counters'.Fse[t] \in Nat
    BY <1>6, <1>7, <1>11, BlocksFinite
  <2>2. \A b \in TabServed(t)' : fseIndex'[b][t] \in Nat
    BY <1>1, <1>12, <1>14, <1>15 DEF TablesOK
  <2>3. \A b \in NewTables(Blocks, t)' : b \notin TabServed(t)' => fseIndex'[b][t] = None
    BY <1>1, <1>7, <1>8, <1>12 DEF TablesOK
  <2>4. InChunk(fseIndex, t)' = InChunk(fseIndex', t)
    BY DEF InChunk
  <2> QED BY <1>16, <2>1, <2>2, <2>3, <2>4 DEF TablesOK
<1>18. ASSUME NEW u \in FseTypes, u # t PROVE TablesOK(u)'
  <2>1. pc[w] \in Past(u) <=> z \in Past(u)
    BY <1>2, <1>3, <1>18, PastAre DEF FseTypes
  <2>2. counters'.Fse[u] = counters.Fse[u] /\ \A b \in Blocks : fseIndex'[b][u] = fseIndex[b][u]
    BY <1>8, <1>11, <1>18
  <2> QED BY <1>1, <1>2, <2>1, <2>2, TablesFrame
<1>19. SlotsOK'
  <2>1. (pc[w] \in PastFseTrees <=> z \in PastFseTrees) /\ (pc[w] \in PastRawTrees <=> z \in PastRawTrees)
    BY <1>2, <1>3, PastAre DEF FseTypes
  <2> QED BY <1>1, <1>2, <1>4, <1>10, <2>1, SlotsFrame
<1>20. Shape'
  <2>1. pc' \in [Waves -> Steps]
    BY <1>2, <1>3
  <2>2. DOMAIN slot' = Blocks
    BY <1>1, <1>4 DEF Shape
  <2>3. {"FseHufW", "HUF_WgtStreams", "Fse"} \subseteq DOMAIN counters'
    BY <1>1, <1>10 DEF Shape
  <2> QED BY <1>8, <1>10, <1>11, <2>1, <2>2, <2>3 DEF Shape
<1>21. \A u \in FseTypes : TablesOK(u)'
  BY <1>17, <1>18
<1> QED BY <1>19, <1>20, <1>21 DEF IInv

LEMMA NextInv == IInv /\ [Next]_vars => IInv'
<1> SUFFICES ASSUME IInv, [Next]_vars PROVE IInv'
  OBVIOUS
<1>1. ASSUME NEW w \in Waves, AppendLitStreams(w) PROVE IInv'
  BY <1>1, AppendLitStreamsStep
<1>2. ASSUME NEW w \in Waves, AllocLiteralBytes(w) PROVE IInv'
  BY <1>2, AllocLiteralBytesStep
<1>3. ASSUME NEW w \in Waves, AllocFseTrees(w) PROVE IInv'
  BY <1>3, AllocFseTreesStep
<1>4. ASSUME NEW w \in Waves, AllocRawTrees(w) PROVE IInv'
  BY <1>4, AllocRawTreesStep
<1>5. ASSUME NEW w \in Waves, AppendHufLits(w) PROVE IInv'
  BY <1>5, AppendHufLitsStep
<1>6. ASSUME NEW w \in Waves, AppendSequences(w) PROVE IInv'
  BY <1>6, AppendSequencesStep
<1>7. ASSUME NEW w \in Waves, NEW t \in FseTypes, AllocFseTables(w, t) PROVE IInv'
  BY <1>7, AllocFseTablesStep
<1>8. ASSUME NEW w \in Waves, FinishSequences(w) PROVE IInv'
  BY <1>8, FinishSequencesStep
<1>9. CASE UNCHANGED vars
  <2>1. UNCHANGED <<input, pc, counters, slot, hufRefs, fseIndex>>
    BY <1>9 DEF vars, literalVars, sequenceVars
  <2>2. /\ HasFseTree(Blocks)' = HasFseTree(Blocks) /\ HasRawTree(Blocks)' = HasRawTree(Blocks)
        /\ \A t : NewTables(Blocks, t)' = NewTables(Blocks, t)
    BY <2>1, KindsFixed
  <2>3. FseServed' = FseServed /\ RawServed' = RawServed /\ \A t : TabServed(t)' = TabServed(t)
    BY <2>1, <2>2 DEF FseServed, RawServed, TabServed, Served
  <2>4. Shape' /\ SlotsOK'
    BY <2>1, <2>3 DEF IInv, Shape, SlotsOK, FromTop
  <2>5. ASSUME NEW t \in FseTypes PROVE TablesOK(t)'
    BY <2>1, <2>2, <2>3 DEF IInv, TablesOK, InChunk
  <2> QED BY <2>4, <2>5 DEF IInv
<1> QED BY <1>1, <1>2, <1>3, <1>4, <1>5, <1>6, <1>7, <1>8, <1>9 DEF Next

------------------------------------------------------------------------------
\* The theorems.

\* The slots and the tables handed out so far are handed out once each, at
\* every step of every interleaving of the waves of zstdgpu_ShaderEntry_
\* ParseCompressedBlocks.
THEOREM Invariant == Safety => []IInv
<1>1. Init => IInv
  BY InitInv
<1>2. IInv /\ [Next]_vars => IInv'
  BY NextInv
<1> QED BY <1>1, <1>2, PTL DEF Safety

LEMMA SlotsOnce == IInv => HuffmanSlotsDisjoint
BY DEF IInv, SlotsOK, HuffmanSlotsDisjoint

\* HuffmanSlotsDisjoint: the weights taken from the two ends of HufRefs never
\* meet, and a block's weights stay in the slot they were put in.
THEOREM HuffmanSlots == Safety => []HuffmanSlotsDisjoint
BY Invariant, SlotsOnce, PTL

\* Each block of a set has a slot, another one.
Apiece(S, at) ==
  /\ \A b \in S : at[b] \in Slots
  /\ \A b, c \in S : at[b] = at[c] => b = c

\* Blocks that have a slot have it to themselves.
LEMMA SlotsApart ==
  ASSUME IInv
  PROVE  Apiece(FseServed \cup RawServed, slot)
<1> DEFINE F == FseServed
           R == RawServed
           down == FromTop(slot)
<1>1. SlotsOK
  BY DEF IInv
<1>2. Apart(F, R) /\ Handed(F, counters.FseHufW, slot)
      /\ Handed(R, counters.HUF_WgtStreams, down)
  BY <1>1, ServedBlocks DEF SlotsOK, Apart
<1>3. Mirrored(R, slot, down)
  <2>1. \A b \in R : b \in Blocks /\ slot[b] \in Int
    BY <1>1, ServedBlocks DEF SlotsOK
  <2> QED BY <2>1, ParametersAssumption DEF FromTop, Mirrored
<1> HIDE DEF F, R, down
<1>4. /\ \A b \in F \cup R : slot[b] \in Slots
      /\ \A b, c \in F \cup R : slot[b] = slot[c] => b = c
  BY <1>2, <1>3, TwoEnds
<1> QED BY <1>4 DEF F, R, Apiece

\* A block's slot is one of the array.
LEMMA SlotsInside ==
  ASSUME IInv, NEW c \in Blocks, slot[c] # None
  PROVE  slot[c] \in 0 .. NumBlocks - 1
<1>1. c \in FseServed \cup RawServed
  BY DEF IInv, SlotsOK
<1> QED BY <1>1, SlotsApart DEF Apiece, Slots

\* A block's own table is in its type's chunk, behind the default table.
LEMMA TablesInside ==
  ASSUME IInv, NEW t \in FseTypes, NEW b \in NewTables(Blocks, t), fseIndex[b][t] # None
  PROVE  /\ b \in TabServed(t) /\ fseIndex[b][t] \in Nat
         /\ fseIndex[b][t] - ChunkOf(t) \in 0 .. NumBlocks - 1
         /\ InChunk(fseIndex, t)[b] = fseIndex[b][t] - ChunkOf(t)
<1>1. TablesOK(t)
  BY DEF IInv
<1>2. b \in TabServed(t) /\ b \in Blocks
  BY <1>1, ServedBlocks DEF TablesOK
<1>3. fseIndex[b][t] \in Nat
  BY <1>1, <1>2 DEF TablesOK
<1>4. InChunk(fseIndex, t)[b] = fseIndex[b][t] - ChunkOf(t)
  BY <1>2 DEF InChunk, ChunkOf
<1>5. InChunk(fseIndex, t)[b] \in 0 .. Cardinality(TabServed(t)) - 1
  BY <1>1, <1>2 DEF TablesOK, Handed
<1>6. Cardinality(TabServed(t)) \in Nat /\ Cardinality(TabServed(t)) <= NumBlocks
  BY ServedBlocks, BlocksFinite
<1>7. ChunkOf(t) \in Nat /\ NumBlocks \in Nat
  BY ChunkIndex, ParametersAssumption DEF ChunkOf
<1>8. fseIndex[b][t] - ChunkOf(t) \in 0 .. NumBlocks - 1
  BY <1>3, <1>4, <1>5, <1>6, <1>7
<1> QED BY <1>2, <1>3, <1>4, <1>8

LEMMA TablesOnce == IInv => FseTablesDisjoint
<1> DEFINE Fse(b, t) == b \in NewTables(Blocks, t) /\ fseIndex[b][t] # None
<1> SUFFICES ASSUME IInv, NEW b \in Blocks, NEW c \in Blocks,
                    NEW t \in FseTypes, NEW u \in FseTypes, Fse(b, t)
             PROVE  /\ fseIndex[b][t] \in RleTables .. RleTables + 4 * NumBlocks + 2
                    /\ fseIndex[b][t] # ComputeFseIndex(u, 0)
                    /\ Fse(c, u) /\ <<b, t>> # <<c, u>> => fseIndex[b][t] # fseIndex[c][u]
                    /\ slot[c] # None => fseIndex[b][t] # RleTables + slot[c]
  BY DEF FseTablesDisjoint
<1>1. /\ NumBlocks \in Nat \ {0} /\ RleTables \in Nat
      /\ ChunkOf("LLen") = RleTables + 1 + NumBlocks
      /\ ChunkOf("Offs") = RleTables + 2 + 2 * NumBlocks
      /\ ChunkOf("MLen") = RleTables + 3 + 3 * NumBlocks
  BY ChunkIndex, ParametersAssumption
<1>2. t \in {"LLen", "Offs", "MLen"} /\ u \in {"LLen", "Offs", "MLen"}
  BY DEF FseTypes
<1>3. fseIndex[b][t] \in Nat /\ fseIndex[b][t] - ChunkOf(t) \in 0 .. NumBlocks - 1
  BY TablesInside
<1>4. fseIndex[b][t] \in RleTables .. RleTables + 4 * NumBlocks + 2
  BY <1>1, <1>2, <1>3
<1>5. fseIndex[b][t] # ComputeFseIndex(u, 0)
  <2>1. ComputeFseIndex(u, 0) = ChunkOf(u) - 1
    <3>1. ComputeFseIndex(u, 0) = ChunkOf(u) + (0 - 1)
      BY ChunkIndex
    <3> QED BY <1>1, <1>2, <3>1
  <2> QED BY <1>1, <1>2, <1>3, <2>1
<1>6. ASSUME Fse(c, u), <<b, t>> # <<c, u>> PROVE fseIndex[b][t] # fseIndex[c][u]
  <2>1. fseIndex[c][u] \in Nat /\ fseIndex[c][u] - ChunkOf(u) \in 0 .. NumBlocks - 1
    BY <1>6, TablesInside
  <2>2. CASE t = u
    <3>1. b # c
      BY <1>6, <2>2
    <3>2. Handed(TabServed(t), counters.Fse[t] - 1, InChunk(fseIndex, t))
      BY DEF IInv, TablesOK
    <3>3. /\ b \in TabServed(t) /\ InChunk(fseIndex, t)[b] = fseIndex[b][t] - ChunkOf(t)
          /\ c \in TabServed(t) /\ InChunk(fseIndex, t)[c] = fseIndex[c][t] - ChunkOf(t)
      BY <1>6, <2>2, TablesInside
    <3>4. InChunk(fseIndex, t)[b] # InChunk(fseIndex, t)[c]
      BY <3>1, <3>2, <3>3 DEF Handed
    <3> QED BY <2>2, <3>3, <3>4
  <2>3. CASE t # u
    BY <1>1, <1>2, <1>3, <2>1, <2>3
  <2> QED BY <2>2, <2>3
<1>7. ASSUME slot[c] # None PROVE fseIndex[b][t] # RleTables + slot[c]
  <2>1. slot[c] \in 0 .. NumBlocks - 1
    BY <1>7, SlotsInside
  <2> QED BY <1>1, <1>2, <1>3, <2>1
<1> QED BY <1>4, <1>5, <1>6, <1>7

\* FseTablesDisjoint: no two blocks decode into the same FSE table, of any
\* types, and no table is a default one, that of an RLE symbol, or a slot of
\* Huffman weights.
THEOREM FseTables == Safety => []FseTablesDisjoint
BY Invariant, TablesOnce, PTL

------------------------------------------------------------------------------
\* Sums over blocks.

\* What the blocks before b come to.
Starts(v, b) == SumOver(v, Before(Blocks, b))

LEMMA BlockSums ==
  ASSUME NEW v \in [Blocks -> Nat], NEW S \in SUBSET Blocks
  PROVE  /\ IsFiniteSet(S) /\ Natural(v, S) /\ SumOver(v, S) \in Nat
         /\ \A T \in SUBSET Blocks : T \cap S = {} =>
              SumOver(v, S \cup T) = SumOver(v, S) + SumOver(v, T)
<1>1. IsFiniteSet(S) /\ Natural(v, S)
  BY BlocksFinite DEF Natural
<1>2. SumOver(v, S) \in Nat
  BY <1>1, SumTakes
<1>3. ASSUME NEW T \in SUBSET Blocks, T \cap S = {}
      PROVE  SumOver(v, S \cup T) = SumOver(v, S) + SumOver(v, T)
  <2> DEFINE U == S \cup T
  <2>1. IsFiniteSet(U) /\ Natural(v, U) /\ S \in SUBSET U /\ U \ S = T
    BY <1>3, BlocksFinite DEF Natural
  <2> HIDE DEF U
  <2>2. SumOver(v, U) = SumOver(v, S) + SumOver(v, T)
    BY <2>1, SumSplits
  <2> QED BY <2>2 DEF U
<1> QED BY <1>1, <1>2, <1>3

\* The sum before an element leaves room for the element: before the next one,
\* and in the whole.
LEMMA PrefixSums ==
  ASSUME NEW v \in [Blocks -> Nat], NEW S \in SUBSET Blocks, NEW b \in S
  PROVE  /\ SumOver(v, Before(S, b)) \in Nat
         /\ SumOver(v, Before(S, b)) + v[b] <= SumOver(v, S)
         /\ \A c \in S : b < c =>
              SumOver(v, Before(S, b)) + v[b] <= SumOver(v, Before(S, c))
<1> DEFINE U == Before(S, b) \cup {b}
<1>1. S \subseteq Nat /\ b \in Nat /\ v[b] \in Nat
  BY DEF Blocks
<1>2. U \in SUBSET S /\ b \in U /\ U \ {b} = Before(S, b) /\ Before(S, b) \in SUBSET S
  BY <1>1 DEF Before
<1>3. SumOver(v, U) = SumOver(v, Before(S, b)) + v[b] /\ SumOver(v, Before(S, b)) \in Nat
  <2>1. IsFiniteSet(U) /\ Natural(v, U) /\ IsFiniteSet(Before(S, b)) /\ Natural(v, Before(S, b))
    BY <1>2, BlocksFinite DEF Natural
  <2>2. SumOver(v, U) = v[b] + SumOver(v, U \ {b}) /\ SumOver(v, Before(S, b)) \in Nat
    BY <1>2, <2>1, SumTakes
  <2> QED BY <1>1, <1>2, <2>2
<1>4. ASSUME NEW V \in SUBSET Blocks, U \in SUBSET V PROVE SumOver(v, U) <= SumOver(v, V)
  BY <1>4, BlockSums, SumSplits
<1>5. ASSUME NEW c \in S, b < c PROVE U \in SUBSET Before(S, c)
  <2>1. ASSUME NEW a \in U PROVE a \in Before(S, c)
    <3>1. a \in S /\ a <= b
      BY <1>1 DEF Before
    <3> QED BY <1>1, <1>5, <3>1 DEF Before
  <2> QED BY <2>1
<1>6. \A c \in S : Before(S, c) \in SUBSET Blocks
  BY DEF Before
<1> HIDE DEF U
<1> QED BY <1>2, <1>3, <1>4, <1>5, <1>6

\* The streams of block b, numbered in block order.
Own(v, b) == Starts(v, b) .. Starts(v, b) + v[b] - 1

LEMMA OwnApart ==
  ASSUME NEW v \in [Blocks -> Nat], NEW b \in Blocks, NEW c \in Blocks, NEW s \in Own(v, b), s \in Own(v, c)
  PROVE  b = c
<1>1. b \in Nat /\ c \in Nat /\ v[b] \in Nat /\ v[c] \in Nat
  BY DEF Blocks
<1>2. /\ Starts(v, b) \in Nat /\ Starts(v, c) \in Nat
      /\ b < c => Starts(v, b) + v[b] <= Starts(v, c)
      /\ c < b => Starts(v, c) + v[c] <= Starts(v, b)
  BY PrefixSums DEF Starts
<1> QED BY <1>1, <1>2 DEF Own

\* Every number below the sum belongs to a block.
LEMMA OwnCovers ==
  ASSUME NEW v \in [Blocks -> Nat], NEW x \in Nat, x < SumOver(v, Blocks)
  PROVE  \E b \in Blocks : x \in Own(v, b)
<1> DEFINE T == {b \in Blocks : x < Starts(v, b) + v[b]}
           last == NumBlocks - 1
<1>1. last \in Blocks /\ NumBlocks \in Nat /\ Blocks \subseteq Nat
  BY ParametersAssumption DEF Blocks
<1>2. \A b \in Blocks : Starts(v, b) \in Nat /\ v[b] \in Nat
  BY PrefixSums DEF Starts
<1>3. ASSUME NEW V \in SUBSET Blocks, NEW b \in Blocks, V = Before(Blocks, b) \cup {b}
      PROVE  SumOver(v, V) = Starts(v, b) + v[b]
  <2>1. b \in V /\ V \ {b} = Before(Blocks, b) /\ IsFiniteSet(V) /\ Natural(v, V)
    BY <1>1, <1>3, BlocksFinite DEF Before, Natural
  <2>2. SumOver(v, V) = v[b] + SumOver(v, V \ {b})
    BY <2>1, SumTakes
  <2> QED BY <1>2, <2>1, <2>2 DEF Starts
<1>4. last \in T
  <2>1. Blocks = Before(Blocks, last) \cup {last}
    BY <1>1 DEF Before, Blocks
  <2>2. SumOver(v, Blocks) = Starts(v, last) + v[last]
    BY <1>1, <1>3, <2>1
  <2> QED BY <1>1, <2>2
<1> HIDE DEF T
<1>5. PICK b \in T : \A c \in T : b <= c
  BY <1>1, <1>4, Least DEF T
<1>6. b \in Blocks /\ x < Starts(v, b) + v[b]
  BY <1>5 DEF T
<1>7. Starts(v, b) <= x
  <2>1. CASE b = 0
    <3>1. Before(Blocks, b) = {}
      BY <2>1 DEF Before, Blocks
    <3> QED BY <3>1, FS_EmptySet, SumUnfolds DEF Starts
  <2>2. CASE b # 0
    <3> DEFINE a == b - 1
    <3>1. a \in Blocks /\ a < b /\ ~ (b <= a) /\ Before(Blocks, b) = Before(Blocks, a) \cup {a}
      BY <1>1, <1>6, <2>2 DEF Before, Blocks
    <3>2. Before(Blocks, b) \in SUBSET Blocks
      BY DEF Before
    <3> HIDE DEF a
    <3>3. Starts(v, b) = Starts(v, a) + v[a]
      <4> DEFINE V == Before(Blocks, b)
      <4>1. V \in SUBSET Blocks /\ V = Before(Blocks, a) \cup {a}
        BY <3>1, <3>2
      <4> HIDE DEF V
      <4>2. SumOver(v, V) = Starts(v, a) + v[a]
        BY <1>3, <3>1, <4>1
      <4> QED BY <4>2 DEF Starts, V
    <3>4. ~ (x < Starts(v, a) + v[a])
      BY <1>5, <3>1 DEF T
    <3> QED BY <1>2, <1>6, <3>1, <3>3, <3>4
  <2> QED BY <2>1, <2>2
<1> QED BY <1>2, <1>6, <1>7 DEF Own

\* What the headers allow: no more than four streams, and six bytes for four.
Fits(v, z) ==
  /\ v \in [Blocks -> Nat] /\ z \in [Blocks -> Nat]
  /\ \A b \in Blocks : v[b] \in {0, 1, 4} /\ (v[b] = 4 => z[b] >= 6)

\* Where stream i of block b is, if the block's bytes are at offs.
RangeAt(v, z, b, offs, i) ==
  LET quarter == (z[b] + 3) \div 4
  IN [offs |-> offs + i * quarter,
      size |-> IF i < v[b] - 1 THEN quarter ELSE z[b] - i * quarter]

\* The streams of a block are inside its bytes, each another part of them.
LEMMA RangesInside ==
  ASSUME NEW v, NEW z, Fits(v, z), NEW b \in Blocks, NEW offs \in Nat, NEW i \in 0 .. v[b] - 1
  PROVE  LET p == RangeAt(v, z, b, offs, i)
         IN /\ p.offs \in Nat /\ p.size \in Nat /\ offs <= p.offs /\ p.offs + p.size <= offs + z[b]
            /\ \A j \in 0 .. v[b] - 1 : i # j =>
                 \/ p.offs + p.size <= RangeAt(v, z, b, offs, j).offs
                 \/ RangeAt(v, z, b, offs, j).offs + RangeAt(v, z, b, offs, j).size <= p.offs
<1> DEFINE q == (z[b] + 3) \div 4
           At(j) == offs + j * q
           Size(j) == IF j < v[b] - 1 THEN q ELSE z[b] - j * q
<1>1. z[b] \in Nat /\ v[b] \in {0, 1, 4} /\ (v[b] = 4 => z[b] >= 6)
  BY DEF Fits
<1>2. q \in Nat /\ (v[b] = 4 => 3 * q <= z[b])
  BY <1>1
<1>3. \A j \in 0 .. v[b] - 1 : RangeAt(v, z, b, offs, j).offs = At(j)
                               /\ RangeAt(v, z, b, offs, j).size = Size(j)
  BY DEF RangeAt
<1> HIDE DEF q
<1>4. ASSUME NEW j \in 0 .. v[b] - 1
      PROVE  \/ v[b] = 1 /\ j = 0 /\ At(j) = offs /\ Size(j) = z[b]
             \/ v[b] = 4 /\ j = 0 /\ At(j) = offs /\ Size(j) = q
             \/ v[b] = 4 /\ j = 1 /\ At(j) = offs + q /\ Size(j) = q
             \/ v[b] = 4 /\ j = 2 /\ At(j) = offs + 2 * q /\ Size(j) = q
             \/ v[b] = 4 /\ j = 3 /\ At(j) = offs + 3 * q /\ Size(j) = z[b] - 3 * q
  <2>1. CASE v[b] = 1
    <3>1. j = 0
      BY <2>1
    <3> QED BY <1>1, <1>2, <2>1, <3>1
  <2>2. CASE v[b] = 4
    <3>1. j = 0 \/ j = 1 \/ j = 2 \/ j = 3
      BY <2>2
    <3> QED BY <1>1, <1>2, <2>2, <3>1
  <2>3. v[b] # 0
    BY <1>1
  <2> QED BY <1>1, <2>1, <2>2, <2>3
<1> HIDE DEF At, Size
<1>5. At(i) \in Nat /\ Size(i) \in Nat /\ offs <= At(i) /\ At(i) + Size(i) <= offs + z[b]
  BY <1>1, <1>2, <1>4
<1>6. ASSUME NEW j \in 0 .. v[b] - 1, i # j
      PROVE  At(i) + Size(i) <= At(j) \/ At(j) + Size(j) <= At(i)
  BY <1>1, <1>2, <1>4, <1>6
<1> QED BY <1>3, <1>5, <1>6

\* The blocks of S have their bytes, n streams and m bytes in all.
Placed(v, z, S, n, m, refs) ==
  /\ n = SumOver(v, S) /\ m = SumOver(z, S)
  /\ DOMAIN refs = UNION {Own(v, b) : b \in S}
  /\ \A b \in S : LET at == refs[Starts(v, b)].offs
                  IN /\ at \in Nat /\ at + z[b] <= m
                     /\ \A i \in 0 .. v[b] - 1 :
                          refs[Starts(v, b) + i] = RangeAt(v, z, b, at, i)
  /\ \A b, c \in S : b # c => \/ refs[Starts(v, b)].offs + z[b] <= refs[Starts(v, c)].offs
                              \/ refs[Starts(v, c)].offs + z[c] <= refs[Starts(v, b)].offs

\* A wave's lanes get theirs behind all that were given before.
LEMMA PlacedGrows ==
  ASSUME NEW v, NEW z, Fits(v, z), NEW S \in SUBSET Blocks, NEW T \in SUBSET Blocks,
         S \cap T = {}, \A b \in S \cup T : v[b] # 0,
         NEW n, NEW m, NEW refs, Placed(v, z, S, n, m, refs),
         NEW new, DOMAIN new = UNION {Own(v, b) : b \in T},
         \A b \in T : \A i \in 0 .. v[b] - 1 :
           new[Starts(v, b) + i] = RangeAt(v, z, b, m + SumOver(z, Before(T, b)), i)
  PROVE  Placed(v, z, S \cup T, n + SumOver(v, T), m + SumOver(z, T), Merge(refs, new))
<1> DEFINE all == Merge(refs, new)
           At(b) == refs[Starts(v, b)].offs
           New(b) == m + SumOver(z, Before(T, b))
<1>1. v \in [Blocks -> Nat] /\ z \in [Blocks -> Nat] /\ n \in Nat /\ m \in Nat
      /\ SumOver(v, T) \in Nat /\ SumOver(z, T) \in Nat
  BY BlockSums DEF Fits, Placed
<1>2. n + SumOver(v, T) = SumOver(v, S \cup T) /\ m + SumOver(z, T) = SumOver(z, S \cup T)
  <2>1. T \cap S = {}
    OBVIOUS
  <2> QED BY <1>1, <2>1, BlockSums DEF Placed
<1>3. DOMAIN all = UNION {Own(v, b) : b \in S \cup T}
  <2>1. DOMAIN refs = UNION {Own(v, b) : b \in S}
    BY DEF Placed
  <2>2. DOMAIN all = DOMAIN refs \cup DOMAIN new
    BY DEF Merge
  <2> QED BY <2>1, <2>2
<1>4. ASSUME NEW b \in S \cup T, NEW i \in 0 .. v[b] - 1
      PROVE  /\ Starts(v, b) + i \in Own(v, b) /\ Starts(v, b) + i \in DOMAIN all
             /\ Starts(v, b) \in Own(v, b)
  <2>1. Starts(v, b) \in Nat /\ v[b] \in Nat
    BY <1>1, PrefixSums DEF Starts
  <2>2. Starts(v, b) + i \in Own(v, b) /\ Starts(v, b) \in Own(v, b)
    BY <2>1 DEF Own
  <2> QED BY <1>3, <2>2
<1>5. ASSUME NEW b \in S, NEW i \in 0 .. v[b] - 1
      PROVE  all[Starts(v, b) + i] = refs[Starts(v, b) + i]
  <2>1. Starts(v, b) + i \notin DOMAIN new
    <3>1. SUFFICES ASSUME NEW c \in T, Starts(v, b) + i \in Own(v, c) PROVE FALSE
      OBVIOUS
    <3> QED BY <1>1, <1>4, <3>1, OwnApart
  <2> QED BY <1>4, <2>1 DEF Merge
<1>6. ASSUME NEW b \in T, NEW i \in 0 .. v[b] - 1
      PROVE  all[Starts(v, b) + i] = RangeAt(v, z, b, New(b), i)
  <2>1. Starts(v, b) + i \in DOMAIN new
    BY <1>4
  <2> QED BY <1>4, <2>1 DEF Merge
<1>7. \A b \in S \cup T : /\ 0 \in 0 .. v[b] - 1 /\ Starts(v, b) + 0 = Starts(v, b)
                          /\ z[b] \in Nat
  <2>1. ASSUME NEW b \in S \cup T PROVE v[b] \in Nat /\ v[b] # 0 /\ Starts(v, b) \in Nat /\ z[b] \in Nat
    BY <1>1, PrefixSums DEF Starts
  <2> QED BY <2>1
<1>8. ASSUME NEW b \in S
      PROVE  /\ all[Starts(v, b)].offs = At(b) /\ At(b) \in Nat /\ At(b) + z[b] <= m
             /\ \A i \in 0 .. v[b] - 1 : all[Starts(v, b) + i] = RangeAt(v, z, b, At(b), i)
  BY <1>5, <1>7 DEF Placed
<1>9. ASSUME NEW b \in T
      PROVE  /\ all[Starts(v, b)].offs = New(b) /\ New(b) \in Nat /\ m <= New(b)
             /\ New(b) + z[b] <= m + SumOver(z, T)
             /\ \A c \in T : b < c => New(b) + z[b] <= New(c)
             /\ \A i \in 0 .. v[b] - 1 : all[Starts(v, b) + i] = RangeAt(v, z, b, New(b), i)
  <2>1. /\ SumOver(z, Before(T, b)) \in Nat /\ SumOver(z, Before(T, b)) + z[b] <= SumOver(z, T)
        /\ \A c \in T : b < c => SumOver(z, Before(T, b)) + z[b] <= SumOver(z, Before(T, c))
    BY <1>1, PrefixSums
  <2>2. \A c \in T : SumOver(z, Before(T, c)) \in Nat
    BY <1>1, PrefixSums
  <2>3. all[Starts(v, b)] = RangeAt(v, z, b, New(b), 0)
    BY <1>6, <1>7
  <2>4. RangeAt(v, z, b, New(b), 0).offs = New(b)
    BY <1>1, <2>1 DEF RangeAt
  <2> QED BY <1>1, <1>6, <1>7, <2>1, <2>2, <2>3, <2>4
<1> HIDE DEF all, At, New
<1>10. ASSUME NEW b \in S \cup T
       PROVE  LET at == all[Starts(v, b)].offs
              IN /\ at \in Nat /\ at + z[b] <= m + SumOver(z, T)
                 /\ \A i \in 0 .. v[b] - 1 : all[Starts(v, b) + i] = RangeAt(v, z, b, at, i)
  <2>1. CASE b \in S
    BY <1>1, <1>7, <1>8, <2>1
  <2>2. CASE b \in T
    BY <1>9, <2>2
  <2> QED BY <2>1, <2>2
<1>11. ASSUME NEW b \in S \cup T, NEW c \in S \cup T, b # c
       PROVE  \/ all[Starts(v, b)].offs + z[b] <= all[Starts(v, c)].offs
              \/ all[Starts(v, c)].offs + z[c] <= all[Starts(v, b)].offs
  <2>1. CASE b \in S /\ c \in S
    BY <1>8, <1>11, <2>1 DEF Placed, At
  <2>2. CASE b \in S /\ c \in T
    BY <1>1, <1>7, <1>8, <1>9, <2>2
  <2>3. CASE b \in T /\ c \in S
    BY <1>1, <1>7, <1>8, <1>9, <2>3
  <2>4. CASE b \in T /\ c \in T
    <3>1. b < c \/ c < b
      BY <1>11 DEF Blocks
    <3> QED BY <1>9, <2>4, <3>1
  <2> QED BY <2>1, <2>2, <2>3, <2>4
<1>12. all = Merge(refs, new)
  BY DEF all
<1> QED BY <1>2, <1>3, <1>10, <1>11, <1>12 DEF Placed

\* What is placed does not overlap.
LEMMA PlacedApart ==
  ASSUME NEW v, NEW z, Fits(v, z), NEW S \in SUBSET Blocks, NEW n, NEW m, NEW refs,
         Placed(v, z, S, n, m, refs), NEW s \in DOMAIN refs
  PROVE  /\ refs[s].offs \in Nat /\ refs[s].size \in Nat /\ refs[s].offs + refs[s].size <= m
         /\ \A t \in DOMAIN refs : s # t =>
              \/ refs[s].offs + refs[s].size <= refs[t].offs
              \/ refs[t].offs + refs[t].size <= refs[s].offs
<1> DEFINE At(b) == refs[Starts(v, b)].offs
<1>1. v \in [Blocks -> Nat] /\ z \in [Blocks -> Nat] /\ m \in Nat
  BY BlockSums DEF Fits, Placed
<1>2. \A b \in Blocks : Starts(v, b) \in Nat /\ v[b] \in Nat /\ z[b] \in Nat
  BY <1>1, PrefixSums DEF Starts
<1>3. ASSUME NEW t \in DOMAIN refs
      PROVE  \E b \in S : \E i \in 0 .. v[b] - 1 :
               t = Starts(v, b) + i /\ refs[t] = RangeAt(v, z, b, At(b), i)
  <2>1. PICK b \in S : t \in Own(v, b)
    BY DEF Placed
  <2>2. t - Starts(v, b) \in 0 .. v[b] - 1 /\ t = Starts(v, b) + (t - Starts(v, b))
    BY <1>2, <2>1 DEF Own
  <2> QED BY <2>2 DEF Placed
<1>4. PICK b \in S : \E i \in 0 .. v[b] - 1 :
               s = Starts(v, b) + i /\ refs[s] = RangeAt(v, z, b, At(b), i)
  BY <1>3
<1>5. PICK i \in 0 .. v[b] - 1 : s = Starts(v, b) + i /\ refs[s] = RangeAt(v, z, b, At(b), i)
  BY <1>4
<1>6. \A a \in S : At(a) \in Nat /\ At(a) + z[a] <= m
  BY DEF Placed
<1>7. \A a, c \in S : a # c => At(a) + z[a] <= At(c) \/ At(c) + z[c] <= At(a)
  BY DEF Placed
<1> HIDE DEF At
<1>8. /\ refs[s].offs \in Nat /\ refs[s].size \in Nat
      /\ At(b) <= refs[s].offs /\ refs[s].offs + refs[s].size <= At(b) + z[b]
  BY <1>5, <1>6, RangesInside
<1>9. ASSUME NEW t \in DOMAIN refs, s # t
      PROVE  \/ refs[s].offs + refs[s].size <= refs[t].offs
             \/ refs[t].offs + refs[t].size <= refs[s].offs
  <2>1. PICK c \in S : \E j \in 0 .. v[c] - 1 :
               t = Starts(v, c) + j /\ refs[t] = RangeAt(v, z, c, At(c), j)
    BY <1>3 DEF At
  <2>2. PICK j \in 0 .. v[c] - 1 : t = Starts(v, c) + j /\ refs[t] = RangeAt(v, z, c, At(c), j)
    BY <2>1
  <2>3. CASE b = c
    <3>1. i # j
      BY <1>5, <1>9, <2>2, <2>3
    <3> QED BY <1>5, <1>6, <2>2, <2>3, <3>1, RangesInside
  <2>4. CASE b # c
    <3>1. /\ refs[t].offs \in Nat /\ refs[t].size \in Nat
          /\ At(c) <= refs[t].offs /\ refs[t].offs + refs[t].size <= At(c) + z[c]
      BY <1>6, <2>2, RangesInside
    <3>2. At(b) + z[b] <= At(c) \/ At(c) + z[c] <= At(b)
      BY <1>7, <2>4
    <3> QED BY <1>2, <1>6, <1>8, <3>1, <3>2
  <2> QED BY <2>3, <2>4
<1>10. refs[s].offs + refs[s].size <= m
  BY <1>1, <1>2, <1>6, <1>8
<1> QED BY <1>8, <1>9, <1>10

\* The number of block b among those of K.
IdIn(K, b) == Cardinality(Before(K, b))

\* Counting in block order numbers the blocks of K without a gap.
LEMMA IdsAre ==
  ASSUME NEW K \in SUBSET Blocks
  PROVE  /\ \A b \in K : IdIn(K, b) \in Nat /\ IdIn(K, b) < Cardinality(K)
         /\ \A b, c \in K : b < c <=> IdIn(K, b) < IdIn(K, c)
         /\ \A b, c \in K : IdIn(K, b) = IdIn(K, c) => b = c
         /\ {IdIn(K, b) : b \in K} = 0 .. Cardinality(K) - 1
<1> DEFINE n == Cardinality(K)
           D == 0 .. n - 1
           f == [b \in K |-> IdIn(K, b)]
<1>1. K \subseteq Nat /\ IsFiniteSet(K) /\ n \in Nat
  BY BlocksFinite DEF Blocks
<1>2. /\ \A b \in K : IdIn(K, b) \in D
      /\ \A b, c \in K : b < c => IdIn(K, b) < IdIn(K, c)
  BY LanesNumbered DEF IdIn
<1> HIDE DEF n
<1>3. \A b, c \in K : IdIn(K, b) = IdIn(K, c) => b = c
  <2> SUFFICES ASSUME NEW b \in K, NEW c \in K, IdIn(K, b) = IdIn(K, c), b # c PROVE FALSE
    OBVIOUS
  <2>1. IdIn(K, b) \in Nat /\ IdIn(K, c) \in Nat /\ (b < c \/ c < b)
    BY <1>1, <1>2
  <2> QED BY <1>2, <2>1
<1>4. \A b, c \in K : b < c <=> IdIn(K, b) < IdIn(K, c)
  <2> SUFFICES ASSUME NEW b \in K, NEW c \in K, IdIn(K, b) < IdIn(K, c) PROVE b < c
    BY <1>2
  <2>1. IdIn(K, b) \in Nat /\ IdIn(K, c) \in Nat /\ b \in Nat /\ c \in Nat
    BY <1>1, <1>2
  <2>2. ~ (c < b) /\ b # c
    BY <1>2, <2>1
  <2> QED BY <2>1, <2>2
<1>5. {IdIn(K, b) : b \in K} = D
  <2>1. IsFiniteSet(D) /\ Cardinality(D) = n
    <3>1. IsFiniteSet(D) /\ Cardinality(D) = IF 0 > n - 1 THEN 0 ELSE (n - 1) - 0 + 1
      BY <1>1, FS_Interval
    <3> QED BY <1>1, <3>1
  <2>2. f \in Injection(K, D)
    BY <1>2, <1>3 DEF Injection, IsInjective
  <2> HIDE DEF D, f
  <2>3. f \in Surjection(K, D)
    BY <1>1, <2>1, <2>2, FS_Injection DEF n
  <2>4. f \in [K -> D] /\ \A d \in D : \E b \in K : f[b] = d
    BY <2>3 DEF Surjection
  <2> QED BY <2>4 DEF f
<1> QED BY <1>1, <1>2, <1>3, <1>4, <1>5 DEF n

LEMMA IdsFinite ==
  ASSUME NEW S \in SUBSET Blocks, NEW T \in SUBSET Blocks, S \cap T = {}
  PROVE  Cardinality(S \cup T) = Cardinality(S) + Cardinality(T)
BY TwoSets

ForSlots(f) == f = [s \in Slots |-> f[s]]

\* The blocks of S, of those of K that have a table of their own: how many, what
\* each one's slot leads to, and the first stream of each.
Linked(v, K, S, n, at, ids, firsts) ==
  /\ n = Cardinality(S)
  /\ DOMAIN firsts = {IdIn(K, b) : b \in S}
  /\ \A b \in S : firsts[IdIn(K, b)] = Starts(v, b)
  /\ ForSlots(ids)
  /\ \A b \in S : ids[at[b]] = IdIn(K, b)
  /\ \A s \in Slots : (~ \E b \in S : at[b] = s) => ids[s] = None

LEMMA LinkedSame ==
  ASSUME NEW v, NEW K, NEW S, NEW n, NEW at, NEW ids, NEW firsts, Linked(v, K, S, n, at, ids, firsts),
         NEW new, \A b \in S : new[b] = at[b]
  PROVE  Linked(v, K, S, n, new, ids, firsts)
BY DEF Linked

LEMMA LinkedGrows ==
  ASSUME NEW v, NEW K \in SUBSET Blocks, NEW S \in SUBSET K, NEW T \in SUBSET K, S \cap T = {},
         NEW n, NEW at, NEW ids, NEW firsts, Linked(v, K, S, n, at, ids, firsts),
         Apiece(S \cup T, at),
         NEW ids2, ForSlots(ids2),
         \A s \in Slots : IF \E b \in T : at[b] = s
                            THEN \E b \in T : at[b] = s /\ ids2[s] = IdIn(K, b)
                            ELSE ids2[s] = ids[s],
         NEW new, DOMAIN new = {IdIn(K, b) : b \in T},
         \A b \in T : new[IdIn(K, b)] = Starts(v, b)
  PROVE  Linked(v, K, S \cup T, n + Cardinality(T), at, ids2, Merge(firsts, new))
<1> DEFINE all == Merge(firsts, new)
<1>1. n + Cardinality(T) = Cardinality(S \cup T)
  BY IdsFinite DEF Linked
<1>2. DOMAIN all = {IdIn(K, b) : b \in S \cup T}
  <2>1. DOMAIN all = DOMAIN firsts \cup DOMAIN new /\ DOMAIN firsts = {IdIn(K, b) : b \in S}
    BY DEF Merge, Linked
  <2> QED BY <2>1
<1>3. ASSUME NEW b \in S \cup T PROVE all[IdIn(K, b)] = Starts(v, b)
  <2>1. IdIn(K, b) \in DOMAIN firsts \cup DOMAIN new
    BY DEF Linked
  <2>2. CASE b \in T
    BY <2>1, <2>2 DEF Merge
  <2>3. CASE b \in S
    <3>1. IdIn(K, b) \notin DOMAIN new
      <4>1. \A c \in T : IdIn(K, b) # IdIn(K, c)
        BY <2>3, IdsAre
      <4> QED BY <4>1
    <3>2. all[IdIn(K, b)] = firsts[IdIn(K, b)]
      BY <2>1, <3>1 DEF Merge
    <3> QED BY <2>3, <3>2 DEF Linked
  <2> QED BY <2>2, <2>3
<1>4. ASSUME NEW b \in S \cup T PROVE ids2[at[b]] = IdIn(K, b)
  <2>1. at[b] \in Slots /\ \A c \in S \cup T : at[c] = at[b] => c = b
    BY DEF Apiece
  <2>2. CASE b \in T
    BY <2>1, <2>2
  <2>3. CASE b \in S
    <3>1. ~ \E c \in T : at[c] = at[b]
      BY <2>1, <2>3
    <3>2. ids2[at[b]] = ids[at[b]]
      BY <2>1, <3>1
    <3> QED BY <2>3, <3>2 DEF Linked
  <2> QED BY <2>2, <2>3
<1>5. ASSUME NEW s \in Slots, ~ \E b \in S \cup T : at[b] = s PROVE ids2[s] = None
  BY <1>5 DEF Linked
<1> HIDE DEF all
<1>6. Linked(v, K, S \cup T, n + Cardinality(T), at, ids2, all)
  BY <1>1, <1>2, <1>3, <1>4, <1>5 DEF Linked
<1> QED BY <1>6 DEF all

\* The sequence streams of the blocks of F.
Filled(u, K, F, per) ==
  /\ DOMAIN per = {IdIn(K, b) : b \in F}
  /\ \A b \in F : per[IdIn(K, b)].block = b /\ per[IdIn(K, b)].start = Starts(u, b)

LEMMA FilledGrows ==
  ASSUME NEW u, NEW K \in SUBSET Blocks, NEW F \in SUBSET K, NEW T \in SUBSET K, F \cap T = {},
         NEW per, Filled(u, K, F, per), NEW new, Filled(u, K, T, new)
  PROVE  Filled(u, K, F \cup T, Merge(per, new))
<1> DEFINE all == Merge(per, new)
<1>1. DOMAIN all = DOMAIN per \cup DOMAIN new
  BY DEF Merge
<1>2. DOMAIN all = {IdIn(K, b) : b \in F \cup T}
  BY <1>1 DEF Filled
<1>3. ASSUME NEW b \in F \cup T
      PROVE  all[IdIn(K, b)].block = b /\ all[IdIn(K, b)].start = Starts(u, b)
  <2>1. IdIn(K, b) \in DOMAIN per \cup DOMAIN new
    BY DEF Filled
  <2>2. CASE b \in T
    <3>1. IdIn(K, b) \in DOMAIN new
      BY <2>2 DEF Filled
    <3>2. all[IdIn(K, b)] = new[IdIn(K, b)]
      BY <2>1, <3>1 DEF Merge
    <3> QED BY <2>2, <3>2 DEF Filled
  <2>3. CASE b \in F
    <3>1. IdIn(K, b) \notin DOMAIN new
      <4>1. \A c \in T : IdIn(K, b) # IdIn(K, c)
        BY <2>3, IdsAre
      <4> QED BY <4>1 DEF Filled
    <3>2. all[IdIn(K, b)] = per[IdIn(K, b)]
      BY <2>1, <3>1 DEF Merge
    <3> QED BY <2>3, <3>2 DEF Filled
  <2> QED BY <2>2, <2>3
<1> HIDE DEF all
<1>4. Filled(u, K, F \cup T, all)
  BY <1>2, <1>3 DEF Filled
<1> QED BY <1>4 DEF all

LEMMA MinIs ==
  ASSUME NEW C \in SUBSET Nat, C # {}
  PROVE  Min(C) \in C /\ \A c \in C : Min(C) <= c
<1>1. \E m \in C : \A c \in C : m <= c
  BY Least
<1> QED BY <1>1, Zenon DEF Min

\* The least of a set of numbers, if it has one.
FirstOf(C) == IF C = {} THEN None ELSE Min(C)

\* The least number so far, with those of a wave.
LEMMA FirstGrows ==
  ASSUME NEW C \in SUBSET Nat, NEW D \in SUBSET Nat
  PROVE  FirstOf(D \cup ({FirstOf(C)} \ {None})) = FirstOf(C \cup D)
<1> DEFINE E == D \cup ({FirstOf(C)} \ {None})
<1>1. CASE C = {}
  BY <1>1 DEF FirstOf
<1>2. CASE C # {}
  <2> DEFINE m == Min(C)
             U == C \cup D
  <2>1. m \in C /\ (\A c \in C : m <= c) /\ m \in Nat
    BY <1>2, MinIs
  <2>2. FirstOf(C) = m /\ m # None
    BY <1>2, <2>1, NoneAssumption DEF FirstOf
  <2> HIDE DEF m
  <2>3. E = D \cup {m}
    BY <2>2
  <2> HIDE DEF E
  <2>4. Min(E) \in E /\ (\A c \in E : Min(E) <= c) /\ E # {} /\ E \in SUBSET Nat
    BY <2>1, <2>3, MinIs
  <2>5. Min(U) \in U /\ (\A c \in U : Min(U) <= c) /\ U # {} /\ U \in SUBSET Nat
    BY <1>2, MinIs
  <2>6. Min(E) \in U /\ Min(E) \in Nat /\ Min(U) \in Nat
    BY <2>1, <2>3, <2>4, <2>5
  <2> DEFINE x == Min(E)
             y == Min(U)
  <2>7. x \in U /\ x \in Nat /\ y \in Nat /\ y \in U /\ (\A c \in U : y <= c) /\ (\A c \in E : x <= c)
    BY <2>4, <2>5, <2>6
  <2> HIDE DEF x, y
  <2>8. y <= x
    BY <2>7
  <2>9. x <= y
    <3>1. CASE y \in D
      BY <2>3, <2>7, <3>1
    <3>2. CASE y \in C
      <4>1. m <= y /\ x <= m
        BY <2>1, <2>3, <2>7, <3>2
      <4> QED BY <2>1, <2>7, <4>1
    <3> QED BY <2>7, <3>1, <3>2
  <2>10. x = y
    BY <2>7, <2>8, <2>9
  <2>11. FirstOf(E) = x /\ FirstOf(U) = y
    BY <2>4, <2>5 DEF FirstOf, x, y
  <2> QED BY <2>10, <2>11 DEF E
<1> QED BY <1>1, <1>2

\* The frame of a block, and the first stream of the blocks of F in each frame.
Frame(start, b) == BinarySearch(start, Cardinality(DOMAIN start), b)

IdsOf(K, F, start, f) == {IdIn(K, b) : b \in {c \in F : Frame(start, c) = f}}

Started(K, F, start, first) ==
  first = [f \in DOMAIN start |-> FirstOf(IdsOf(K, F, start, f))]

LEMMA StartedGrows ==
  ASSUME NEW K \in SUBSET Blocks, NEW F \in SUBSET K, NEW T \in SUBSET K,
         NEW start, NEW first, Started(K, F, start, first), NEW new,
         new = [f \in DOMAIN start |-> FirstOf(IdsOf(K, T, start, f) \cup ({first[f]} \ {None}))]
  PROVE  Started(K, F \cup T, start, new)
<1>1. ASSUME NEW f \in DOMAIN start
      PROVE  FirstOf(IdsOf(K, T, start, f) \cup ({first[f]} \ {None}))
               = FirstOf(IdsOf(K, F \cup T, start, f))
  <2> DEFINE C == IdsOf(K, F, start, f)
             D == IdsOf(K, T, start, f)
  <2>1. C \in SUBSET Nat /\ D \in SUBSET Nat
    <3>1. \A b \in K : IdIn(K, b) \in Nat
      BY IdsAre
    <3> QED BY <3>1 DEF IdsOf
  <2>2. C \cup D = IdsOf(K, F \cup T, start, f)
    BY DEF IdsOf
  <2>3. first[f] = FirstOf(C)
    BY DEF Started
  <2> HIDE DEF C, D
  <2>4. FirstOf(D \cup ({FirstOf(C)} \ {None})) = FirstOf(C \cup D)
    BY <2>1, FirstGrows
  <2> QED BY <2>2, <2>3, <2>4 DEF D
<1> QED BY <1>1 DEF Started

------------------------------------------------------------------------------
\* The rest of the invariant: what the blocks of the waves that are past a step
\* have got from it.

StreamCount   == [b \in Blocks |-> input.blocks[b].streams]
LiteralSize   == [b \in Blocks |-> input.blocks[b].size]
SequenceCount == [b \in Blocks |-> input.blocks[b].seqs]

PastSequences == {"LLen"} \cup PastLLen
PastHufLits   == {"sequences"} \cup PastSequences
PastBytes     == {"fseTrees"} \cup PastFseTrees
PastStreams   == {"bytes"} \cup PastBytes

StreamsServed == Served(pc, Blocks, PastStreams)
BytesServed   == Served(pc, HasHuffman(Blocks), PastBytes)
LitsServed    == Served(pc, HufLits(Blocks), PastHufLits)
SeqServed     == Served(pc, HasSequences(Blocks), PastSequences)
Finished      == Served(pc, HasSequences(Blocks), {"done"})

Fields == {"HUF_Streams", "DecodedBytes", "FseHufW", "HUF_WgtStreams", "HufLit",
           "Seq_Streams", "DecodedItems", "Fse"}

FieldsOK == DOMAIN counters = Fields /\ counters = [c \in Fields |-> counters[c]]

RefsOK == hufRefs \in [Slots -> Blocks \cup {None}] /\ slot = [b \in Blocks |-> slot[b]]

StreamsOK ==
  litStream = [b \in Blocks |-> IF b \in StreamsServed THEN Starts(StreamCount, b) ELSE None]

RangesOK ==
  Placed(StreamCount, LiteralSize, BytesServed, counters.HUF_Streams, counters.DecodedBytes,
         litRefs)

LinksOK ==
  Linked(StreamCount, HufLits(Blocks), LitsServed, counters.HufLit, slot, hufWIdToHufLitId,
         hufLitIdToLitStreamId)

NumbersOK ==
  /\ counters.Seq_Streams = Cardinality(SeqServed)
  /\ counters.DecodedItems = SumOver(SequenceCount, SeqServed)
  /\ seqStream = [b \in Blocks |-> IF b \in SeqServed THEN IdIn(HasSequences(Blocks), b)
                                                       ELSE None]

FinishedOK ==
  /\ Filled(SequenceCount, HasSequences(Blocks), Finished, perSeqStream)
  /\ Started(HasSequences(Blocks), Finished, input.frameStart, seqStreamMinIdx)

Whole ==
  /\ IInv /\ input \in Inputs /\ FieldsOK /\ RefsOK
  /\ StreamsOK /\ RangesOK /\ LinksOK /\ NumbersOK /\ FinishedOK

\* The headers are what the format allows.
LEMMA HeaderValues ==
  ASSUME input \in Inputs
  PROVE  /\ Fits(StreamCount, LiteralSize) /\ SequenceCount \in [Blocks -> Nat]
         /\ \A b \in Blocks : b \in HasHuffman(Blocks) <=> StreamCount[b] # 0
         /\ \A b \in Blocks : b \in HasSequences(Blocks) <=> SequenceCount[b] # 0
<1>1. input.blocks \in [Blocks -> Header]
  BY HeadersAssumption
<1>2. ASSUME NEW b \in Blocks
      PROVE  /\ input.blocks[b].streams \in {0, 1, 4} /\ input.blocks[b].size \in Nat
             /\ input.blocks[b].seqs \in Nat
             /\ Tree(b) = "raw" <=> input.blocks[b].streams = 0
             /\ input.blocks[b].streams = 4 => input.blocks[b].size >= 6
  BY <1>1, HeadersAssumption DEF Header, Tree
<1> QED BY <1>2 DEF Fits, StreamCount, LiteralSize, SequenceCount, HasHuffman, HasSequences

LEMMA KindsBlocks ==
  /\ HasHuffman(Blocks) \in SUBSET Blocks /\ HufLits(Blocks) \in SUBSET Blocks
  /\ HasSequences(Blocks) \in SUBSET Blocks /\ HufLits(Blocks) \subseteq HasHuffman(Blocks)
  /\ \A w \in Waves :
       /\ Lanes(w) = Blocks \cap Lanes(w)
       /\ HasHuffman(Lanes(w)) = HasHuffman(Blocks) \cap Lanes(w)
       /\ HufLits(Lanes(w)) = HufLits(Blocks) \cap Lanes(w)
       /\ HasSequences(Lanes(w)) = HasSequences(Blocks) \cap Lanes(w)
BY DEF HasHuffman, HufLits, HasFseTree, HasRawTree, HasSequences, Lanes, Tree

LEMMA StreamsIs ==
  ASSUME NEW S \in SUBSET Blocks
  PROVE  Streams(S) = SumOver(StreamCount, S)
<1> DEFINE F(f) == f = [s \in SUBSET S |->
                          IF s = {} THEN 0
                          ELSE LET x == CHOOSE x \in s : TRUE
                               IN input.blocks[x].streams + f[s \ {x}]]
           v == StreamCount
<1>1. \A f : F(f) <=> IsSum(v, S, f)
  <2>1. \A s \in SUBSET S : s # {} => (CHOOSE x \in s : TRUE) \in Blocks
    OBVIOUS
  <2> QED BY <2>1 DEF IsSum, SumStep, StreamCount
<1>2. Streams(S) = (CHOOSE f : F(f))[S]
  BY DEF Streams, MapThenSumSet, MapThenFoldSet
<1> HIDE DEF F, v
<1>3. (CHOOSE f : F(f)) = (CHOOSE f : IsSum(v, S, f))
  BY <1>1
<1> QED BY <1>2, <1>3 DEF SumOver, v

LEMMA BytesIs ==
  ASSUME NEW S \in SUBSET Blocks
  PROVE  Bytes(S) = SumOver(LiteralSize, S)
<1> DEFINE F(f) == f = [s \in SUBSET S |->
                          IF s = {} THEN 0
                          ELSE LET x == CHOOSE x \in s : TRUE
                               IN input.blocks[x].size + f[s \ {x}]]
           v == LiteralSize
<1>1. \A f : F(f) <=> IsSum(v, S, f)
  <2>1. \A s \in SUBSET S : s # {} => (CHOOSE x \in s : TRUE) \in Blocks
    OBVIOUS
  <2> QED BY <2>1 DEF IsSum, SumStep, LiteralSize
<1>2. Bytes(S) = (CHOOSE f : F(f))[S]
  BY DEF Bytes, MapThenSumSet, MapThenFoldSet
<1> HIDE DEF F, v
<1>3. (CHOOSE f : F(f)) = (CHOOSE f : IsSum(v, S, f))
  BY <1>1
<1> QED BY <1>2, <1>3 DEF SumOver, v

LEMMA SequencesIs ==
  ASSUME NEW S \in SUBSET Blocks
  PROVE  Sequences(S) = SumOver(SequenceCount, S)
<1> DEFINE F(f) == f = [s \in SUBSET S |->
                          IF s = {} THEN 0
                          ELSE LET x == CHOOSE x \in s : TRUE
                               IN input.blocks[x].seqs + f[s \ {x}]]
           v == SequenceCount
<1>1. \A f : F(f) <=> IsSum(v, S, f)
  <2>1. \A s \in SUBSET S : s # {} => (CHOOSE x \in s : TRUE) \in Blocks
    OBVIOUS
  <2> QED BY <2>1 DEF IsSum, SumStep, SequenceCount
<1>2. Sequences(S) = (CHOOSE f : F(f))[S]
  BY DEF Sequences, MapThenSumSet, MapThenFoldSet
<1> HIDE DEF F, v
<1>3. (CHOOSE f : F(f)) = (CHOOSE f : IsSum(v, S, f))
  BY <1>1
<1> QED BY <1>2, <1>3 DEF SumOver, v

\* What a step does not change.
LEMMA Fixed ==
  ASSUME UNCHANGED input
  PROVE  /\ StreamCount' = StreamCount /\ LiteralSize' = LiteralSize
         /\ SequenceCount' = SequenceCount
         /\ HasHuffman(Blocks)' = HasHuffman(Blocks) /\ HufLits(Blocks)' = HufLits(Blocks)
         /\ HasSequences(Blocks)' = HasSequences(Blocks)
BY DEF StreamCount, LiteralSize, SequenceCount, HasHuffman, HufLits, HasFseTree, HasRawTree,
       HasSequences, Tree

\* A wave that takes a step serves its lanes with what comes after the step, and
\* nobody with anything else.
LEMMA Advance ==
  ASSUME pc \in [Waves -> Steps], NEW w \in Waves, NEW s, Step(w, s),
         NEW z, z = Order[Rank(s) + 1], NEW K, NEW A
  PROVE  /\ (s \in A <=> z \in A) => Served(pc', K, A) = Served(pc, K, A)
         /\ s \notin A /\ z \in A =>
              /\ Served(pc', K, A) = Served(pc, K, A) \cup (K \cap Lanes(w))
              /\ Served(pc, K, A) \cap (K \cap Lanes(w)) = {}
<1> DEFINE q == pc'
<1>1. pc[w] = s /\ q[w] = z /\ \A v \in Waves : v # w => q[v] = pc[v]
  BY DEF Step
<1> HIDE DEF q
<1>2. ASSUME s \in A <=> z \in A PROVE Served(q, K, A) = Served(pc, K, A)
  <2>1. \A v \in Waves : q[v] \in A <=> pc[v] \in A
    BY <1>1, <1>2
  <2> QED BY <2>1, ServedSame
<1>3. ASSUME s \notin A, z \in A
      PROVE  /\ Served(q, K, A) = Served(pc, K, A) \cup (K \cap Lanes(w))
             /\ Served(pc, K, A) \cap (K \cap Lanes(w)) = {}
  <2>1. Passes(pc, q, w, A)
    BY <1>1, <1>3 DEF Passes
  <2> DEFINE T == K \cap Lanes(w)
  <2> HIDE DEF T
  <2>2. T = K \cap Lanes(w)
    BY DEF T
  <2>3. Served(q, K, A) = Served(pc, K, A) \cup T /\ Served(pc, K, A) \cap T = {}
    BY <2>1, <2>2, ServedGrows
  <2> QED BY <2>3 DEF T
<1> QED BY <1>2, <1>3 DEF q

LEMMA PlacesAre ==
  /\ PastStreams = {"bytes", "fseTrees", "rawTrees", "hufLits", "sequences", "LLen", "Offs",
                    "MLen", "finish", "done"}
  /\ PastBytes = {"fseTrees", "rawTrees", "hufLits", "sequences", "LLen", "Offs", "MLen",
                  "finish", "done"}
  /\ PastHufLits = {"sequences", "LLen", "Offs", "MLen", "finish", "done"}
  /\ PastSequences = {"LLen", "Offs", "MLen", "finish", "done"}
BY DEF PastStreams, PastBytes, PastHufLits, PastSequences, PastFseTrees, PastRawTrees, PastLLen,
       PastOffs, PastMLen

\* Those a wave serves at a step are blocks that were served before.
LEMMA ServedAmong ==
  /\ StreamsServed \in SUBSET Blocks /\ BytesServed \in SUBSET HasHuffman(Blocks)
  /\ LitsServed \in SUBSET HufLits(Blocks) /\ SeqServed \in SUBSET HasSequences(Blocks)
  /\ Finished \in SUBSET HasSequences(Blocks) /\ Finished \subseteq SeqServed
  /\ LitsServed \subseteq FseServed \cup RawServed
  /\ \A w \in Waves : pc[w] = "hufLits" => HufLits(Blocks) \cap Lanes(w) \subseteq FseServed \cup RawServed
  /\ \A w \in Waves : pc[w] \in PastStreams => Lanes(w) \subseteq StreamsServed
  /\ \A w \in Waves : pc[w] \in PastSequences => HasSequences(Lanes(w)) \subseteq SeqServed
<1>1. /\ StreamsServed \in SUBSET Blocks /\ BytesServed \in SUBSET HasHuffman(Blocks)
      /\ LitsServed \in SUBSET HufLits(Blocks) /\ SeqServed \in SUBSET HasSequences(Blocks)
      /\ Finished \in SUBSET HasSequences(Blocks)
  BY DEF StreamsServed, BytesServed, LitsServed, SeqServed, Finished, Served
<1>2. Finished \subseteq SeqServed
  BY PlacesAre DEF Finished, SeqServed, Served
<1>3. \A b \in HufLits(Blocks) : b \in HasFseTree(Blocks) \/ b \in HasRawTree(Blocks)
  BY DEF HufLits
<1>4. ASSUME NEW b \in HufLits(Blocks), NEW w \in Waves, b \in Lanes(w),
             pc[w] \in {"hufLits"} \cup PastHufLits
      PROVE  b \in FseServed \cup RawServed
  BY <1>3, <1>4, PlacesAre, PastAre DEF FseServed, RawServed, Served
<1>5. LitsServed \subseteq FseServed \cup RawServed
  BY <1>1, <1>4 DEF LitsServed, Served
<1>6. \A w \in Waves : pc[w] = "hufLits" => HufLits(Blocks) \cap Lanes(w) \subseteq FseServed \cup RawServed
  BY <1>4
<1>7. \A w \in Waves : pc[w] \in PastStreams => Lanes(w) \subseteq StreamsServed
  BY DEF StreamsServed, Served, Lanes
<1>8. \A w \in Waves : pc[w] \in PastSequences => HasSequences(Lanes(w)) \subseteq SeqServed
  BY KindsBlocks DEF SeqServed, Served
<1> QED BY <1>1, <1>2, <1>5, <1>6, <1>7, <1>8

\* One counter set, the others kept.
LEMMA FieldSet ==
  ASSUME NEW old, DOMAIN old = Fields, old = [c \in Fields |-> old[c]],
         NEW k \in Fields, NEW x, NEW new, new = [old EXCEPT ![k] = x]
  PROVE  /\ DOMAIN new = Fields /\ new = [c \in Fields |-> new[c]]
         /\ new[k] = x /\ \A c \in Fields : c # k => new[c] = old[c]
OBVIOUS

\* Where the wave that takes step s adds its lanes.
LEMMA ServedNext ==
  ASSUME pc \in [Waves -> Steps], NEW w \in Waves, NEW s \in Steps \ {"done"}, Step(w, s)
  PROVE  /\ IF s = "streams" THEN StreamsServed' = StreamsServed \cup Lanes(w)
                             ELSE StreamsServed' = StreamsServed
         /\ IF s = "bytes" THEN /\ BytesServed' = BytesServed \cup HasHuffman(Lanes(w))
                                /\ BytesServed \cap HasHuffman(Lanes(w)) = {}
                           ELSE BytesServed' = BytesServed
         /\ IF s = "hufLits" THEN /\ LitsServed' = LitsServed \cup HufLits(Lanes(w))
                                  /\ LitsServed \cap HufLits(Lanes(w)) = {}
                             ELSE LitsServed' = LitsServed
         /\ IF s = "sequences" THEN /\ SeqServed' = SeqServed \cup HasSequences(Lanes(w))
                                    /\ SeqServed \cap HasSequences(Lanes(w)) = {}
                               ELSE SeqServed' = SeqServed
         /\ IF s = "finish" THEN /\ Finished' = Finished \cup HasSequences(Lanes(w))
                                 /\ Finished \cap HasSequences(Lanes(w)) = {}
                            ELSE Finished' = Finished
<1> DEFINE z == Order[Rank(s) + 1]
<1>1. /\ s # "streams" <=> (s \in PastStreams <=> z \in PastStreams)
      /\ s # "bytes" <=> (s \in PastBytes <=> z \in PastBytes)
      /\ s # "hufLits" <=> (s \in PastHufLits <=> z \in PastHufLits)
      /\ s # "sequences" <=> (s \in PastSequences <=> z \in PastSequences)
      /\ s # "finish" <=> (s \in {"done"} <=> z \in {"done"})
  BY NextStep, PlacesAre DEF Steps
<1>2. /\ s = "streams" => s \notin PastStreams
      /\ s = "bytes" => s \notin PastBytes
      /\ s = "hufLits" => s \notin PastHufLits
      /\ s = "sequences" => s \notin PastSequences
      /\ s = "finish" => s \notin {"done"}
  BY PlacesAre
<1> HIDE DEF z
<1>3. ASSUME NEW K, NEW A
      PROVE  /\ (s \in A <=> z \in A) => Served(pc', K, A) = Served(pc, K, A)
             /\ s \notin A /\ z \in A =>
                  /\ Served(pc', K, A) = Served(pc, K, A) \cup (K \cap Lanes(w))
                  /\ Served(pc, K, A) \cap (K \cap Lanes(w)) = {}
  BY Advance DEF z
<1>4. /\ HasHuffman(Blocks)' = HasHuffman(Blocks) /\ HufLits(Blocks)' = HufLits(Blocks)
      /\ HasSequences(Blocks)' = HasSequences(Blocks)
  BY Fixed DEF Step
<1>5. /\ Lanes(w) = Blocks \cap Lanes(w)
      /\ HasHuffman(Lanes(w)) = HasHuffman(Blocks) \cap Lanes(w)
      /\ HufLits(Lanes(w)) = HufLits(Blocks) \cap Lanes(w)
      /\ HasSequences(Lanes(w)) = HasSequences(Blocks) \cap Lanes(w)
  BY KindsBlocks
<1>6. IF s = "streams" THEN StreamsServed' = StreamsServed \cup Lanes(w)
                       ELSE StreamsServed' = StreamsServed
  BY <1>1, <1>2, <1>3, <1>5 DEF StreamsServed
<1>7. IF s = "bytes" THEN /\ BytesServed' = BytesServed \cup HasHuffman(Lanes(w))
                          /\ BytesServed \cap HasHuffman(Lanes(w)) = {}
                     ELSE BytesServed' = BytesServed
  BY <1>1, <1>2, <1>3, <1>4, <1>5 DEF BytesServed
<1>8. IF s = "hufLits" THEN /\ LitsServed' = LitsServed \cup HufLits(Lanes(w))
                            /\ LitsServed \cap HufLits(Lanes(w)) = {}
                       ELSE LitsServed' = LitsServed
  BY <1>1, <1>2, <1>3, <1>4, <1>5 DEF LitsServed
<1>9. IF s = "sequences" THEN /\ SeqServed' = SeqServed \cup HasSequences(Lanes(w))
                              /\ SeqServed \cap HasSequences(Lanes(w)) = {}
                         ELSE SeqServed' = SeqServed
  BY <1>1, <1>2, <1>3, <1>4, <1>5 DEF SeqServed
<1>10. IF s = "finish" THEN /\ Finished' = Finished \cup HasSequences(Lanes(w))
                            /\ Finished \cap HasSequences(Lanes(w)) = {}
                       ELSE Finished' = Finished
  BY <1>1, <1>2, <1>3, <1>4, <1>5 DEF Finished
<1> QED BY <1>6, <1>7, <1>8, <1>9, <1>10

\* A part of the invariant that a step does not touch.
LEMMA Kept ==
  ASSUME Whole, NEW w \in Waves, NEW s \in Steps \ {"done"}, Step(w, s)
  PROVE  /\ input' \in Inputs
         /\ UNCHANGED <<slot, hufRefs>> => RefsOK'
         /\ s # "streams" /\ UNCHANGED litStream => StreamsOK'
         /\ s # "bytes" /\ UNCHANGED litRefs /\ counters'.HUF_Streams = counters.HUF_Streams
              /\ counters'.DecodedBytes = counters.DecodedBytes => RangesOK'
         /\ s # "hufLits" /\ UNCHANGED <<hufWIdToHufLitId, hufLitIdToLitStreamId>>
              /\ counters'.HufLit = counters.HufLit
              /\ (\A b \in LitsServed : slot'[b] = slot[b]) => LinksOK'
         /\ s # "sequences" /\ UNCHANGED seqStream
              /\ counters'.Seq_Streams = counters.Seq_Streams
              /\ counters'.DecodedItems = counters.DecodedItems => NumbersOK'
         /\ s # "finish" /\ UNCHANGED <<perSeqStream, seqStreamMinIdx>> => FinishedOK'
<1>1. input' = input /\ pc \in [Waves -> Steps]
  BY DEF Step, Whole, IInv, Shape
<1>2. /\ StreamCount' = StreamCount /\ LiteralSize' = LiteralSize
      /\ SequenceCount' = SequenceCount /\ HufLits(Blocks)' = HufLits(Blocks)
      /\ HasSequences(Blocks)' = HasSequences(Blocks)
  BY <1>1, Fixed
<1>3. /\ s # "streams" => StreamsServed' = StreamsServed
      /\ s # "bytes" => BytesServed' = BytesServed
      /\ s # "hufLits" => LitsServed' = LitsServed
      /\ s # "sequences" => SeqServed' = SeqServed
      /\ s # "finish" => Finished' = Finished
  BY <1>1, ServedNext
<1>4. input' \in Inputs /\ (UNCHANGED <<slot, hufRefs>> => RefsOK')
  BY <1>1 DEF Whole, RefsOK
<1>5. ASSUME s # "streams", UNCHANGED litStream PROVE StreamsOK'
  BY <1>2, <1>3, <1>5 DEF Whole, StreamsOK
<1>6. ASSUME s # "bytes", UNCHANGED litRefs, counters'.HUF_Streams = counters.HUF_Streams,
             counters'.DecodedBytes = counters.DecodedBytes
      PROVE  RangesOK'
  BY <1>2, <1>3, <1>6 DEF Whole, RangesOK
<1>7. ASSUME s # "hufLits", UNCHANGED <<hufWIdToHufLitId, hufLitIdToLitStreamId>>,
             counters'.HufLit = counters.HufLit, \A b \in LitsServed : slot'[b] = slot[b]
      PROVE  LinksOK'
  <2>1. Linked(StreamCount, HufLits(Blocks), LitsServed, counters.HufLit, slot',
               hufWIdToHufLitId, hufLitIdToLitStreamId)
    BY <1>7, LinkedSame DEF Whole, LinksOK
  <2> QED BY <1>2, <1>3, <1>7, <2>1 DEF LinksOK
<1>8. ASSUME s # "sequences", UNCHANGED seqStream, counters'.Seq_Streams = counters.Seq_Streams,
             counters'.DecodedItems = counters.DecodedItems
      PROVE  NumbersOK'
  BY <1>2, <1>3, <1>8 DEF Whole, NumbersOK
<1>9. ASSUME s # "finish", UNCHANGED <<perSeqStream, seqStreamMinIdx>> PROVE FinishedOK'
  BY <1>1, <1>2, <1>3, <1>9 DEF Whole, FinishedOK
<1> QED BY <1>4, <1>5, <1>6, <1>7, <1>8, <1>9

LEMMA WholeInit == Init => Whole
<1> SUFFICES ASSUME Init PROVE Whole
  OBVIOUS
<1>1. IInv /\ input \in Inputs
  BY InitInv DEF Init
<1>2. \A K : /\ Served(pc, K, PastStreams) = {} /\ Served(pc, K, PastBytes) = {}
             /\ Served(pc, K, PastHufLits) = {} /\ Served(pc, K, PastSequences) = {}
             /\ Served(pc, K, {"done"}) = {}
  BY PlacesAre DEF Init, Served
<1>3. /\ StreamsServed = {} /\ BytesServed = {} /\ LitsServed = {} /\ SeqServed = {}
      /\ Finished = {}
  BY <1>2 DEF StreamsServed, BytesServed, LitsServed, SeqServed, Finished
<1>4. counters = [HUF_Streams |-> 0, DecodedBytes |-> 0, FseHufW |-> 0,
                  HUF_WgtStreams |-> 0, HufLit |-> 0, Seq_Streams |-> 0,
                  DecodedItems |-> 0, Fse |-> [t \in FseTypes |-> 1]]
  BY DEF Init
<1>5. FieldsOK
  <2>1. DOMAIN counters = Fields
    BY <1>4 DEF Fields
  <2> QED BY <1>4, <2>1 DEF FieldsOK
<1>6. /\ counters.HUF_Streams = 0 /\ counters.DecodedBytes = 0 /\ counters.HufLit = 0
      /\ counters.Seq_Streams = 0 /\ counters.DecodedItems = 0
  BY <1>4
<1>7. \A v : SumOver(v, {}) = 0
  BY FS_EmptySet, SumUnfolds
<1>8. DOMAIN litRefs = {} /\ DOMAIN hufLitIdToLitStreamId = {} /\ DOMAIN perSeqStream = {}
  BY DEF Init
<1>9. RefsOK /\ StreamsOK
  BY <1>3 DEF Init, RefsOK, StreamsOK
<1>10. RangesOK
  BY <1>3, <1>6, <1>7, <1>8 DEF RangesOK, Placed
<1>11. LinksOK
  <2>1. hufWIdToHufLitId = [s \in Slots |-> None]
    BY DEF Init
  <2> QED BY <1>3, <1>6, <1>8, <2>1, FS_EmptySet DEF LinksOK, Linked, ForSlots
<1>12. NumbersOK
  BY <1>3, <1>6, <1>7, FS_EmptySet DEF Init, NumbersOK
<1>13. FinishedOK
  <2>1. \A K, f : IdsOf(K, {}, input.frameStart, f) = {}
    BY DEF IdsOf
  <2>2. seqStreamMinIdx = [f \in DOMAIN input.frameStart |-> None]
    BY DEF Init, Frames
  <2>3. Started(HasSequences(Blocks), {}, input.frameStart, seqStreamMinIdx)
    BY <2>1, <2>2 DEF Started, FirstOf
  <2>4. Filled(SequenceCount, HasSequences(Blocks), {}, perSeqStream)
    BY <1>8 DEF Filled
  <2> QED BY <1>3, <2>3, <2>4 DEF FinishedOK
<1> QED BY <1>1, <1>5, <1>9, <1>10, <1>11, <1>12, <1>13 DEF Whole

------------------------------------------------------------------------------
\* The steps keep it.

LEMMA WholeAppendLitStreams ==
  ASSUME Whole, NEW w \in Waves, AppendLitStreams(w)
  PROVE  Whole'
<1>1. /\ Step(w, "streams") /\ "streams" \in Steps \ {"done"} /\ pc \in [Waves -> Steps]
      /\ counters' = counters
      /\ UNCHANGED <<slot, hufRefs, litRefs, hufWIdToHufLitId, hufLitIdToLitStreamId,
                     seqStream, perSeqStream, seqStreamMinIdx>>
  BY DEF AppendLitStreams, OrderedStep, sequenceVars, Steps, Whole, IInv, Shape
<1>2. /\ RefsOK' /\ RangesOK' /\ LinksOK' /\ NumbersOK' /\ FinishedOK' /\ input' \in Inputs
  BY <1>1, Kept
<1>3. StreamsOK'
  <2>1. StreamsServed' = StreamsServed \cup Lanes(w) /\ StreamCount' = StreamCount
    BY <1>1, ServedNext, Fixed DEF Step
  <2>2. litStream' = [b \in DOMAIN litStream |->
                        IF b \in Lanes(w) THEN Streams(Before(Blocks, b)) ELSE litStream[b]]
    BY DEF AppendLitStreams, Set
  <2>3. litStream = [b \in Blocks |-> IF b \in StreamsServed THEN Starts(StreamCount, b) ELSE None]
    BY DEF Whole, StreamsOK
  <2>4. \A b \in Blocks : Streams(Before(Blocks, b)) = Starts(StreamCount, b)
    <3>1. \A b \in Blocks : Before(Blocks, b) \in SUBSET Blocks
      BY DEF Before
    <3> QED BY <3>1, StreamsIs DEF Starts
  <2>5. litStream' = [b \in Blocks |-> IF b \in StreamsServed' THEN Starts(StreamCount, b) ELSE None]
    BY <2>1, <2>2, <2>3, <2>4
  <2> QED BY <2>1, <2>5 DEF StreamsOK
<1>4. IInv' /\ FieldsOK'
  BY <1>1, AppendLitStreamsStep DEF Whole, FieldsOK
<1> QED BY <1>2, <1>3, <1>4 DEF Whole

LEMMA WholeAllocLiteralBytes ==
  ASSUME Whole, NEW w \in Waves, AllocLiteralBytes(w)
  PROVE  Whole'
<1> DEFINE H == HasHuffman(Lanes(w))
           n == counters.HUF_Streams
           m == counters.DecodedBytes
           x == n + Streams(H)
           y == m + Bytes(H)
           c1 == [counters EXCEPT !["HUF_Streams"] = x]
           Offs(b) == m + Bytes(Before(H, b))
           new == [s \in UNION {OwnStreams(b) : b \in H} |->
                     LET b == CHOOSE c \in H : s \in OwnStreams(c)
                     IN LiteralRange(b, Offs(b), s)]
           v == StreamCount
           z == LiteralSize
<1>1. /\ Step(w, "bytes") /\ "bytes" \in Steps \ {"done"} /\ pc \in [Waves -> Steps]
      /\ UNCHANGED <<litStream, slot, hufRefs, hufWIdToHufLitId, hufLitIdToLitStreamId,
                     seqStream, perSeqStream, seqStreamMinIdx>>
  BY DEF AllocLiteralBytes, sequenceVars, Steps, Whole, IInv, Shape
<1>2. counters' = [c1 EXCEPT !["DecodedBytes"] = y] /\ litRefs' = Merge(litRefs, new)
  BY DEF AllocLiteralBytes
<1>3. /\ H \in SUBSET Blocks /\ H = HasHuffman(Blocks) \cap Lanes(w)
      /\ BytesServed \in SUBSET Blocks
      /\ BytesServed' = BytesServed \cup H /\ BytesServed \cap H = {}
      /\ v' = v /\ z' = z
  BY <1>1, KindsBlocks, ServedAmong, ServedNext, Fixed DEF Step
<1>4. Fits(v, z) /\ \A b \in BytesServed \cup H : v[b] # 0
  BY <1>3, HeaderValues, ServedAmong DEF Whole
<1>5. /\ FieldsOK' /\ counters'.HUF_Streams = x /\ counters'.DecodedBytes = y
      /\ counters'.HufLit = counters.HufLit /\ counters'.Seq_Streams = counters.Seq_Streams
      /\ counters'.DecodedItems = counters.DecodedItems
  <2> HIDE DEF x, y
  <2>1. DOMAIN counters = Fields /\ counters = [c \in Fields |-> counters[c]]
    BY DEF Whole, FieldsOK
  <2>2. "HUF_Streams" \in Fields /\ "DecodedBytes" \in Fields
    BY DEF Fields
  <2>3. /\ DOMAIN c1 = Fields /\ c1 = [c \in Fields |-> c1[c]] /\ c1["HUF_Streams"] = x
        /\ \A c \in Fields : c # "HUF_Streams" => c1[c] = counters[c]
    BY <2>1, <2>2, FieldSet
  <2> HIDE DEF c1
  <2>4. /\ DOMAIN counters' = Fields /\ counters' = [c \in Fields |-> counters'[c]]
        /\ counters'["DecodedBytes"] = y
        /\ \A c \in Fields : c # "DecodedBytes" => counters'[c] = c1[c]
    BY <1>2, <2>2, <2>3, FieldSet
  <2> QED BY <2>3, <2>4 DEF FieldsOK, Fields
<1>6. RefsOK' /\ StreamsOK' /\ LinksOK' /\ NumbersOK' /\ FinishedOK' /\ input' \in Inputs
  BY <1>1, <1>5, Kept
<1>7. RangesOK'
  <2>1. Placed(v, z, BytesServed, n, m, litRefs)
    BY DEF Whole, RangesOK
  <2>2. ASSUME NEW b \in H
        PROVE  /\ litStream[b] = Starts(v, b) /\ OwnStreams(b) = Own(v, b)
               /\ Offs(b) = m + SumOver(z, Before(H, b))
    <3>1. b \in StreamsServed /\ b \in Blocks
      BY <1>1, <1>3, ServedAmong, PlacesAre DEF Step
    <3>2. litStream[b] = Starts(v, b)
      BY <3>1 DEF Whole, StreamsOK
    <3>3. Before(H, b) \in SUBSET Blocks
      BY <1>3 DEF Before
    <3> QED BY <3>1, <3>2, <3>3, BytesIs DEF OwnStreams, Own, StreamCount
  <2> HIDE DEF Offs
  <2>3. DOMAIN new = UNION {Own(v, b) : b \in H}
    BY <2>2
  <2>4. ASSUME NEW b \in H, NEW i \in 0 .. v[b] - 1
        PROVE  new[Starts(v, b) + i] = RangeAt(v, z, b, m + SumOver(z, Before(H, b)), i)
    <3> DEFINE s == Starts(v, b) + i
               c == CHOOSE c \in H : s \in OwnStreams(c)
    <3>1. Starts(v, b) \in Nat /\ v[b] \in Nat /\ b \in Blocks /\ v \in [Blocks -> Nat]
      BY <1>3, <1>4, PrefixSums DEF Fits, Starts
    <3>2. s \in Own(v, b) /\ s \in OwnStreams(b)
      BY <2>2, <3>1 DEF Own
    <3>3. c \in H /\ s \in OwnStreams(c)
      BY <3>2
    <3> HIDE DEF c
    <3>4. c = b
      BY <1>3, <2>2, <3>1, <3>2, <3>3, OwnApart
    <3>5. new[s] = LiteralRange(c, Offs(c), s)
      BY <3>2 DEF c
    <3>6. s - litStream[b] = i
      BY <2>2, <3>1
    <3> HIDE DEF s
    <3>7. LiteralRange(b, Offs(b), s) = RangeAt(v, z, b, Offs(b), i)
      BY <3>1, <3>6 DEF LiteralRange, RangeAt, StreamCount, LiteralSize
    <3> QED BY <2>2, <3>4, <3>5, <3>7 DEF s
  <2> HIDE DEF new, n, m
  <2>5. Streams(H) = SumOver(v, H) /\ Bytes(H) = SumOver(z, H)
    BY <1>3, StreamsIs, BytesIs
  <2> HIDE DEF H, v, z
  <2>6. Placed(v, z, BytesServed \cup H, n + SumOver(v, H), m + SumOver(z, H), Merge(litRefs, new))
    BY <1>3, <1>4, <2>1, <2>3, <2>4, PlacedGrows
  <2>7. Placed(v', z', BytesServed', counters'.HUF_Streams, counters'.DecodedBytes, litRefs')
    BY <1>2, <1>3, <1>5, <2>5, <2>6
  <2> QED BY <2>7 DEF RangesOK, v, z
<1> QED BY <1>5, <1>6, <1>7, AllocLiteralBytesStep DEF Whole

\* Both kinds of weights: a wave moves the slots of lanes whose literals it has
\* not numbered yet.
LEMMA WeightsMoved ==
  ASSUME Whole, NEW w \in Waves, NEW s \in {"fseTrees", "rawTrees"}, Step(w, s),
         NEW T \in SUBSET Lanes(w), NEW Of(_), StoreWeights(T, Of),
         NEW k \in {"FseHufW", "HUF_WgtStreams"}, NEW x, counters' = [counters EXCEPT ![k] = x],
         IInv'
  PROVE  Whole'
<1>1. s \in Steps \ {"done"} /\ pc \in [Waves -> Steps] /\ pc[w] = s
  BY DEF Steps, Whole, IInv, Shape, Step
<1>2. /\ UNCHANGED <<litStream, litRefs, hufWIdToHufLitId, hufLitIdToLitStreamId,
                     seqStream, perSeqStream, seqStreamMinIdx>>
      /\ slot' = [b \in DOMAIN slot |-> IF b \in T THEN Of(b) ELSE slot[b]]
      /\ hufRefs' = [r \in Slots |-> IF \E b \in T : Of(b) = r
                                       THEN CHOOSE b \in T : Of(b) = r ELSE hufRefs[r]]
  BY DEF StoreWeights, Set, sequenceVars
<1>3. FieldsOK' /\ \A c \in Fields : c # k => counters'[c] = counters[c]
  <2>1. DOMAIN counters = Fields /\ counters = [c \in Fields |-> counters[c]] /\ k \in Fields
    BY DEF Whole, FieldsOK, Fields
  <2> QED BY <2>1, FieldSet DEF FieldsOK
<1>4. /\ counters'.HUF_Streams = counters.HUF_Streams
      /\ counters'.DecodedBytes = counters.DecodedBytes
      /\ counters'.HufLit = counters.HufLit /\ counters'.Seq_Streams = counters.Seq_Streams
      /\ counters'.DecodedItems = counters.DecodedItems
  BY <1>3 DEF Fields
<1>5. ASSUME NEW b \in LitsServed PROVE slot'[b] = slot[b]
  <2>1. b \in Blocks /\ \E u \in Waves : b \in Lanes(u) /\ pc[u] \in PastHufLits
    BY KindsBlocks DEF LitsServed, Served
  <2>2. b \notin Lanes(w)
    BY <1>1, <2>1, PlacesAre DEF Lanes
  <2> QED BY <1>2, <2>1, <2>2 DEF Whole, IInv, Shape
<1>6. RefsOK'
  <2>1. \A r \in Slots : hufRefs'[r] \in Blocks \cup {None}
    <3>1. SUFFICES ASSUME NEW r \in Slots PROVE hufRefs'[r] \in Blocks \cup {None}
      OBVIOUS
    <3>2. CASE \E b \in T : Of(b) = r
      <4>1. hufRefs'[r] \in T
        BY <1>2, <3>2
      <4> QED BY <4>1 DEF Lanes
    <3>3. CASE ~ \E b \in T : Of(b) = r
      BY <1>2, <3>3 DEF Whole, RefsOK
    <3> QED BY <3>2, <3>3
  <2>2. slot' = [b \in Blocks |-> IF b \in T THEN Of(b) ELSE slot[b]]
    BY <1>2 DEF Whole, IInv, Shape
  <2>3. slot' = [b \in Blocks |-> slot'[b]]
    BY <2>2
  <2> QED BY <1>2, <2>1, <2>3 DEF RefsOK
<1>7. StreamsOK' /\ RangesOK' /\ LinksOK' /\ NumbersOK' /\ FinishedOK' /\ input' \in Inputs
  BY <1>1, <1>2, <1>4, <1>5, Kept
<1> QED BY <1>3, <1>6, <1>7 DEF Whole

LEMMA WholeAllocFseTrees ==
  ASSUME Whole, NEW w \in Waves, AllocFseTrees(w)
  PROVE  Whole'
<1> DEFINE T == HasFseTree(Lanes(w))
           x == counters.FseHufW + Cardinality(T)
           Of(b) == counters.FseHufW + Cardinality(Before(T, b))
<1>1. Step(w, "fseTrees") /\ counters' = [counters EXCEPT !["FseHufW"] = x]
  BY DEF AllocFseTrees
<1>2. StoreWeights(T, Of)
  BY DEF AllocFseTrees
<1>3. T \in SUBSET Lanes(w)
  BY DEF HasFseTree
<1>4. IInv'
  BY AllocFseTreesStep DEF Whole
<1> HIDE DEF T, x, Of
<1> QED BY <1>1, <1>2, <1>3, <1>4, WeightsMoved

LEMMA WholeAllocRawTrees ==
  ASSUME Whole, NEW w \in Waves, AllocRawTrees(w)
  PROVE  Whole'
<1> DEFINE T == HasRawTree(Lanes(w))
           x == counters.HUF_WgtStreams + Cardinality(T)
           Of(b) == RawTreeSlot(counters.HUF_WgtStreams + Cardinality(Before(T, b)))
<1>1. Step(w, "rawTrees") /\ counters' = [counters EXCEPT !["HUF_WgtStreams"] = x]
  BY DEF AllocRawTrees
<1>2. StoreWeights(T, Of)
  BY DEF AllocRawTrees
<1>3. T \in SUBSET Lanes(w)
  BY DEF HasRawTree
<1>4. IInv'
  BY AllocRawTreesStep DEF Whole
<1> HIDE DEF T, x, Of
<1> QED BY <1>1, <1>2, <1>3, <1>4, WeightsMoved

LEMMA WholeAppendHufLits ==
  ASSUME Whole, NEW w \in Waves, AppendHufLits(w)
  PROVE  Whole'
<1> DEFINE K == HufLits(Blocks)
           T == HufLits(Lanes(w))
           n == counters.HufLit
           Id(b) == HufLitId(w, b)
           new == [id \in {Id(b) : b \in T} |-> litStream[CHOOSE b \in T : Id(b) = id]]
           v == StreamCount
<1>1. /\ Step(w, "hufLits") /\ "hufLits" \in Steps \ {"done"} /\ pc \in [Waves -> Steps]
      /\ pc[w] = "hufLits"
      /\ UNCHANGED <<litStream, slot, hufRefs, litRefs, seqStream, perSeqStream,
                     seqStreamMinIdx>>
  BY DEF AppendHufLits, OrderedStep, sequenceVars, Steps, Whole, IInv, Shape, Step
<1>2. /\ counters' = [counters EXCEPT !["HufLit"] = n + Cardinality(T)]
      /\ hufWIdToHufLitId' = [s \in Slots |-> IF \E b \in T : slot[b] = s
                                                THEN Id(CHOOSE b \in T : slot[b] = s)
                                                ELSE hufWIdToHufLitId[s]]
      /\ hufLitIdToLitStreamId' = Merge(hufLitIdToLitStreamId, new)
  BY DEF AppendHufLits
<1>3. /\ K \in SUBSET Blocks /\ T \in SUBSET K /\ T = K \cap Lanes(w)
      /\ LitsServed \in SUBSET K
      /\ LitsServed' = LitsServed \cup T /\ LitsServed \cap T = {}
      /\ v' = v /\ K' = K
  BY <1>1, KindsBlocks, ServedAmong, ServedNext, Fixed DEF Step
<1>4. \A b \in T : Id(b) = IdIn(K, b)
  BY DEF HufLitId, IdIn
<1>5. /\ FieldsOK' /\ counters'.HufLit = n + Cardinality(T)
      /\ counters'.HUF_Streams = counters.HUF_Streams
      /\ counters'.DecodedBytes = counters.DecodedBytes
      /\ counters'.Seq_Streams = counters.Seq_Streams
      /\ counters'.DecodedItems = counters.DecodedItems
  <2> HIDE DEF n, T
  <2>1. DOMAIN counters = Fields /\ counters = [c \in Fields |-> counters[c]]
    BY DEF Whole, FieldsOK
  <2>2. "HufLit" \in Fields
    BY DEF Fields
  <2>3. /\ DOMAIN counters' = Fields /\ counters' = [c \in Fields |-> counters'[c]]
        /\ counters'["HufLit"] = n + Cardinality(T)
        /\ \A c \in Fields : c # "HufLit" => counters'[c] = counters[c]
    BY <1>2, <2>1, <2>2, FieldSet
  <2> QED BY <2>3 DEF FieldsOK, Fields
<1>6. RefsOK' /\ StreamsOK' /\ RangesOK' /\ NumbersOK' /\ FinishedOK' /\ input' \in Inputs
  BY <1>1, <1>5, Kept
<1>7. LinksOK'
  <2>1. Linked(v, K, LitsServed, n, slot, hufWIdToHufLitId, hufLitIdToLitStreamId)
    BY DEF Whole, LinksOK
  <2>2. Apiece(LitsServed \cup T, slot)
    <3>1. LitsServed \cup T \subseteq FseServed \cup RawServed
      BY <1>1, <1>3, ServedAmong
    <3>2. Apiece(FseServed \cup RawServed, slot)
      BY SlotsApart DEF Whole
    <3> QED BY <3>1, <3>2 DEF Apiece
  <2>3. ASSUME NEW b \in T PROVE litStream[b] = Starts(v, b)
    <3>1. b \in StreamsServed /\ b \in Blocks
      BY <1>1, <1>3, ServedAmong, PlacesAre
    <3> QED BY <3>1 DEF Whole, StreamsOK
  <2> HIDE DEF Id, T, K, v, n
  <2>4. hufWIdToHufLitId' = [s \in Slots |-> hufWIdToHufLitId'[s]]
    BY <1>2
  <2>5. ASSUME NEW s \in Slots
        PROVE  IF \E b \in T : slot[b] = s
                 THEN \E b \in T : slot[b] = s /\ hufWIdToHufLitId'[s] = IdIn(K, b)
                 ELSE hufWIdToHufLitId'[s] = hufWIdToHufLitId[s]
    <3>1. CASE \E b \in T : slot[b] = s
      <4> DEFINE c == CHOOSE b \in T : slot[b] = s
      <4>1. c \in T /\ slot[c] = s
        BY <3>1
      <4>2. hufWIdToHufLitId'[s] = Id(c)
        BY <1>2, <3>1
      <4> QED BY <1>4, <3>1, <4>1, <4>2
    <3>2. CASE ~ \E b \in T : slot[b] = s
      BY <1>2, <3>2
    <3> QED BY <3>1, <3>2
  <2>6. DOMAIN new = {IdIn(K, b) : b \in T}
    BY <1>4
  <2>7. ASSUME NEW b \in T PROVE new[IdIn(K, b)] = Starts(v, b)
    <3> DEFINE c == CHOOSE c \in T : Id(c) = Id(b)
    <3>1. c \in T /\ Id(c) = Id(b)
      OBVIOUS
    <3>2. new[Id(b)] = litStream[c]
      OBVIOUS
    <3> HIDE DEF c, new
    <3>3. c = b
      BY <1>3, <1>4, <3>1, IdsAre
    <3> QED BY <1>4, <2>3, <3>2, <3>3
  <2> HIDE DEF new
  <2> DEFINE ids2 == hufWIdToHufLitId'
  <2>8. /\ ForSlots(ids2)
        /\ \A s \in Slots : IF \E b \in T : slot[b] = s
                              THEN \E b \in T : slot[b] = s /\ ids2[s] = IdIn(K, b)
                              ELSE ids2[s] = hufWIdToHufLitId[s]
    BY <2>4, <2>5 DEF ForSlots
  <2> HIDE DEF ids2
  <2>9. Linked(v, K, LitsServed \cup T, n + Cardinality(T), slot, ids2,
               Merge(hufLitIdToLitStreamId, new))
    BY <1>3, <2>1, <2>2, <2>6, <2>7, <2>8, LinkedGrows
  <2>10. Linked(v', K', LitsServed', counters'.HufLit, slot', hufWIdToHufLitId',
                hufLitIdToLitStreamId')
    BY <1>1, <1>2, <1>3, <1>5, <2>9 DEF ids2
  <2> QED BY <2>10 DEF LinksOK, v, K
<1> QED BY <1>5, <1>6, <1>7, AppendHufLitsStep DEF Whole

LEMMA WholeAppendSequences ==
  ASSUME Whole, NEW w \in Waves, AppendSequences(w)
  PROVE  Whole'
<1> DEFINE K == HasSequences(Blocks)
           T == HasSequences(Lanes(w))
           u == SequenceCount
           x == counters.Seq_Streams + Cardinality(T)
           y == counters.DecodedItems + Sequences(T)
           c1 == [counters EXCEPT !["Seq_Streams"] = x]
<1>1. /\ Step(w, "sequences") /\ "sequences" \in Steps \ {"done"} /\ pc \in [Waves -> Steps]
      /\ UNCHANGED <<litStream, slot, hufRefs, litRefs, hufWIdToHufLitId,
                     hufLitIdToLitStreamId, perSeqStream, seqStreamMinIdx>>
  BY DEF AppendSequences, OrderedStep, literalVars, Steps, Whole, IInv, Shape
<1>2. /\ counters' = [c1 EXCEPT !["DecodedItems"] = y]
      /\ seqStream' = [b \in DOMAIN seqStream |->
                         IF b \in T THEN IdIn(K, b) ELSE seqStream[b]]
  BY DEF AppendSequences, Set, IdIn
<1>3. /\ K \in SUBSET Blocks /\ T \in SUBSET Blocks /\ SeqServed \in SUBSET Blocks
      /\ SeqServed' = SeqServed \cup T /\ SeqServed \cap T = {} /\ T \cap SeqServed = {}
      /\ u' = u /\ K' = K
  BY <1>1, KindsBlocks, ServedAmong, ServedNext, Fixed DEF Step
<1>4. /\ FieldsOK' /\ counters'.Seq_Streams = x /\ counters'.DecodedItems = y
      /\ counters'.HUF_Streams = counters.HUF_Streams
      /\ counters'.DecodedBytes = counters.DecodedBytes /\ counters'.HufLit = counters.HufLit
  <2> HIDE DEF x, y
  <2>1. DOMAIN counters = Fields /\ counters = [c \in Fields |-> counters[c]]
    BY DEF Whole, FieldsOK
  <2>2. "Seq_Streams" \in Fields /\ "DecodedItems" \in Fields
    BY DEF Fields
  <2>3. /\ DOMAIN c1 = Fields /\ c1 = [c \in Fields |-> c1[c]] /\ c1["Seq_Streams"] = x
        /\ \A c \in Fields : c # "Seq_Streams" => c1[c] = counters[c]
    BY <2>1, <2>2, FieldSet
  <2> HIDE DEF c1
  <2>4. /\ DOMAIN counters' = Fields /\ counters' = [c \in Fields |-> counters'[c]]
        /\ counters'["DecodedItems"] = y
        /\ \A c \in Fields : c # "DecodedItems" => counters'[c] = c1[c]
    BY <1>2, <2>2, <2>3, FieldSet
  <2> QED BY <2>3, <2>4 DEF FieldsOK, Fields
<1>5. RefsOK' /\ StreamsOK' /\ RangesOK' /\ LinksOK' /\ FinishedOK' /\ input' \in Inputs
  BY <1>1, <1>4, Kept
<1>6. NumbersOK'
  <2>1. Cardinality(SeqServed \cup T) = x
    BY <1>3, IdsFinite DEF Whole, NumbersOK
  <2>2. SumOver(u, SeqServed \cup T) = y
    <3>1. u \in [Blocks -> Nat] /\ Sequences(T) = SumOver(u, T)
      BY <1>3, HeaderValues, SequencesIs DEF Whole
    <3> HIDE DEF u, T
    <3>2. SumOver(u, SeqServed \cup T) = SumOver(u, SeqServed) + SumOver(u, T)
      BY <1>3, <3>1, BlockSums
    <3>3. counters.DecodedItems = SumOver(u, SeqServed)
      BY DEF Whole, NumbersOK, u
    <3> QED BY <3>1, <3>2, <3>3
  <2>3. seqStream' = [b \in Blocks |-> IF b \in SeqServed' THEN IdIn(K, b) ELSE None]
    BY <1>2, <1>3 DEF Whole, NumbersOK
  <2> HIDE DEF x, y
  <2> QED BY <1>3, <1>4, <2>1, <2>2, <2>3 DEF NumbersOK
<1> QED BY <1>4, <1>5, <1>6, AppendSequencesStep DEF Whole

LEMMA WholeAllocFseTables ==
  ASSUME Whole, NEW w \in Waves, NEW t \in FseTypes, AllocFseTables(w, t)
  PROVE  Whole'
<1> DEFINE x == [counters["Fse"] EXCEPT ![t] = counters.Fse[t] + Cardinality(NewTables(Lanes(w), t))]
<1>1. /\ Step(w, t) /\ t \in Steps \ {"done"}
      /\ t \notin {"streams", "bytes", "hufLits", "sequences", "finish"}
      /\ UNCHANGED <<litStream, slot, hufRefs, litRefs, hufWIdToHufLitId,
                     hufLitIdToLitStreamId, seqStream, perSeqStream, seqStreamMinIdx>>
  BY DEF AllocFseTables, literalVars, Steps, FseTypes
<1>2. counters' = [counters EXCEPT !["Fse"] = x]
  BY DEF AllocFseTables
<1> HIDE DEF x
<1>3. FieldsOK' /\ \A c \in Fields : c # "Fse" => counters'[c] = counters[c]
  <2>1. DOMAIN counters = Fields /\ counters = [c \in Fields |-> counters[c]] /\ "Fse" \in Fields
    BY DEF Whole, FieldsOK, Fields
  <2> QED BY <1>2, <2>1, FieldSet DEF FieldsOK
<1>4. /\ counters'.HUF_Streams = counters.HUF_Streams
      /\ counters'.DecodedBytes = counters.DecodedBytes
      /\ counters'.HufLit = counters.HufLit /\ counters'.Seq_Streams = counters.Seq_Streams
      /\ counters'.DecodedItems = counters.DecodedItems
  BY <1>3 DEF Fields
<1>5. /\ RefsOK' /\ StreamsOK' /\ RangesOK' /\ LinksOK' /\ NumbersOK' /\ FinishedOK'
      /\ input' \in Inputs
  BY <1>1, <1>4, Kept
<1> QED BY <1>3, <1>5, AllocFseTablesStep DEF Whole

LEMMA WholeFinishSequences ==
  ASSUME Whole, NEW w \in Waves, FinishSequences(w)
  PROVE  Whole'
<1> DEFINE K == HasSequences(Blocks)
           T == HasSequences(Lanes(w))
           u == SequenceCount
           start == input.frameStart
           new == [s \in {seqStream[b] : b \in T} |->
                     LET b == CHOOSE c \in T : seqStream[c] = s
                     IN [start |-> Sequences(Before(Blocks, b)), block |-> b,
                         fseIds |-> fseIndex[b]]]
           Candidates(f) == {seqStream[b] : b \in {c \in T : FrameOf(c) = f}}
                              \cup ({seqStreamMinIdx[f]} \ {None})
<1>1. /\ Step(w, "finish") /\ "finish" \in Steps \ {"done"} /\ pc \in [Waves -> Steps]
      /\ pc[w] = "finish" /\ counters' = counters /\ input' = input
      /\ UNCHANGED <<litStream, slot, hufRefs, litRefs, hufWIdToHufLitId,
                     hufLitIdToLitStreamId, seqStream>>
  BY DEF FinishSequences, literalVars, Steps, Whole, IInv, Shape, Step
<1>2. /\ perSeqStream' = Merge(perSeqStream, new)
      /\ seqStreamMinIdx' = [f \in DOMAIN start |-> FirstOf(Candidates(f))]
  BY DEF FinishSequences, Frames, FirstOf
<1>3. /\ K \in SUBSET Blocks /\ T \in SUBSET K /\ Finished \in SUBSET K
      /\ Finished' = Finished \cup T /\ Finished \cap T = {}
      /\ u' = u /\ K' = K
  BY <1>1, KindsBlocks, ServedAmong, ServedNext, Fixed
<1>4. ASSUME NEW b \in T PROVE seqStream[b] = IdIn(K, b) /\ b \in Blocks
  <2>1. b \in SeqServed /\ b \in Blocks
    BY <1>1, <1>3, ServedAmong, PlacesAre
  <2> QED BY <2>1 DEF Whole, NumbersOK
<1>5. /\ RefsOK' /\ StreamsOK' /\ RangesOK' /\ LinksOK' /\ NumbersOK' /\ FieldsOK'
      /\ input' \in Inputs
  BY <1>1, Kept DEF Whole, FieldsOK
<1>6. Filled(u, K, T, new)
  <2>1. DOMAIN new = {IdIn(K, b) : b \in T}
    BY <1>4
  <2>2. ASSUME NEW b \in T
        PROVE  new[IdIn(K, b)].block = b /\ new[IdIn(K, b)].start = Starts(u, b)
    <3> DEFINE c == CHOOSE c \in T : seqStream[c] = seqStream[b]
    <3>1. c \in T /\ seqStream[c] = seqStream[b]
      OBVIOUS
    <3>2. new[seqStream[b]] = [start |-> Sequences(Before(Blocks, c)), block |-> c,
                               fseIds |-> fseIndex[c]]
      OBVIOUS
    <3> HIDE DEF c, new
    <3>3. c = b
      BY <1>3, <1>4, <3>1, IdsAre
    <3>4. Sequences(Before(Blocks, b)) = Starts(u, b)
      <4>1. Before(Blocks, b) \in SUBSET Blocks
        BY DEF Before
      <4> QED BY <4>1, SequencesIs DEF Starts
    <3> QED BY <1>4, <3>2, <3>3, <3>4
  <2> QED BY <2>1, <2>2 DEF Filled
<1>7. seqStreamMinIdx' = [f \in DOMAIN start |->
                            FirstOf(IdsOf(K, T, start, f) \cup ({seqStreamMinIdx[f]} \ {None}))]
  <2>1. ASSUME NEW f PROVE {seqStream[b] : b \in {c \in T : FrameOf(c) = f}} = IdsOf(K, T, start, f)
    <3>1. \A c : FrameOf(c) = Frame(start, c)
      BY DEF FrameOf, Frame, Frames
    <3> QED BY <1>4, <3>1 DEF IdsOf
  <2> QED BY <1>2, <2>1
<1>8. FinishedOK'
  <2>1. Filled(u, K, Finished, perSeqStream) /\ Started(K, Finished, start, seqStreamMinIdx)
    BY DEF Whole, FinishedOK
  <2> DEFINE idx == seqStreamMinIdx'
  <2>2. idx = [f \in DOMAIN start |->
                 FirstOf(IdsOf(K, T, start, f) \cup ({seqStreamMinIdx[f]} \ {None}))]
    BY <1>7
  <2> HIDE DEF new, u, K, T, start, idx
  <2>3. Filled(u, K, Finished \cup T, Merge(perSeqStream, new))
    BY <1>3, <1>6, <2>1, FilledGrows
  <2>4. Started(K, Finished \cup T, start, idx)
    BY <1>3, <2>1, <2>2, StartedGrows
  <2>5. Filled(u', K', Finished', perSeqStream')
    BY <1>2, <1>3, <2>3
  <2>6. Started(K', Finished', input'.frameStart, seqStreamMinIdx')
    BY <1>1, <1>3, <2>4 DEF idx, start
  <2> QED BY <2>5, <2>6 DEF FinishedOK, u, K
<1> QED BY <1>1, <1>5, <1>8, FinishSequencesStep DEF Whole

LEMMA WholeNext == Whole /\ [Next]_vars => Whole'
<1> SUFFICES ASSUME Whole, [Next]_vars PROVE Whole'
  OBVIOUS
<1>1. ASSUME NEW w \in Waves, AppendLitStreams(w) PROVE Whole'
  BY <1>1, WholeAppendLitStreams
<1>2. ASSUME NEW w \in Waves, AllocLiteralBytes(w) PROVE Whole'
  BY <1>2, WholeAllocLiteralBytes
<1>3. ASSUME NEW w \in Waves, AllocFseTrees(w) PROVE Whole'
  BY <1>3, WholeAllocFseTrees
<1>4. ASSUME NEW w \in Waves, AllocRawTrees(w) PROVE Whole'
  BY <1>4, WholeAllocRawTrees
<1>5. ASSUME NEW w \in Waves, AppendHufLits(w) PROVE Whole'
  BY <1>5, WholeAppendHufLits
<1>6. ASSUME NEW w \in Waves, AppendSequences(w) PROVE Whole'
  BY <1>6, WholeAppendSequences
<1>7. ASSUME NEW w \in Waves, NEW t \in FseTypes, AllocFseTables(w, t) PROVE Whole'
  BY <1>7, WholeAllocFseTables
<1>8. ASSUME NEW w \in Waves, FinishSequences(w) PROVE Whole'
  BY <1>8, WholeFinishSequences
<1>9. CASE UNCHANGED vars
  <2>1. /\ UNCHANGED <<input, pc, counters, slot, hufRefs, fseIndex, litStream, litRefs,
                       hufWIdToHufLitId, hufLitIdToLitStreamId, seqStream, perSeqStream,
                       seqStreamMinIdx>>
    BY <1>9 DEF vars, literalVars, sequenceVars
  <2>2. IInv'
    BY <1>9, NextInv DEF Whole
  <2>3. /\ StreamCount' = StreamCount /\ LiteralSize' = LiteralSize
        /\ SequenceCount' = SequenceCount /\ HasHuffman(Blocks)' = HasHuffman(Blocks)
        /\ HufLits(Blocks)' = HufLits(Blocks) /\ HasSequences(Blocks)' = HasSequences(Blocks)
    BY <2>1, Fixed
  <2>4. /\ StreamsServed' = StreamsServed /\ BytesServed' = BytesServed
        /\ LitsServed' = LitsServed /\ SeqServed' = SeqServed /\ Finished' = Finished
    BY <2>1, <2>3 DEF StreamsServed, BytesServed, LitsServed, SeqServed, Finished
  <2>5. FieldsOK' /\ RefsOK' /\ input' \in Inputs
    BY <2>1 DEF Whole, FieldsOK, RefsOK
  <2>6. StreamsOK' /\ RangesOK'
    BY <2>1, <2>3, <2>4 DEF Whole, StreamsOK, RangesOK
  <2>7. LinksOK'
    BY <2>1, <2>3, <2>4 DEF Whole, LinksOK
  <2>8. NumbersOK' /\ FinishedOK'
    BY <2>1, <2>3, <2>4 DEF Whole, NumbersOK, FinishedOK
  <2> QED BY <2>2, <2>5, <2>6, <2>7, <2>8 DEF Whole
<1> QED BY <1>1, <1>2, <1>3, <1>4, <1>5, <1>6, <1>7, <1>8, <1>9 DEF Next

\* Whatever the interleaving, the counters, the ranges and the indices of every
\* wave are those of the blocks served so far.
THEOREM WholeInvariant == Safety => []Whole
<1>1. Init => Whole
  BY WholeInit
<1>2. Whole /\ [Next]_vars => Whole'
  BY WholeNext
<1> QED BY <1>1, <1>2, PTL DEF Safety

------------------------------------------------------------------------------
\* What it means at the end.

\* Every block has a wave, so that at the end all have been served.
LEMMA AllServed ==
  ASSUME Done
  PROVE  /\ StreamsServed = Blocks /\ BytesServed = HasHuffman(Blocks)
         /\ LitsServed = HufLits(Blocks) /\ SeqServed = HasSequences(Blocks)
         /\ Finished = HasSequences(Blocks)
<1>1. ASSUME NEW b \in Blocks PROVE \E w \in Waves : b \in Lanes(w)
  <2> DEFINE k == b \div WaveSize
  <2>1. b \in Nat /\ b < NumBlocks /\ NumBlocks \in Nat /\ WaveSize \in Nat \ {0}
    BY ParametersAssumption DEF Blocks
  <2>2. k \in Nat /\ k * WaveSize <= b
    BY <2>1, Quotient
  <2>3. k * WaveSize \in Nat
    BY <2>1, <2>2, Multiples
  <2> HIDE DEF k
  <2>4. k * WaveSize < NumBlocks
    BY <2>1, <2>2, <2>3
  <2>5. TgCount(NumBlocks, WaveSize) \in Nat /\ k < TgCount(NumBlocks, WaveSize)
    BY <2>1, <2>2, <2>4, GroupsNeeded
  <2>6. k \in Waves
    BY <2>2, <2>5 DEF Waves
  <2> QED BY <2>6 DEF Lanes, k
<1>2. ASSUME NEW K \in SUBSET Blocks, NEW A, "done" \in A PROVE Served(pc, K, A) = K
  BY <1>1, <1>2 DEF Served, Done
<1> QED BY <1>2, KindsBlocks, PlacesAre DEF StreamsServed, BytesServed, LitsServed, SeqServed, Finished

LEMMA TypesRight == Whole => TypeOK
<1> SUFFICES ASSUME Whole PROVE TypeOK
  OBVIOUS
<1>1. input.blocks \in [Blocks -> Header]
  BY HeadersAssumption DEF Whole
<1>2. pc \in [Waves -> {Order[i] : i \in DOMAIN Order}]
  <2>1. DOMAIN Order = 1 .. 11
    BY DEF Order
  <2>2. Steps \subseteq {Order[i] : i \in DOMAIN Order}
    <3>1. /\ Order[1] = "streams" /\ Order[2] = "bytes" /\ Order[3] = "fseTrees"
          /\ Order[4] = "rawTrees" /\ Order[5] = "hufLits" /\ Order[6] = "sequences"
          /\ Order[7] = "LLen" /\ Order[8] = "Offs" /\ Order[9] = "MLen"
          /\ Order[10] = "finish" /\ Order[11] = "done"
      BY DEF Order
    <3> HIDE DEF Order
    <3>2. SUFFICES ASSUME NEW s \in Steps PROVE \E i \in 1 .. 11 : Order[i] = s
      BY <2>1
    <3> QED BY <3>1 DEF Steps
  <2> QED BY <2>2 DEF Whole, IInv, Shape
<1>3. /\ StreamCount \in [Blocks -> Nat] /\ LiteralSize \in [Blocks -> Nat]
      /\ SequenceCount \in [Blocks -> Nat]
  BY HeaderValues DEF Whole, Fits
<1>4. /\ BytesServed \in SUBSET Blocks /\ LitsServed \in SUBSET Blocks
      /\ SeqServed \in SUBSET Blocks /\ FseServed \in SUBSET Blocks /\ RawServed \in SUBSET Blocks
  BY ServedAmong, KindsBlocks, ServedBlocks
<1>5. /\ counters.HUF_Streams \in Nat /\ counters.DecodedBytes \in Nat
      /\ counters.DecodedItems \in Nat
  BY <1>3, <1>4, BlockSums DEF Whole, RangesOK, Placed, NumbersOK
<1>6. counters.FseHufW \in Nat /\ counters.HUF_WgtStreams \in Nat
  BY <1>4, BlocksFinite DEF Whole, IInv, SlotsOK, Handed
<1>7. counters.HufLit \in Nat /\ counters.Seq_Streams \in Nat
  BY <1>4, BlocksFinite DEF Whole, LinksOK, Linked, NumbersOK
<1>8. \A c \in DOMAIN counters \ {"Fse"} : counters[c] \in Nat
  BY <1>5, <1>6, <1>7 DEF Whole, FieldsOK, Fields
<1>9. litStream \in [Blocks -> Nat \cup {None}]
  <2>1. \A b \in Blocks : Starts(StreamCount, b) \in Nat
    BY <1>3, PrefixSums DEF Starts
  <2> QED BY <2>1 DEF Whole, StreamsOK
<1>10. slot \in [Blocks -> Slots \cup {None}]
  <2>1. \A b \in Blocks : slot[b] \in Slots \cup {None}
    BY SlotsInside DEF Whole, Slots
  <2>2. slot = [b \in Blocks |-> slot[b]]
    BY DEF Whole, RefsOK
  <2> QED BY <2>1, <2>2
<1>11. hufRefs \in [Slots -> Blocks \cup {None}]
  BY DEF Whole, RefsOK
<1>12. hufWIdToHufLitId \in [Slots -> Nat \cup {None}]
  <2>1. ASSUME NEW s \in Slots PROVE hufWIdToHufLitId[s] \in Nat \cup {None}
    <3>1. CASE \E b \in LitsServed : slot[b] = s
      <4>1. PICK b \in LitsServed : slot[b] = s
        BY <3>1
      <4>2. hufWIdToHufLitId[s] = IdIn(HufLits(Blocks), b)
        BY <4>1 DEF Whole, LinksOK, Linked
      <4>3. b \in HufLits(Blocks) /\ HufLits(Blocks) \in SUBSET Blocks
        BY KindsBlocks, ServedAmong
      <4> QED BY <4>2, <4>3, IdsAre
    <3>2. CASE ~ \E b \in LitsServed : slot[b] = s
      BY <3>2 DEF Whole, LinksOK, Linked
    <3> QED BY <3>1, <3>2
  <2>2. hufWIdToHufLitId = [s \in Slots |-> hufWIdToHufLitId[s]]
    BY DEF Whole, LinksOK, Linked, ForSlots
  <2> QED BY <2>1, <2>2
<1>13. seqStream \in [Blocks -> Nat \cup {None}]
  <2>1. \A b \in SeqServed : IdIn(HasSequences(Blocks), b) \in Nat
    BY KindsBlocks, ServedAmong, IdsAre
  <2> QED BY <2>1 DEF Whole, NumbersOK
<1>14. seqStreamMinIdx \in [Frames -> Nat \cup {None}]
  <2> DEFINE K == HasSequences(Blocks)
  <2>1. ASSUME NEW f PROVE FirstOf(IdsOf(K, Finished, input.frameStart, f)) \in Nat \cup {None}
    <3> DEFINE C == IdsOf(K, Finished, input.frameStart, f)
    <3>1. \A b \in K : IdIn(K, b) \in Nat
      BY KindsBlocks, IdsAre
    <3>2. C \in SUBSET Nat
      BY <3>1, ServedAmong DEF IdsOf
    <3> HIDE DEF C
    <3>3. C # {} => Min(C) \in Nat
      BY <3>2, MinIs
    <3>4. FirstOf(C) \in Nat \cup {None}
      BY <3>3 DEF FirstOf
    <3> QED BY <3>4 DEF C
  <2>2. seqStreamMinIdx = [f \in Frames |-> FirstOf(IdsOf(K, Finished, input.frameStart, f))]
    BY DEF Whole, FinishedOK, Started, Frames
  <2> HIDE DEF K
  <2> QED BY <2>1, <2>2
<1> QED BY <1>1, <1>2, <1>8, <1>9, <1>10, <1>11, <1>12, <1>13, <1>14 DEF TypeOK

LEMMA RangesApart == Whole => LiteralRangesDisjoint
<1> SUFFICES ASSUME Whole PROVE LiteralRangesDisjoint
  OBVIOUS
<1> DEFINE v == StreamCount
           z == LiteralSize
           n == counters.HUF_Streams
           m == counters.DecodedBytes
<1>1. Fits(v, z) /\ Placed(v, z, BytesServed, n, m, litRefs) /\ BytesServed \in SUBSET Blocks
  BY HeaderValues, ServedAmong, KindsBlocks DEF Whole, RangesOK
<1> HIDE DEF v, z, n, m
<1>2. ASSUME NEW s \in DOMAIN litRefs
      PROVE  /\ litRefs[s].size \in Nat /\ litRefs[s].offs + litRefs[s].size <= m
             /\ \A t \in DOMAIN litRefs : s # t =>
                  \/ litRefs[s].offs + litRefs[s].size <= litRefs[t].offs
                  \/ litRefs[t].offs + litRefs[t].size <= litRefs[s].offs
  BY <1>1, PlacedApart
<1>3. \A s \in DOMAIN litRefs : litRefs[s].size >= 0
  BY <1>2
<1> QED BY <1>2, <1>3 DEF LiteralRangesDisjoint, m

\* Blocks that add nothing do not count.
LEMMA ZeroRest ==
  ASSUME NEW v \in [Blocks -> Nat], NEW V \in SUBSET Blocks, NEW U \in SUBSET V,
         \A b \in V \ U : v[b] = 0
  PROVE  SumOver(v, V) = SumOver(v, U)
<1>1. IsFiniteSet(V) /\ Natural(v, V)
  BY BlockSums
<1>2. SumOver(v, V) = SumOver(v, U) + SumOver(v, V \ U) /\ SumOver(v, U) \in Nat
  BY <1>1, SumSplits
<1>3. SumOver(v, V \ U) = 0
  <2> DEFINE R == V \ U
  <2>1. IsFiniteSet(R)
    BY BlocksFinite
  <2> HIDE DEF R
  <2>2. \A b \in R : v[b] = 0
    BY DEF R
  <2>3. SumOver(v, R) = 0
    BY <2>1, <2>2, SumZero
  <2> QED BY <2>3 DEF R
<1> QED BY <1>2, <1>3

\* The blocks of K share out what all the blocks come to.
LEMMA StartsAmong ==
  ASSUME NEW u \in [Blocks -> Nat], NEW K \in SUBSET Blocks, \A b \in Blocks \ K : u[b] = 0,
         NEW b \in K
  PROVE  /\ Starts(u, b) \in Nat
         /\ IdIn(K, b) + 1 = Cardinality(K) => SumOver(u, K) = Starts(u, b) + u[b]
         /\ \A c \in K : IdIn(K, c) = IdIn(K, b) + 1 => b < c /\ Starts(u, c) = Starts(u, b) + u[b]
<1>1. ASSUME NEW c \in K PROVE Starts(u, c) = SumOver(u, Before(K, c)) /\ Starts(u, c) \in Nat
  <2>1. /\ Before(Blocks, c) \in SUBSET Blocks /\ Before(K, c) \in SUBSET Before(Blocks, c)
        /\ \A d \in Before(Blocks, c) \ Before(K, c) : u[d] = 0
    BY DEF Before
  <2> DEFINE V == Before(Blocks, c)
             U == Before(K, c)
  <2> HIDE DEF V, U
  <2>2. V \in SUBSET Blocks /\ U \in SUBSET V /\ \A d \in V \ U : u[d] = 0
    BY <2>1 DEF V, U
  <2>3. SumOver(u, V) = SumOver(u, U) /\ SumOver(u, V) \in Nat
    BY <2>2, ZeroRest, BlockSums
  <2> QED BY <2>3 DEF V, U, Starts
<1>2. ASSUME NEW V \in SUBSET K, V = Before(K, b) \cup {b}
      PROVE  SumOver(u, V) = Starts(u, b) + u[b]
  <2>1. b \in V /\ V \ {b} = Before(K, b)
    BY <1>2 DEF Before, Blocks
  <2>2. IsFiniteSet(V) /\ Natural(u, V)
    BY BlockSums
  <2>3. SumOver(u, V) = u[b] + SumOver(u, V \ {b})
    BY <2>1, <2>2, SumTakes
  <2>4. u[b] \in Nat /\ Starts(u, b) \in Nat /\ SumOver(u, V \ {b}) = Starts(u, b)
    BY <1>1, <2>1
  <2> QED BY <2>3, <2>4
<1>3. /\ \A c \in K : c \in Nat /\ IdIn(K, c) \in Nat /\ IdIn(K, c) < Cardinality(K)
      /\ \A c, d \in K : c < d <=> IdIn(K, c) < IdIn(K, d)
      /\ \A c, d \in K : IdIn(K, c) = IdIn(K, d) => c = d
      /\ Cardinality(K) \in Nat
  BY IdsAre, BlocksFinite DEF Blocks
<1>4. ASSUME IdIn(K, b) + 1 = Cardinality(K) PROVE SumOver(u, K) = Starts(u, b) + u[b]
  <2>1. ASSUME NEW c \in K PROVE c < b \/ c = b
    <3>1. ~ (IdIn(K, b) < IdIn(K, c))
      BY <1>3, <1>4
    <3>2. ~ (b < c) /\ b \in Nat /\ c \in Nat
      BY <1>3, <3>1
    <3> QED BY <3>2
  <2>2. K = Before(K, b) \cup {b}
    BY <2>1 DEF Before
  <2> QED BY <1>2, <2>2
<1>5. ASSUME NEW c \in K, IdIn(K, c) = IdIn(K, b) + 1
      PROVE  b < c /\ Starts(u, c) = Starts(u, b) + u[b]
  <2>1. b < c
    BY <1>3, <1>5
  <2>2. ASSUME NEW d \in K, d < c PROVE d < b \/ d = b
    <3>1. IdIn(K, d) < IdIn(K, c)
      BY <1>3, <2>2
    <3>2. ~ (IdIn(K, b) < IdIn(K, d))
      BY <1>3, <1>5, <3>1
    <3>3. ~ (b < d) /\ b \in Nat /\ d \in Nat
      BY <1>3, <3>2
    <3> QED BY <3>3
  <2>3. ASSUME NEW d \in K, d < b \/ d = b PROVE d < c
    BY <1>3, <2>1, <2>3
  <2>4. Before(K, c) = Before(K, b) \cup {b} /\ Before(K, c) \in SUBSET K
    BY <2>2, <2>3 DEF Before
  <2> DEFINE V == Before(K, c)
  <2> HIDE DEF V
  <2>5. V \in SUBSET K /\ V = Before(K, b) \cup {b}
    BY <2>4 DEF V
  <2>6. SumOver(u, V) = Starts(u, b) + u[b]
    BY <1>2, <2>5
  <2> QED BY <1>1, <2>1, <2>6 DEF V
<1> QED BY <1>1, <1>4, <1>5

\* The search finds the frame that a block is in.
LEMMA FrameIs ==
  ASSUME input \in Inputs, NEW b \in Nat, NEW f \in Frames
  PROVE  Frame(input.frameStart, b) = f
           <=> /\ input.frameStart[f] <= b
               /\ f + 1 \in Frames => b < input.frameStart[f + 1]
<1> DEFINE start == input.frameStart
           count == Cardinality(DOMAIN start)
           r == BinarySearch(start, count, b)
<1>1. /\ IsFiniteSet(DOMAIN start) /\ 0 \in DOMAIN start /\ start[0] = 0
      /\ start \in [0 .. count - 1 -> Nat]
      /\ \A i, j \in DOMAIN start : i <= j => start[i] <= start[j]
  BY HeadersAssumption
<1>2. Frame(start, b) = r /\ Frames = DOMAIN start
  BY DEF Frame, Frames
<1> HIDE DEF start
<1>3. count \in Nat
  BY <1>1, FS_CardinalityType
<1> HIDE DEF count, r
<1>4. DOMAIN start = 0 .. count - 1 /\ count > 0
  BY <1>1, <1>3
<1>5. r \in 0 .. count - 1 /\ start[r] <= b /\ (r + 1 < count => b < start[r + 1])
  <2>1. /\ start[0] <= b
        /\ \A i, j \in 0 .. count - 1 : i <= j => start[i] <= start[j]
    BY <1>1, <1>4
  <2> QED BY <1>1, <1>3, <1>4, <2>1, BinarySearchFinds DEF r
<1>6. f \in 0 .. count - 1
  BY <1>2, <1>4
<1>7. ASSUME r = f PROVE start[f] <= b /\ (f + 1 \in Frames => b < start[f + 1])
  BY <1>2, <1>3, <1>4, <1>5, <1>7
<1>8. ASSUME start[f] <= b, f + 1 \in Frames => b < start[f + 1] PROVE r = f
  <2>1. CASE f < r
    <3>1. f + 1 \in 0 .. count - 1 /\ f + 1 <= r
      BY <1>3, <1>5, <1>6, <2>1
    <3>2. b < start[f + 1] /\ start[f + 1] <= start[r] /\ start[f + 1] \in Nat /\ start[r] \in Nat
      BY <1>1, <1>2, <1>4, <1>5, <1>8, <3>1
    <3> QED BY <1>5, <3>2
  <2>2. CASE r < f
    <3>1. r + 1 \in 0 .. count - 1 /\ r + 1 <= f /\ r + 1 < count
      BY <1>3, <1>5, <1>6, <2>2
    <3>2. b < start[r + 1] /\ start[r + 1] <= start[f] /\ start[r + 1] \in Nat /\ start[f] \in Nat
      BY <1>1, <1>4, <1>5, <1>6, <3>1
    <3> QED BY <1>8, <3>2
  <2> QED BY <1>5, <1>6, <2>1, <2>2
<1> QED BY <1>2, <1>7, <1>8 DEF start

LEMMA StreamsOrdered == Whole => SequenceStreamsInOrder
<1> SUFFICES ASSUME Whole, Done PROVE SequenceStreamsInOrder
  BY DEF SequenceStreamsInOrder
<1> DEFINE K == HasSequences(Blocks)
           u == SequenceCount
           per == perSeqStream
           n == counters.Seq_Streams
<1>1. Finished = K /\ SeqServed = K /\ K \in SUBSET Blocks /\ input \in Inputs
  BY AllServed, KindsBlocks DEF Whole
<1>2. /\ u \in [Blocks -> Nat] /\ \A b \in Blocks \ K : u[b] = 0
      /\ \A b \in Blocks : u[b] = input.blocks[b].seqs
  BY <1>1, HeaderValues DEF SequenceCount
<1>3. n = Cardinality(K) /\ counters.DecodedItems = SumOver(u, K)
  BY <1>1 DEF Whole, NumbersOK
<1>4. /\ DOMAIN per = {IdIn(K, b) : b \in K}
      /\ \A b \in K : per[IdIn(K, b)].block = b /\ per[IdIn(K, b)].start = Starts(u, b)
  BY <1>1 DEF Whole, FinishedOK, Filled
<1>5. /\ \A b \in K : IdIn(K, b) \in Nat /\ b \in Nat
      /\ {IdIn(K, b) : b \in K} = 0 .. n - 1
      /\ n \in Nat
  BY <1>1, <1>3, IdsAre, BlocksFinite DEF Blocks
<1>6. seqStreamMinIdx = [f \in Frames |-> FirstOf(IdsOf(K, K, input.frameStart, f))]
  BY <1>1 DEF Whole, FinishedOK, Started, Frames
<1> HIDE DEF K, u, per, n
<1>7. ASSUME NEW s \in DOMAIN per
      PROVE  LET last == s + 1 = n
                 end == IF last THEN counters.DecodedItems ELSE per[s + 1].start
                 b == per[s].block
             IN /\ end - per[s].start = input.blocks[b].seqs
                /\ ~ last => b < per[s + 1].block
  <2>1. PICK b \in K : s = IdIn(K, b)
    BY <1>4
  <2>2. /\ per[s].block = b /\ per[s].start = Starts(u, b) /\ Starts(u, b) \in Nat
        /\ b \in Blocks /\ u[b] \in Nat /\ input.blocks[b].seqs = u[b]
    BY <1>1, <1>2, <1>4, <2>1, StartsAmong
  <2>3. CASE s + 1 = n
    <3>1. counters.DecodedItems = Starts(u, b) + u[b]
      BY <1>1, <1>2, <1>3, <2>1, <2>3, StartsAmong
    <3> QED BY <2>2, <2>3, <3>1
  <2>4. CASE s + 1 # n
    <3>1. s + 1 \in 0 .. n - 1
      BY <1>4, <1>5, <2>4
    <3>2. PICK c \in K : s + 1 = IdIn(K, c)
      BY <1>5, <3>1
    <3>3. b < c /\ Starts(u, c) = Starts(u, b) + u[b]
      BY <1>1, <1>2, <2>1, <3>2, StartsAmong
    <3>4. per[s + 1].block = c /\ per[s + 1].start = Starts(u, c)
      BY <1>4, <3>2
    <3> QED BY <2>2, <2>4, <3>3, <3>4
  <2> QED BY <2>3, <2>4
<1>8. {per[s].block : s \in DOMAIN per} = K
  BY <1>4
<1>9. ASSUME NEW f \in Frames
      PROVE  LET own == {s \in DOMAIN per :
                           /\ per[s].block >= input.frameStart[f]
                           /\ f + 1 \in Frames => per[s].block < input.frameStart[f + 1]}
             IN seqStreamMinIdx[f] = (IF own = {} THEN None ELSE Min(own))
  <2> DEFINE own == {s \in DOMAIN per :
                       /\ per[s].block >= input.frameStart[f]
                       /\ f + 1 \in Frames => per[s].block < input.frameStart[f + 1]}
  <2>1. ASSUME NEW b \in K
        PROVE  IdIn(K, b) \in own <=> Frame(input.frameStart, b) = f
    <3>1. /\ IdIn(K, b) \in DOMAIN per /\ per[IdIn(K, b)].block = b /\ b \in Nat
          /\ input.frameStart[f] \in Nat
      <4>1. input.frameStart[f] \in Nat
        <5>1. /\ DOMAIN input.frameStart = 0 .. Cardinality(DOMAIN input.frameStart) - 1
              /\ input.frameStart \in [0 .. Cardinality(DOMAIN input.frameStart) - 1 -> Nat]
          BY <1>1, HeadersAssumption
        <5>2. f \in DOMAIN input.frameStart
          BY DEF Frames
        <5> QED BY <5>1, <5>2
      <4> QED BY <1>4, <1>5, <4>1
    <3>2. Frame(input.frameStart, b) = f
            <=> /\ input.frameStart[f] <= b
                /\ f + 1 \in Frames => b < input.frameStart[f + 1]
      BY <1>1, <3>1, FrameIs
    <3>3. b >= input.frameStart[f] <=> input.frameStart[f] <= b
      BY <3>1
    <3>4. IdIn(K, b) \in own <=> /\ b >= input.frameStart[f]
                                 /\ f + 1 \in Frames => b < input.frameStart[f + 1]
      BY <3>1
    <3> HIDE DEF own
    <3>5. Frame(input.frameStart, b) = f <=> IdIn(K, b) \in own
      BY <3>2, <3>3, <3>4, Zenon
    <3> QED BY <3>5
  <2>2. \A s \in own : \E b \in K : s = IdIn(K, b)
    BY <1>4
  <2> DEFINE C == IdsOf(K, K, input.frameStart, f)
  <2>3. C = {IdIn(K, b) : b \in {c \in K : Frame(input.frameStart, c) = f}}
    BY DEF IdsOf
  <2> HIDE DEF own, C
  <2>4. own = C
    BY <2>1, <2>2, <2>3
  <2>5. seqStreamMinIdx[f] = FirstOf(C)
    BY <1>6 DEF C
  <2> QED BY <2>4, <2>5 DEF FirstOf, own
<1>10. DOMAIN per = 0 .. n - 1
  BY <1>4, <1>5
<1> QED BY <1>7, <1>8, <1>9, <1>10 DEF SequenceStreamsInOrder, K, per, n

\* Inclusive sums over the slots.
LEMMA GroupSums ==
  ASSUME NEW n \in [Slots -> Nat], NEW ends, ends = [s \in Slots |-> SumOver(n, 0 .. s)]
  PROVE  /\ ends \in [Slots -> Nat]
         /\ \A i, j \in Slots : i <= j => ends[i] <= ends[j]
         /\ \A s \in Slots : ends[s] = (IF s > 0 THEN ends[s - 1] ELSE 0) + n[s]
<1>1. Slots = Blocks /\ NumBlocks \in Nat /\ Slots = 0 .. NumBlocks - 1
  BY ParametersAssumption DEF Slots, Blocks
<1>2. \A s \in Slots : 0 .. s \in SUBSET Blocks
  BY <1>1
<1>3. \A s \in Slots : ends[s] \in Nat
  BY <1>1, <1>2, BlockSums
<1>4. ASSUME NEW i \in Slots, NEW j \in Slots, i <= j PROVE ends[i] <= ends[j]
  <2> DEFINE V == 0 .. j
             U == 0 .. i
  <2>1. V \in SUBSET Blocks /\ U \in SUBSET V
    BY <1>1, <1>2, <1>4
  <2> HIDE DEF V, U
  <2>2. SumOver(n, U) <= SumOver(n, V)
    BY <1>1, <2>1, BlockSums, SumSplits
  <2> QED BY <2>2 DEF V, U
<1>5. ASSUME NEW s \in Slots PROVE ends[s] = (IF s > 0 THEN ends[s - 1] ELSE 0) + n[s]
  <2> DEFINE V == 0 .. s
             U == V \ {s}
  <2>1. V \in SUBSET Blocks /\ s \in V
    BY <1>1
  <2>2. s > 0 => s - 1 \in Slots /\ U = 0 .. s - 1
    BY <1>1
  <2>3. ~ (s > 0) => U = {}
    BY <1>1
  <2> HIDE DEF V
  <2>4. SumOver(n, V) = n[s] + SumOver(n, U) /\ n[s] \in Nat
    <3>1. IsFiniteSet(V) /\ Natural(n, V)
      BY <1>1, <2>1, BlockSums
    <3> QED BY <2>1, <3>1, SumTakes
  <2>5. ends[s] = SumOver(n, V)
    BY DEF V
  <2> HIDE DEF U
  <2>6. CASE s > 0
    <3>1. ends[s - 1] = SumOver(n, U) /\ ends[s - 1] \in Nat
      BY <1>3, <2>2, <2>6
    <3> QED BY <2>4, <2>5, <2>6, <3>1
  <2>7. CASE ~ (s > 0)
    <3>1. SumOver(n, U) = 0
      BY <2>3, <2>7, FS_EmptySet, SumUnfolds
    <3> QED BY <2>4, <2>5, <2>7, <3>1
  <2> QED BY <2>6, <2>7
<1> QED BY <1>3, <1>4, <1>5

\* The streams that a number of literals with a table stands for: those of its
\* block and of all the blocks up to the next one with a table.
LEMMA LitsOf ==
  ASSUME Whole, Done, NEW a \in HufLits(Blocks),
         NEW v, v = StreamCount, NEW n, n = StreamsOfHufLit(IdIn(HufLits(Blocks), a))
  PROVE  /\ n \in Nat /\ StreamsOfSlot(slot[a]) = n /\ slot[a] \in Slots
         /\ hufLitIdToLitStreamId[hufWIdToHufLitId[slot[a]]] = Starts(v, a)
         /\ Starts(v, a) \in Nat /\ Starts(v, a) + n <= SumOver(v, Blocks)
         /\ \A c \in HufLits(Blocks) : a < c => Starts(v, a) + n <= Starts(v, c)
         /\ \A b \in Blocks : a <= b /\ (\A c \in HufLits(Blocks) : c <= b => c <= a) =>
              Starts(v, b) + v[b] <= Starts(v, a) + n
<1> DEFINE K == HufLits(Blocks)
           id == IdIn(K, a)
           m == Cardinality(K)
           N == SumOver(v, Blocks)
<1>1. K \in SUBSET Blocks /\ LitsServed = K /\ BytesServed = HasHuffman(Blocks) /\ input \in Inputs
  BY AllServed, KindsBlocks DEF Whole
<1>2. v \in [Blocks -> Nat] /\ \A b \in Blocks : b \in HasHuffman(Blocks) <=> v[b] # 0
  BY <1>1, HeaderValues DEF Fits
<1>3. counters.HUF_Streams = N
  <2>1. counters.HUF_Streams = SumOver(v, HasHuffman(Blocks))
    BY <1>1 DEF Whole, RangesOK, Placed
  <2>2. SumOver(v, Blocks) = SumOver(v, HasHuffman(Blocks))
    BY <1>2, KindsBlocks, ZeroRest
  <2> QED BY <2>1, <2>2
<1>4. /\ counters.HufLit = m
      /\ \A b \in K : /\ hufLitIdToLitStreamId[IdIn(K, b)] = Starts(v, b)
                      /\ hufWIdToHufLitId[slot[b]] = IdIn(K, b)
  BY <1>1 DEF Whole, LinksOK, Linked
<1>5. /\ \A b \in K : b \in Nat /\ IdIn(K, b) \in Nat /\ IdIn(K, b) < m
      /\ \A b, c \in K : b < c <=> IdIn(K, b) < IdIn(K, c)
      /\ {IdIn(K, b) : b \in K} = 0 .. m - 1
      /\ m \in Nat
  BY <1>1, IdsAre, BlocksFinite DEF Blocks
<1>6. slot[a] \in Slots
  BY <1>1, ServedAmong, SlotsApart DEF Whole, Apiece
<1>7. /\ \A b \in Blocks : b \in Nat /\ Starts(v, b) \in Nat /\ v[b] \in Nat /\ Starts(v, b) + v[b] <= N
      /\ \A b, c \in Blocks : b < c => Starts(v, b) + v[b] <= Starts(v, c)
      /\ N \in Nat
  <2>1. \A b \in Blocks : /\ Starts(v, b) \in Nat /\ Starts(v, b) + v[b] <= N
                          /\ \A c \in Blocks : b < c => Starts(v, b) + v[b] <= Starts(v, c)
    <3>1. Blocks \in SUBSET Blocks
      OBVIOUS
    <3> QED BY <1>2, <3>1, PrefixSums DEF Starts
  <2>2. N \in Nat
    <3>1. Blocks \in SUBSET Blocks
      OBVIOUS
    <3> QED BY <1>2, <3>1, BlockSums
  <2>3. \A b \in Blocks : b \in Nat /\ v[b] \in Nat
    BY <1>2 DEF Blocks
  <2> HIDE DEF N
  <2> QED BY <2>1, <2>2, <2>3
<1> HIDE DEF K, m, N
<1>8. n = (IF id + 1 < m THEN hufLitIdToLitStreamId[id + 1] ELSE N) - Starts(v, a)
  <2>1. /\ counters.HufLit = m /\ counters.HUF_Streams = N
        /\ hufLitIdToLitStreamId[id] = Starts(v, a)
    BY <1>3, <1>4 DEF K
  <2> QED BY <2>1 DEF StreamsOfHufLit, K
<1>9. StreamsOfSlot(slot[a]) = n
  <2>1. hufWIdToHufLitId[slot[a]] = id /\ id \in Nat
    BY <1>4, <1>5 DEF K
  <2>2. id # None
    BY <2>1, NoneAssumption
  <2> QED BY <2>1, <2>2 DEF StreamsOfSlot, K
<1>10. a \in K /\ a \in Blocks
  BY <1>1 DEF K
<1>11. /\ n \in Nat /\ Starts(v, a) + n <= N
       /\ \A c \in K : a < c => Starts(v, a) + n <= Starts(v, c)
       /\ \A b \in Blocks : a <= b /\ (\A c \in K : c <= b => c <= a) =>
            Starts(v, b) + v[b] <= Starts(v, a) + n
  <2>1. CASE id + 1 < m
    <3>1. id + 1 \in 0 .. m - 1
      BY <1>5, <1>10, <2>1
    <3>2. PICK d \in K : IdIn(K, d) = id + 1
      BY <1>5, <3>1
    <3>3. d \in Blocks /\ a < d /\ ~ (d <= a)
      BY <1>1, <1>5, <1>10, <3>2 DEF K
    <3>4. n = Starts(v, d) - Starts(v, a) /\ Starts(v, a) + v[a] <= Starts(v, d)
      BY <1>4, <1>7, <1>8, <1>10, <2>1, <3>2, <3>3
    <3>5. n \in Nat /\ Starts(v, a) + n = Starts(v, d)
      BY <1>7, <1>10, <3>3, <3>4
    <3>6. ASSUME NEW c \in K, a < c PROVE Starts(v, d) <= Starts(v, c)
      <4>1. id < IdIn(K, c)
        BY <1>5, <1>10, <3>6
      <4>2. ~ (IdIn(K, c) < IdIn(K, d))
        BY <1>5, <1>10, <3>2, <4>1
      <4>3. ~ (c < d) /\ c \in Nat /\ d \in Nat /\ c \in Blocks
        BY <1>1, <1>5, <4>2 DEF K
      <4>4. c = d \/ d < c
        BY <4>3
      <4> QED BY <1>7, <3>3, <4>3, <4>4
    <3>7. ASSUME NEW b \in Blocks, a <= b, \A c \in K : c <= b => c <= a
          PROVE  Starts(v, b) + v[b] <= Starts(v, d)
      <4>1. ~ (d <= b) /\ d \in Nat /\ b \in Nat
        BY <1>7, <3>3, <3>7
      <4> QED BY <1>7, <3>3, <4>1
    <3>8. Starts(v, d) <= N
      BY <1>7, <3>3
    <3> QED BY <3>5, <3>6, <3>7, <3>8
  <2>2. CASE ~ (id + 1 < m)
    <3>1. n \in Nat /\ Starts(v, a) + n = N
      BY <1>7, <1>8, <1>10, <2>2
    <3>2. ASSUME NEW c \in K, a < c PROVE FALSE
      BY <1>5, <1>10, <2>2, <3>2
    <3> QED BY <1>7, <3>1, <3>2
  <2> QED BY <2>1, <2>2
<1>12. hufLitIdToLitStreamId[hufWIdToHufLitId[slot[a]]] = Starts(v, a) /\ Starts(v, a) \in Nat
  BY <1>4, <1>7, <1>10
<1> QED BY <1>6, <1>9, <1>11, <1>12 DEF K, N

GroupCount == [r \in Slots |-> TgCount(StreamsOfSlot(r), LiteralsPerGroup)]

\* The first group of a slot's literals.
FirstGroup(s) == IF s > 0 THEN LitGroupEnd[s - 1] ELSE 0

LEMMA GroupEndIs == LitGroupEnd = [s \in Slots |-> SumOver(GroupCount, 0 .. s)]
<1>1. ASSUME NEW s \in Slots
      PROVE  MapThenSumSet(LAMBDA r : TgCount(StreamsOfSlot(r), LiteralsPerGroup), 0 .. s)
               = SumOver(GroupCount, 0 .. s)
  <2> DEFINE S == 0 .. s
             F(f) == f = [q \in SUBSET S |->
                            IF q = {} THEN 0
                            ELSE LET x == CHOOSE x \in q : TRUE
                                 IN TgCount(StreamsOfSlot(x), LiteralsPerGroup) + f[q \ {x}]]
             v == GroupCount
  <2>1. S \subseteq Slots
    BY ParametersAssumption DEF Slots
  <2> HIDE DEF S
  <2>2. \A f : F(f) <=> IsSum(v, S, f)
    <3>1. \A q \in SUBSET S : q # {} => (CHOOSE x \in q : TRUE) \in Slots
      BY <2>1
    <3> QED BY <3>1 DEF IsSum, SumStep, GroupCount
  <2>3. MapThenSumSet(LAMBDA r : TgCount(StreamsOfSlot(r), LiteralsPerGroup), S)
          = (CHOOSE f : F(f))[S]
    BY DEF MapThenSumSet, MapThenFoldSet
  <2> HIDE DEF F, v
  <2>4. (CHOOSE f : F(f)) = (CHOOSE f : IsSum(v, S, f))
    BY <2>2
  <2> QED BY <2>3, <2>4 DEF SumOver, v, S
<1> QED BY <1>1 DEF LitGroupEnd

\* Only the slot of a table that a block has stands for streams.
LEMMA SlotStreams ==
  ASSUME Whole, Done, NEW s \in Slots
  PROVE  /\ StreamsOfSlot(s) \in Nat
         /\ StreamsOfSlot(s) # 0 => \E a \in HufLits(Blocks) : slot[a] = s
<1>1. CASE \E a \in HufLits(Blocks) : slot[a] = s
  BY <1>1, LitsOf
<1>2. CASE ~ \E a \in HufLits(Blocks) : slot[a] = s
  <2>1. hufWIdToHufLitId[s] = None
    BY <1>2, AllServed DEF Whole, LinksOK, Linked
  <2> QED BY <2>1 DEF StreamsOfSlot
<1> QED BY <1>1, <1>2

LEMMA GroupsAre ==
  ASSUME Whole, Done
  PROVE  /\ \A a \in HufLits(Blocks) : \A j \in Nat :
              j * LiteralsPerGroup < StreamsOfSlot(slot[a]) =>
                /\ FirstGroup(slot[a]) \in Nat /\ FirstGroup(slot[a]) + j \in Groups
                /\ SlotOf(FirstGroup(slot[a]) + j) = slot[a]
         /\ \A g \in Groups : \E a \in HufLits(Blocks) : \E j \in Nat :
              /\ SlotOf(g) = slot[a] /\ g = FirstGroup(slot[a]) + j
              /\ j * LiteralsPerGroup < StreamsOfSlot(slot[a])
<1> DEFINE n == GroupCount
           d == LiteralsPerGroup
           ends == LitGroupEnd
<1>1. d \in Nat \ {0} /\ NumBlocks \in Nat /\ NumBlocks > 0 /\ Slots = 0 .. NumBlocks - 1
  BY ParametersAssumption DEF Slots
<1>2. ASSUME NEW s \in Slots
      PROVE  /\ n[s] \in Nat
             /\ \A j \in Nat : j < n[s] <=> j * d < StreamsOfSlot(s)
  <2>1. n[s] = TgCount(StreamsOfSlot(s), d) /\ StreamsOfSlot(s) \in Nat
    BY SlotStreams DEF GroupCount
  <2> QED BY <1>1, <2>1, GroupsNeeded
<1>3. n \in [Slots -> Nat]
  BY <1>2 DEF GroupCount
<1>4. ends = [s \in Slots |-> SumOver(n, 0 .. s)]
  BY GroupEndIs
<1> HIDE DEF n, ends
<1>5. /\ ends \in [Slots -> Nat]
      /\ \A i, j \in Slots : i <= j => ends[i] <= ends[j]
      /\ \A s \in Slots : ends[s] = (IF s > 0 THEN ends[s - 1] ELSE 0) + n[s]
  BY <1>3, <1>4, GroupSums
<1>6. \A s \in Slots : /\ FirstGroup(s) = IF s > 0 THEN ends[s - 1] ELSE 0
                       /\ ends[s] = FirstGroup(s) + n[s]
  BY <1>5 DEF FirstGroup, ends
<1>7. ASSUME NEW s \in Slots PROVE FirstGroup(s) \in Nat /\ ends[s] \in Nat /\ n[s] \in Nat
  <2>1. ends[s] \in Nat /\ n[s] \in Nat
    BY <1>2, <1>5
  <2>2. s > 0 => s - 1 \in Slots
    BY <1>1
  <2>3. s > 0 => ends[s - 1] \in Nat
    BY <1>5, <2>2
  <2> QED BY <1>6, <2>1, <2>3
<1>8. \A g : SlotOf(g) = SlotOfGroup(ends, NumBlocks, g)
  BY DEF SlotOf, ends
<1>9. Groups = 0 .. ends[NumBlocks - 1] - 1 /\ ends[NumBlocks - 1] \in Nat
  BY <1>1, <1>7 DEF Groups, ends
<1>10. ASSUME NEW g \in Groups, NEW s \in Slots
       PROVE  /\ SlotOf(g) \in Slots
              /\ SlotOf(g) = s <=> g < ends[s] /\ (s > 0 => ends[s - 1] <= g)
  <2>1. g \in Nat /\ g < ends[NumBlocks - 1]
    BY <1>9
  <2> QED BY <1>1, <1>5, <1>8, <2>1, SlotOfGroupFinds
<1>11. ASSUME NEW a \in HufLits(Blocks), NEW j \in Nat, j * d < StreamsOfSlot(slot[a])
       PROVE  /\ FirstGroup(slot[a]) \in Nat /\ FirstGroup(slot[a]) + j \in Groups
              /\ SlotOf(FirstGroup(slot[a]) + j) = slot[a]
  <2> DEFINE s == slot[a]
             g == FirstGroup(s) + j
  <2>1. s \in Slots
    BY LitsOf
  <2> HIDE DEF s
  <2>2. j < n[s]
    BY <1>2, <1>11, <2>1 DEF s
  <2>3. g \in Nat /\ g < ends[s] /\ (s > 0 => ends[s - 1] <= g)
    BY <1>6, <1>7, <2>1, <2>2
  <2>4. ends[s] <= ends[NumBlocks - 1]
    <3>1. NumBlocks - 1 \in Slots /\ s <= NumBlocks - 1
      BY <1>1, <2>1
    <3> QED BY <1>5, <2>1, <3>1
  <2>5. g \in Groups
    BY <1>7, <1>9, <2>1, <2>3, <2>4
  <2>6. SlotOf(g) = s
    BY <1>10, <2>1, <2>3, <2>5
  <2> QED BY <1>7, <2>1, <2>5, <2>6 DEF s
<1>12. ASSUME NEW g \in Groups
       PROVE  \E a \in HufLits(Blocks) : \E j \in Nat :
                /\ SlotOf(g) = slot[a] /\ g = FirstGroup(slot[a]) + j
                /\ j * d < StreamsOfSlot(slot[a])
  <2> DEFINE s == SlotOf(g)
             j == g - FirstGroup(s)
  <2>1. s \in Slots
    <3>1. 0 \in Slots
      BY <1>1
    <3> QED BY <1>10, <3>1
  <2>2. g \in Nat /\ g < ends[s] /\ (s > 0 => ends[s - 1] <= g)
    BY <1>9, <1>10, <2>1
  <2> HIDE DEF s
  <2>3. j \in Nat /\ g = FirstGroup(s) + j /\ j < n[s]
    BY <1>6, <1>7, <2>1, <2>2
  <2> HIDE DEF j
  <2>4. j * d < StreamsOfSlot(s) /\ j * d \in Nat
    BY <1>1, <1>2, <2>1, <2>3, Multiples
  <2>5. StreamsOfSlot(s) # 0
    BY <2>1, <2>4, SlotStreams
  <2>6. PICK a \in HufLits(Blocks) : slot[a] = s
    BY <2>1, <2>5, SlotStreams
  <2>7. SlotOf(g) = slot[a] /\ g = FirstGroup(slot[a]) + j /\ j * d < StreamsOfSlot(slot[a])
    BY <2>3, <2>4, <2>6 DEF s
  <2> QED BY <2>3, <2>7
<1> QED BY <1>11, <1>12

\* The streams of a group: the next ones of the table's, and no more than a
\* group decodes.
LEMMA GroupStreams ==
  ASSUME Whole, Done, NEW a \in HufLits(Blocks), NEW j \in Nat, NEW g \in Nat,
         g = FirstGroup(slot[a]) + j, SlotOf(g) = slot[a], FirstGroup(slot[a]) \in Nat,
         NEW k, k = j * LiteralsPerGroup, NEW n, n = StreamsOfSlot(slot[a]), k < n,
         NEW p, p = Starts(StreamCount, a)
  PROVE  /\ p \in Nat /\ n \in Nat /\ k \in Nat
         /\ \A x : x \in StreamsOfGroup(g) <=>
                     x \in Nat /\ p + k <= x /\ x < p + k + LiteralsPerGroup /\ x < p + n
<1> DEFINE s == SlotOf(g)
           d == LiteralsPerGroup
           first == (g - (IF s > 0 THEN LitGroupEnd[s - 1] ELSE 0)) * d
           remain == Min({n - first, d})
<1>1. d \in Nat \ {0} /\ k \in Nat /\ p \in Nat /\ n \in Nat
  BY ParametersAssumption, Multiples, LitsOf
<1>2. /\ s = slot[a]
      /\ hufLitIdToLitStreamId[hufWIdToHufLitId[s]] = p
  BY LitsOf
<1>3. first = k
  <2>1. g - (IF s > 0 THEN LitGroupEnd[s - 1] ELSE 0) = g - FirstGroup(slot[a])
    BY <1>2 DEF FirstGroup
  <2>2. g - FirstGroup(slot[a]) = j
    OBVIOUS
  <2> QED BY <2>1, <2>2
<1>4. StreamsOfGroup(g) = p + first .. p + first + remain - 1
  BY <1>2 DEF StreamsOfGroup
<1> HIDE DEF first
<1>5. /\ remain \in Nat /\ remain <= n - k /\ remain <= d
      /\ remain = n - k \/ remain = d
  <2>1. {n - first, d} \in SUBSET Nat /\ {n - first, d} # {}
    BY <1>1, <1>3
  <2>2. remain \in {n - first, d} /\ \A c \in {n - first, d} : remain <= c
    BY <2>1, MinIs
  <2> QED BY <1>1, <1>3, <2>2
<1> HIDE DEF remain
<1>6. StreamsOfGroup(g) = p + k .. p + k + remain - 1
  BY <1>3, <1>4
<1>7. ASSUME NEW x
      PROVE  x \in p + k .. p + k + remain - 1 <=>
               x \in Nat /\ p + k <= x /\ x < p + k + d /\ x < p + n
  BY <1>1, <1>5
<1> QED BY <1>1, <1>6, <1>7

\* Every block with Huffman-compressed literals has a table: its own, or the one
\* of the last block before that has one.
LEMMA OwnerIs ==
  ASSUME input \in Inputs, NEW b \in HasHuffman(Blocks)
  PROVE  /\ TableOwner(b) \in HufLits(Blocks) /\ TableOwner(b) <= b
         /\ \A c \in HufLits(Blocks) : c <= b => c <= TableOwner(b)
<1> DEFINE A == {a \in HufLits(Blocks) : a <= b}
           R == {b - a : a \in A}
<1>1. b \in Nat /\ b \in Blocks /\ HufLits(Blocks) \subseteq Nat
  BY KindsBlocks DEF Blocks
<1>2. A # {}
  <2>1. input.blocks \in [Blocks -> Header] /\ input.blocks[b] \in Header
    BY <1>1, HeadersAssumption
  <2>2. Tree(b) \in {"raw", "fse", "direct", "treeless"} /\ Tree(b) # "raw"
    BY <2>1 DEF HasHuffman, Header, Tree
  <2>3. \A a \in Blocks : a \in HufLits(Blocks) <=> Tree(a) \in {"fse", "direct"}
    BY DEF HufLits, HasFseTree, HasRawTree
  <2>4. CASE Tree(b) = "treeless"
    <3>1. PICK a \in Blocks : a < b /\ Tree(a) \in {"fse", "direct"}
      BY <1>1, <2>4, HeadersAssumption DEF Tree
    <3>2. a \in HufLits(Blocks)
      BY <2>3, <3>1
    <3>3. a <= b
      BY <1>1, <3>1, <3>2
    <3> QED BY <3>2, <3>3
  <2>5. CASE Tree(b) # "treeless"
    <3>1. b \in HufLits(Blocks) /\ b <= b
      BY <1>1, <2>2, <2>3, <2>5
    <3> QED BY <3>1
  <2> QED BY <2>4, <2>5
<1>3. R \in SUBSET Nat /\ R # {}
  BY <1>1, <1>2
<1>4. PICK m \in R : \A r \in R : m <= r
  BY <1>3, Least
<1>5. PICK a \in A : m = b - a
  OBVIOUS
<1>6. ASSUME NEW c \in HufLits(Blocks), c <= b PROVE c <= a
  <2>1. b - c \in R
    BY <1>6
  <2>2. b - a <= b - c
    BY <1>4, <1>5, <2>1
  <2> QED BY <1>1, <1>6, <2>2
<1>7. \E o \in HufLits(Blocks) : o <= b /\ \A c \in HufLits(Blocks) : c <= b => c <= o
  BY <1>6
<1> HIDE DEF A, R
<1> QED BY <1>7 DEF TableOwner

\* At the end every stream has its place, in block order.
LEMMA StreamsPlaced ==
  ASSUME Whole, Done
  PROVE  /\ DOMAIN litRefs = 0 .. SumOver(StreamCount, Blocks) - 1
         /\ SumOver(StreamCount, Blocks) \in Nat
         /\ \A b \in Blocks : litStream[b] = Starts(StreamCount, b)
<1> DEFINE v == StreamCount
           N == SumOver(v, Blocks)
<1>1. /\ v \in [Blocks -> Nat] /\ input \in Inputs
      /\ \A b \in Blocks : b \in HasHuffman(Blocks) <=> v[b] # 0
  BY HeaderValues DEF Whole, Fits
<1>2. DOMAIN litRefs = UNION {Own(v, b) : b \in HasHuffman(Blocks)}
  BY AllServed DEF Whole, RangesOK, Placed
<1>3. Blocks \in SUBSET Blocks
  OBVIOUS
<1>4. N \in Nat
  BY <1>1, <1>3, BlockSums
<1>5. ASSUME NEW b \in Blocks, NEW x \in Own(v, b)
      PROVE  b \in HasHuffman(Blocks) /\ x \in 0 .. N - 1
  <2>1. Starts(v, b) \in Nat /\ Starts(v, b) + v[b] <= N /\ v[b] \in Nat
    BY <1>1, <1>3, PrefixSums DEF Starts
  <2> HIDE DEF N
  <2>2. x \in Nat /\ x < Starts(v, b) + v[b] /\ v[b] # 0
    BY <2>1 DEF Own
  <2> QED BY <1>1, <1>4, <2>1, <2>2
<1>6. ASSUME NEW x \in 0 .. N - 1 PROVE \E b \in HasHuffman(Blocks) : x \in Own(v, b)
  <2>1. x \in Nat /\ x < N
    BY <1>4
  <2> QED BY <1>1, <1>5, <2>1, OwnCovers
<1>7. DOMAIN litRefs = 0 .. N - 1
  <2> HIDE DEF N, v
  <2>1. \A b \in HasHuffman(Blocks) : b \in Blocks
    BY KindsBlocks
  <2> QED BY <1>2, <1>5, <1>6, <2>1
<1>8. \A b \in Blocks : litStream[b] = Starts(v, b)
  BY AllServed DEF Whole, StreamsOK
<1> QED BY <1>4, <1>7, <1>8

LEMMA LiteralsDecoded == Whole => LiteralsDecodedOnceWithTheirTable
<1> SUFFICES ASSUME Whole, Done PROVE LiteralsDecodedOnceWithTheirTable
  BY DEF LiteralsDecodedOnceWithTheirTable
<1> DEFINE K == HufLits(Blocks)
           v == StreamCount
           d == LiteralsPerGroup
           N == SumOver(v, Blocks)
           Len(a) == StreamsOfSlot(slot[a])
           At(a) == Starts(v, a)
<1>1. /\ v \in [Blocks -> Nat] /\ input \in Inputs
      /\ \A b \in Blocks : v[b] = input.blocks[b].streams
  BY HeaderValues DEF Whole, Fits, StreamCount
<1>2. K \in SUBSET Blocks /\ d \in Nat \ {0} /\ K \subseteq Nat
  BY KindsBlocks, ParametersAssumption DEF Blocks
<1>3. ASSUME NEW a \in K
      PROVE  /\ Len(a) \in Nat /\ At(a) \in Nat /\ At(a) + Len(a) <= N
             /\ \A c \in K : a < c => At(a) + Len(a) <= At(c)
             /\ \A b \in Blocks : a <= b /\ (\A c \in K : c <= b => c <= a) =>
                  At(b) + v[b] <= At(a) + Len(a)
  BY LitsOf
<1>4. DOMAIN litRefs = 0 .. N - 1 /\ N \in Nat /\ \A b \in Blocks : litStream[b] = At(b)
  BY StreamsPlaced
<1>5. ASSUME NEW g \in Groups
      PROVE  \E a \in K : \E j \in Nat :
               /\ SlotOf(g) = slot[a] /\ g = FirstGroup(slot[a]) + j /\ j * d \in Nat
               /\ \A x : x \in StreamsOfGroup(g) <=>
                    x \in Nat /\ At(a) + j * d <= x /\ x < At(a) + j * d + d /\ x < At(a) + Len(a)
  <2>1. PICK a \in K, j \in Nat : SlotOf(g) = slot[a] /\ g = FirstGroup(slot[a]) + j
                                  /\ j * d < StreamsOfSlot(slot[a])
    BY GroupsAre
  <2>2. FirstGroup(slot[a]) \in Nat /\ g \in Nat
    BY <2>1, GroupsAre
  <2>3. /\ j * d \in Nat
        /\ \A x : x \in StreamsOfGroup(g) <=>
             x \in Nat /\ At(a) + j * d <= x /\ x < At(a) + j * d + d /\ x < At(a) + Len(a)
    <3> DEFINE k == j * d
               n == Len(a)
               p == At(a)
    <3>1. k = j * LiteralsPerGroup /\ n = StreamsOfSlot(slot[a]) /\ k < n /\ p = Starts(StreamCount, a)
      BY <2>1
    <3> HIDE DEF k, n, p
    <3>2. /\ k \in Nat
          /\ \A x : x \in StreamsOfGroup(g) <=>
               x \in Nat /\ p + k <= x /\ x < p + k + LiteralsPerGroup /\ x < p + n
      BY <2>1, <2>2, <3>1, GroupStreams
    <3> QED BY <3>2 DEF k, n, p
  <2> QED BY <2>1, <2>3
<1>6. ASSUME NEW a \in K, NEW j \in Nat, j * d < Len(a)
      PROVE  /\ FirstGroup(slot[a]) + j \in Groups /\ SlotOf(FirstGroup(slot[a]) + j) = slot[a]
             /\ j * d \in Nat
             /\ \A x : x \in StreamsOfGroup(FirstGroup(slot[a]) + j) <=>
                  x \in Nat /\ At(a) + j * d <= x /\ x < At(a) + j * d + d /\ x < At(a) + Len(a)
  <2>1. /\ FirstGroup(slot[a]) \in Nat /\ FirstGroup(slot[a]) + j \in Groups
        /\ SlotOf(FirstGroup(slot[a]) + j) = slot[a]
    BY <1>6, GroupsAre
  <2> DEFINE k == j * d
             n == Len(a)
             p == At(a)
             g == FirstGroup(slot[a]) + j
  <2>2. /\ k = j * LiteralsPerGroup /\ n = StreamsOfSlot(slot[a]) /\ k < n
        /\ p = Starts(StreamCount, a) /\ g = FirstGroup(slot[a]) + j /\ g \in Nat
        /\ SlotOf(g) = slot[a]
    BY <1>6, <2>1
  <2> HIDE DEF k, n, p, g
  <2>3. /\ k \in Nat
        /\ \A x : x \in StreamsOfGroup(g) <=>
             x \in Nat /\ p + k <= x /\ x < p + k + LiteralsPerGroup /\ x < p + n
    BY <2>1, <2>2, GroupStreams
  <2> QED BY <2>1, <2>3 DEF k, n, p, g
<1>7. ASSUME NEW a \in K PROVE hufRefs[slot[a]] = a
  <2>1. a \in FseServed \cup RawServed
    BY AllServed, ServedAmong
  <2> QED BY <2>1 DEF Whole, IInv, SlotsOK
<1> HIDE DEF K, v, d, N, Len, At
<1>8. ASSUME NEW g \in Groups PROVE StreamsOfGroup(g) \subseteq DOMAIN litRefs
  <2>1. PICK a \in K, j \in Nat :
               /\ j * d \in Nat
               /\ \A x : x \in StreamsOfGroup(g) <=>
                    x \in Nat /\ At(a) + j * d <= x /\ x < At(a) + j * d + d /\ x < At(a) + Len(a)
    BY <1>5
  <2>2. \A x \in StreamsOfGroup(g) : x \in Nat /\ x < At(a) + Len(a)
    BY <2>1
  <2> QED BY <1>3, <1>4, <2>2
<1>9. ASSUME NEW b \in HasHuffman(Blocks), NEW i \in 0 .. 3, i < v[b]
      PROVE  /\ At(b) + i \in DOMAIN litRefs
             /\ \E g \in Groups : /\ {h \in Groups : At(b) + i \in StreamsOfGroup(h)} = {g}
                                  /\ hufRefs[SlotOf(g)] = TableOwner(b)
  <2> DEFINE a == TableOwner(b)
             x == At(b) + i
             k == (x - At(a)) \div d
             g == FirstGroup(slot[a]) + k
  <2>1. /\ b \in Blocks /\ b \in Nat /\ a \in K /\ a <= b /\ a \in Blocks /\ a \in Nat
        /\ \A c \in K : c <= b => c <= a
    BY <1>1, <1>2, OwnerIs, KindsBlocks DEF K, Blocks
  <2> HIDE DEF a
  <2>2. /\ At(b) \in Nat /\ At(a) \in Nat /\ v[b] \in Nat /\ v[a] \in Nat
        /\ a < b => At(a) + v[a] <= At(b)
    <3>1. Blocks \in SUBSET Blocks
      OBVIOUS
    <3> QED BY <1>1, <2>1, <3>1, PrefixSums DEF Starts, At
  <2>3. x \in Nat /\ At(a) <= x
    <3>1. a = b \/ a < b
      BY <2>1
    <3> QED BY <2>2, <3>1
  <2>4. x < At(a) + Len(a) /\ Len(a) \in Nat /\ At(a) + Len(a) <= N
    <3>1. At(b) + v[b] <= At(a) + Len(a)
      BY <1>3, <2>1
    <3>2. Len(a) \in Nat /\ At(a) + Len(a) <= N
      BY <1>3, <2>1
    <3> QED BY <1>9, <2>2, <3>1, <3>2
  <2>5. x \in DOMAIN litRefs
    BY <1>4, <2>2, <2>3, <2>4
  <2> HIDE DEF x
  <2>6. x - At(a) \in Nat
    BY <2>2, <2>3
  <2>7. k \in Nat /\ k * d <= x - At(a) /\ x - At(a) < k * d + d
    BY <1>2, <2>6, Quotient
  <2> HIDE DEF k
  <2>8. k * d \in Nat
    BY <1>2, <2>7, Multiples
  <2>9. k * d < Len(a)
    BY <2>2, <2>3, <2>4, <2>6, <2>7, <2>8
  <2>10. /\ g \in Groups /\ SlotOf(g) = slot[a]
         /\ \A y : y \in StreamsOfGroup(g) <=>
              y \in Nat /\ At(a) + k * d <= y /\ y < At(a) + k * d + d /\ y < At(a) + Len(a)
    BY <1>6, <2>1, <2>7, <2>9
  <2> HIDE DEF g
  <2>11. x \in StreamsOfGroup(g)
    BY <1>2, <2>2, <2>3, <2>4, <2>7, <2>8, <2>10
  <2>12. ASSUME NEW h \in Groups, x \in StreamsOfGroup(h) PROVE h = g
    <3>1. PICK c \in K, j \in Nat :
               /\ h = FirstGroup(slot[c]) + j /\ j * d \in Nat
               /\ \A y : y \in StreamsOfGroup(h) <=>
                    y \in Nat /\ At(c) + j * d <= y /\ y < At(c) + j * d + d /\ y < At(c) + Len(c)
      BY <1>5
    <3>2. At(c) + j * d <= x /\ x < At(c) + j * d + d /\ x < At(c) + Len(c)
      BY <2>12, <3>1
    <3>3. At(c) \in Nat /\ Len(c) \in Nat /\ c \in Nat
      BY <1>2, <1>3
    <3>4. ~ (a < c)
      <4>1. a < c => At(a) + Len(a) <= At(c)
        BY <1>3, <2>1
      <4> QED BY <2>2, <2>3, <2>4, <3>1, <3>2, <3>3, <4>1
    <3>5. ~ (c < a)
      <4>1. c < a => At(c) + Len(c) <= At(a)
        BY <1>3, <2>1
      <4> QED BY <2>2, <2>3, <3>2, <3>3, <4>1
    <3>6. c = a
      BY <2>1, <3>3, <3>4, <3>5
    <3>7. j * d <= x - At(a) /\ x - At(a) < j * d + d
      <4> DEFINE m == j * d
      <4>1. m \in Nat /\ At(a) + m <= x /\ x < At(a) + m + d
        BY <3>1, <3>2, <3>6
      <4> HIDE DEF m
      <4>2. m <= x - At(a) /\ x - At(a) < m + d
        BY <1>2, <2>2, <2>3, <4>1
      <4> QED BY <4>2 DEF m
    <3>8. ASSUME NEW p \in Nat, NEW q \in Nat, p * d <= x - At(a), x - At(a) < q * d + d
          PROVE  p <= q
      <4>1. SUFFICES ASSUME q + 1 <= p PROVE FALSE
        OBVIOUS
      <4>2. (q + 1) * d <= p * d /\ (q + 1) * d = q * d + d /\ q * d \in Nat /\ p * d \in Nat
        BY <1>2, <4>1, Multiples
      <4> QED BY <1>2, <2>6, <3>8, <4>2
    <3>9. j = k
      <4>1. j <= k /\ k <= j
        BY <2>7, <3>7, <3>8
      <4> QED BY <2>7, <4>1
    <3> QED BY <3>1, <3>6, <3>9 DEF g
  <2>13. {h \in Groups : x \in StreamsOfGroup(h)} = {g}
    BY <2>10, <2>11, <2>12
  <2>14. hufRefs[SlotOf(g)] = a
    BY <1>7, <2>1, <2>10
  <2> QED BY <2>5, <2>10, <2>13, <2>14 DEF x, a
<1>10. ASSUME NEW b \in HasHuffman(Blocks), NEW i \in 0 .. 3, i < input.blocks[b].streams
       PROVE  /\ litStream[b] + i \in DOMAIN litRefs
              /\ \E g \in Groups : /\ {h \in Groups : litStream[b] + i \in StreamsOfGroup(h)} = {g}
                                   /\ hufRefs[SlotOf(g)] = TableOwner(b)
  <2>1. b \in Blocks
    BY KindsBlocks
  <2>2. litStream[b] = At(b) /\ i < v[b]
    BY <1>1, <1>4, <1>10, <2>1
  <2> QED BY <1>9, <2>2
<1> QED BY <1>8, <1>10 DEF LiteralsDecodedOnceWithTheirTable

------------------------------------------------------------------------------
\* The theorems.

\* TypeOK: every variable has its type; above all, a slot is one of the array, and
\* a number or an index is one that was given, or None.
THEOREM TypeCorrect == Safety => []TypeOK
BY WholeInvariant, TypesRight, PTL

\* LiteralRangesDisjoint: at any time, the bytes that the waves take from
\* DecodedBytes in the order of arrival, cut into the four streams of a block,
\* never overlap.
THEOREM LiteralRanges == Safety => []LiteralRangesDisjoint
BY WholeInvariant, RangesApart, PTL

\* LiteralsDecodedOnceWithTheirTable: the binary search over the groups of the
\* slots, which are in the order of arrival, leads each stream, which is in block
\* order, to one thread, and that thread to the stream's own table.
THEOREM LiteralsDecodedOnce == Safety => []LiteralsDecodedOnceWithTheirTable
BY WholeInvariant, LiteralsDecoded, PTL

\* SequenceStreamsInOrder: the sequence streams are the blocks with sequences, in
\* block order and without a gap, and each frame knows its first one.
THEOREM SequenceStreams == Safety => []SequenceStreamsInOrder
BY WholeInvariant, StreamsOrdered, PTL
=============================================================================
