----------------------------- MODULE GroupSearch -----------------------------
(***************************************************************************)
(* How a zstdgpu kernel finds what a thread or a threadgroup works on: a   *)
(* binary search over prefix sums.  Sequences are functions from 0.        *)
(***************************************************************************)
EXTENDS Integers

\* A bug: the last group, not full, is forgotten.
MutTgCount(elemCount, tgSize) == elemCount \div tgSize

\* ZSTDGPU_TG_COUNT
TgCount(elemCount, tgSize) == (elemCount + tgSize - 1) \div tgSize

\* A range [p[1], p[1] + p[2]) of the slots.
Ranges(count) == {p \in (0 .. count) \X (0 .. count) : p[1] + p[2] <= count}

\* The loop both searches share: right are the slots the test sends upwards.
Bisect(count, right) ==
  LET from[p \in Ranges(count)] ==
        LET next == p[1] + p[2] \div 2
        IN IF p[2] <= 1 THEN p[1]
           ELSE from[<<IF next \in right THEN next ELSE p[1], p[2] - p[2] \div 2>>]
  IN from[<<0, count>>]

\* The last of the count exclusive prefixes that is not above x.
BinarySearch(prefix, count, x) == Bisect(count, {m \in 1 .. count - 1 : prefix[m] <= x})

\* The same search over inclusive prefixes, read one slot earlier.
SlotOfGroup(groupEnd, count, g) ==
  Bisect(count, {m \in 1 .. count - 1 : groupEnd[m - 1] <= g})

==============================================================================
