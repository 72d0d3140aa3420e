------------------------------ MODULE Dispatch ------------------------------
(***************************************************************************)
(* How zstdgpu sizes a kernel on the GPU.  UpdateDispatchArgs turns a      *)
(* count that an earlier kernel produced into one or two indirect dispatch *)
(* records, because a dimension has a limit; the kernel's threads turn     *)
(* group numbers back into the element they work on.  A context may work   *)
(* around an indirect count: then there is one record, of one dimension,   *)
(* and the shader fetches the count itself through an encoded slot.        *)
(*                                                                         *)
(* The look-backs of the other modules rely on the order in which groups   *)
(* are issued, which is the order of this module.                          *)
(***************************************************************************)
EXTENDS GroupSearch, Sequences

CONSTANTS
  DimLog2,       \* kzstdgpu_MaxCount_ThreadGroupsPerDimensionLog2
  DimLimit,      \* 2^16 - 1: the groups of a dimension that the API allows
  Slots,         \* the dispatch slots used, 0 .. n
  TgSize,        \* TgSize[slot], the threads of a group
  MaxElems,      \* bound of the model: the largest count
  MaxEmits,      \* bound of the model: how often arguments are computed
  WordSize       \* 2^32: how many values a word has

PerDim == 2 ^ DimLog2

ASSUME SizesAssumption ==
  /\ PerDim \in Nat \ {0} /\ WordSize \in Nat
  /\ Slots \subseteq Nat /\ TgSize \in [Slots -> Nat \ {0}]

\* Any count without the high bit has its rows within the limit: 2^15 of them
\* are a row, and 2^31 groups would be 2^16 rows.
ASSUME LimitAssumption ==
  /\ DimLimit \in Nat /\ PerDim <= DimLimit
  /\ WordSize \div 2 <= (DimLimit + 1) * PerDim

ASSUME BoundsAssumption == MaxElems \in Nat /\ MaxEmits \in Nat

\* A count with the high bit set would be taken for an encoded slot.
ASSUME CountAssumption == MaxElems < WordSize \div 2 /\ \A s \in Slots : s < WordSize \div 2

VARIABLES
  workaround, \* executeIndirectWorkaround of the context
  elems,      \* history: the count last emitted for each slot
  args,       \* DispatchArgs: two records of each slot
  cnts,       \* DispatchCnts
  emits,      \* how often arguments were computed
  running,    \* the slot whose kernel the GPU executes, or Idle
  record, group, \* the record it is in, and the groups of it already issued
  visits      \* how often each element was worked on; history

dispatchVars == <<workaround, elems, args, cnts, emits, running, record, group, visits>>

Idle == -1
NoRecord == [tgOffset |-> 0, workItemCount |-> 0, x |-> 0, y |-> 0]

\* A bug: one record of one dimension is taken to be enough.
MutNeedsRows(rows) == FALSE

NeedsRows(rows) == rows > 0

\* zstdgpu_EmitDispatch.  Without a second record the old one is kept in the
\* first case and cleared in the last.
EmitDispatch(elemCount, tgSize, old) ==
  LET tgCount == TgCount(elemCount, tgSize)
      Rec(offset, x, y) ==
        [tgOffset |-> offset, workItemCount |-> elemCount, x |-> x, y |-> y]
      rows == tgCount \div PerDim
  IN CASE workaround -> [args |-> <<Rec(0, tgCount, 1), old[2]>>, cnt |-> 1]
       [] ~workaround /\ NeedsRows(rows) ->
            [args |-> <<Rec(0, PerDim, rows), Rec(rows * PerDim, tgCount % PerDim, 1)>>, cnt |-> 2]
       [] ~workaround /\ ~NeedsRows(rows) ->
            [args |-> <<Rec(0, tgCount, 1), Rec(0, 0, 1)>>, cnt |-> 1]

\* The constants a record's dispatch sets: with the workaround the command has
\* no offset and the complement of the slot instead of the count.
Constants(s, r) ==
  IF workaround THEN [tgOffset |-> 0, workItemCount |-> WordSize - 1 - s]
  ELSE [tgOffset |-> args[s][r].tgOffset, workItemCount |-> args[s][r].workItemCount]

\* The shader takes a negative count for the complement of a slot.
WorkItemCount(s, r) ==
  LET passed == Constants(s, r).workItemCount
  IN IF passed >= WordSize \div 2 THEN args[WordSize - 1 - passed][1].workItemCount
                                  ELSE passed

\* A bug: the coordinates are swapped.
MutGroupId(s, r, n) ==
  Constants(s, r).tgOffset + (n % args[s][r].x) * args[s][r].y + n \div args[s][r].x

\* zstdgpu_ConvertTo32BitGroupId of the n-th group of a record.
GroupId(s, r, n) ==
  LET x == n % args[s][r].x
      y == n \div args[s][r].x
  IN Constants(s, r).tgOffset + y * PerDim + x

GroupsOf(s, r) == args[s][r].x * args[s][r].y
Records(s)     == IF workaround THEN 1 ELSE cnts[s]

\* The elements that the threads of a group work on.
ElementsOf(s, r, n) ==
  {i \in GroupId(s, r, n) * TgSize[s] .. (GroupId(s, r, n) + 1) * TgSize[s] - 1 :
     i < WorkItemCount(s, r)}

------------------------------------------------------------------------------

DispatchInit ==
  /\ workaround \in BOOLEAN
  /\ elems = [s \in Slots |-> 0]
  /\ args = [s \in Slots |-> <<NoRecord, NoRecord>>]
  /\ cnts = [s \in Slots |-> 0]
  /\ emits = 0
  /\ running = Idle /\ record = 1 /\ group = 0
  /\ visits = [i \in 0 .. MaxElems - 1 |-> 0]

\* The UpdateDispatchArgs kernel, for the slots of one stage.  (Its predicates
\* are read by the command processor between stages and are not modelled here.)
UpdateDispatchArgs ==
  \E counts \in [Slots -> 0 .. MaxElems] :
    LET emitted == [s \in Slots |-> EmitDispatch(counts[s], TgSize[s], args[s])]
    IN /\ running = Idle
       /\ emits < MaxEmits
       /\ emits' = emits + 1
       /\ elems' = counts
       /\ args' = [s \in Slots |-> emitted[s].args]
       /\ cnts' = [s \in Slots |-> emitted[s].cnt]
       /\ UNCHANGED <<workaround, running, record, group, visits>>

\* ExecuteIndirect reads the arguments behind a barrier.
DispatchIndirect(s) ==
  /\ running = Idle
  /\ emits > 0
  /\ running' = s
  /\ record' = 1 /\ group' = 0
  /\ visits' = [i \in 0 .. MaxElems - 1 |-> 0]
  /\ UNCHANGED <<workaround, elems, args, cnts, emits>>

IssueGroup ==
  /\ running # Idle
  /\ record <= Records(running)
  /\ group < GroupsOf(running, record)
  /\ group' = group + 1
  /\ visits' = [i \in DOMAIN visits |->
                  IF i \in ElementsOf(running, record, group) THEN visits[i] + 1
                                                              ELSE visits[i]]
  /\ UNCHANGED <<workaround, elems, args, cnts, emits, running, record>>

NextRecord ==
  /\ running # Idle
  /\ record <= Records(running)
  /\ group = GroupsOf(running, record)
  /\ record' = record + 1
  /\ group' = 0
  /\ UNCHANGED <<workaround, elems, args, cnts, emits, running, visits>>

Finish ==
  /\ running # Idle
  /\ record > Records(running)
  /\ running' = Idle
  /\ record' = 1 /\ group' = 0
  /\ UNCHANGED <<workaround, elems, args, cnts, emits, visits>>

DispatchNext ==
  \/ UpdateDispatchArgs
  \/ \E s \in Slots : DispatchIndirect(s)
  \/ IssueGroup
  \/ NextRecord
  \/ Finish

DispatchSpec == DispatchInit /\ [][DispatchNext]_dispatchVars

------------------------------------------------------------------------------

DispatchTypeOK ==
  /\ workaround \in BOOLEAN
  /\ elems \in [Slots -> 0 .. MaxElems]
  /\ cnts \in [Slots -> 0 .. 2]
  \* no more groups in a dimension than the API allows; GPUs that need the
  \* workaround take any number of them in x
  /\ \A s \in Slots, r \in 1 .. 2 :
       /\ args[s][r].x \in 0 .. (IF workaround THEN MaxElems ELSE DimLimit)
       /\ args[s][r].y \in 0 .. DimLimit
  /\ emits \in 0 .. MaxEmits
  /\ running \in Slots \cup {Idle}
  /\ record \in 1 .. 3 /\ group \in Nat
  /\ visits \in [0 .. MaxElems - 1 -> Nat]

\* When all the records of a kernel have been issued, every element of the
\* count was worked on by one thread, and nothing else was: also when the count
\* fills rows exactly, is zero, or was larger the last time.
EveryElementOnce ==
  running # Idle /\ record > Records(running) =>
    \A i \in 0 .. MaxElems - 1 : visits[i] = IF i < elems[running] THEN 1 ELSE 0

\* Groups are issued in the order of their numbers, over both records: when
\* one is issued, the elements before its own have all been worked on.  The
\* waves that spin in a look-back wait only for groups that were issued before.
IssuedInOrder ==
  running # Idle /\ record <= Records(running) /\ group < GroupsOf(running, record) =>
    \A i \in 0 .. MaxElems - 1 :
      visits[i] = IF i < elems[running] /\ i < GroupId(running, record, group) * TgSize[running]
                    THEN 1 ELSE 0

==============================================================================
