---------------------------- MODULE OrderedAppend ----------------------------
(***************************************************************************)
(* What the look-back prefix sum of zstdgpu promises its callers: every    *)
(* block of the dispatch eventually stores, once, the number of items that *)
(* all the blocks before it append, whatever the order the blocks finish   *)
(* in.  Nothing is said of how a block learns that number.                 *)
(***************************************************************************)
EXTENDS Integers

CONSTANTS
  NumBlocks,   \* number of blocks (waves) of the dispatch
  Inputs,      \* the count vectors considered: a set of [Blocks -> Nat]
  Prefix,      \* Prefix[c][b] is the sum of c[0], ..., c[b-1]
  Inclusive,   \* whether a block stores its inclusive prefix
  NotStored    \* a block that has not stored its result yet

Blocks == 0 .. NumBlocks - 1

VARIABLES
  input,       \* the counts the dispatch was given
  out          \* what each block has stored

vars == <<input, out>>

Promised(c, b) == Prefix[c][b] + (IF Inclusive THEN c[b] ELSE 0)

Init ==
  /\ input \in Inputs
  /\ out = [b \in Blocks |-> NotStored]

StoreResult(b) ==
  /\ out[b] = NotStored
  /\ out' = [out EXCEPT ![b] = Promised(input, b)]
  /\ UNCHANGED input

Next == \E b \in Blocks : StoreResult(b)

Fairness == \A b \in Blocks : WF_vars(StoreResult(b))

Safety == Init /\ [][Next]_vars

Spec == Safety /\ Fairness

==============================================================================
