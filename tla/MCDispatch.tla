----------------------------- MODULE MCDispatch -----------------------------
(***************************************************************************)
(* Model of Dispatch: two slots of different group sizes.                  *)
(***************************************************************************)
EXTENDS Dispatch

MCSlots  == 0 .. 1
MCTgSize == [s \in MCSlots |-> s + 1]

============================================================================
