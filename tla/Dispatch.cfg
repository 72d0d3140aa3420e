SPECIFICATION DispatchSpec
CONSTANTS
  DimLog2 = 1
  DimLimit = 3
  Slots <- MCSlots
  TgSize <- MCTgSize
  MaxElems = 7
  MaxEmits = 2
  WordSize = 16
INVARIANTS
  DispatchTypeOK
  EveryElementOnce
  IssuedInOrder
