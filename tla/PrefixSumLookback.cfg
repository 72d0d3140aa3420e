SPECIFICATION Spec
CONSTANTS
  NumBlocks = 4
  MaxCount = 1
  Inputs <- MCInputs
  Prefix <- MCPrefix
  Cap = 8
  Resident = 3
  Inclusive = FALSE
  NotStored = NotStored
INVARIANTS
  TypeOK
  LookbackWordsSound
  WalkAccumulatesGap
  StoredPrefixCorrect
PROPERTIES
  ImplementsOrderedAppend
CHECK_DEADLOCK FALSE
